----------------------------- MODULE BusyProofs -----------------------------
(***************************************************************************)
(* Proofs of the two properties that every page of the storefront shares:  *)
(* a page is only busy while a request is under way for it, and it does    *)
(* not ask again for what is under way.                                    *)
(*                                                                         *)
(* Both relate the flags of a page to the requests in flight.  A request   *)
(* is known by its purpose: what the page waits for, through all the       *)
(* requests of one handler.  A flag that is set has a request of its       *)
(* purpose (so nothing stays busy once there are none); and where a flag   *)
(* disables its button, a request of the purpose has set the flag, and     *)
(* there is only one.  Each area has such an invariant of its own.         *)
(***************************************************************************)
EXTENDS StaffPageProofs

-----------------------------------------------------------------------------
(* The purposes of requests.                                               *)

\* The requests of one handler of the cart have the same `by`.
CartPurpose(op, arg) ==
    IF op \in {"quote", "change"} THEN <<op, arg.by>> ELSE <<op, None>>

\* A heart is that of a product.
CataloguePurpose(op, arg) == IF op = "wish" THEN <<op, arg.ware>> ELSE <<op, None>>

\* A quote is for the load or for a code; a submission is that of a form.
CheckoutPurpose(op, arg) ==
    CASE op = "price" -> <<op, arg.by>>
      [] op = "checkout" -> <<op, arg.form>>
      [] OTHER -> <<op, None>>

\* A change of an order, and the load that its handler waits for.
OrderPurpose(op, arg) ==
    CASE op \notin {"act", "rows"} -> <<op, None>>
      [] arg.for = "review" -> <<"review", arg.op.what>>
      [] OTHER -> <<arg.for, None>>

\* A change of an order that the staff makes, and the loads that its handler
\* waits for.
JobPurpose(op, arg) ==
    IF op = "act" \/ (op \in {"rows", "shipment"} /\ arg.after = "act")
    THEN "job" ELSE op

\* A change of a list, and the list that is loaded after it, say what they are
\* after.  They are one change, of a row as it was mounted.
SwitchPurpose(op, arg) == <<op, arg.after>>

ChangePurpose(op, arg) == IF arg.after = "mount" THEN "mount" ELSE "change"

RowPurpose(op, arg) ==
    IF arg.after \in {"switch", "archive"} THEN <<"row", arg.row, arg.mounted>>
    ELSE <<"no row", None, None>>

\* `a` is an area, or another reading of the requests of one.
Purpose(a, op, arg) ==
    CASE a = "cart" -> CartPurpose(op, arg)
      [] a = "catalogue" -> CataloguePurpose(op, arg)
      [] a = "checkout" -> CheckoutPurpose(op, arg)
      [] a = "myOrders" -> OrderPurpose(op, arg)
      [] a = "job" -> JobPurpose(op, arg)
      [] a = "switchLists" -> SwitchPurpose(op, arg)
      [] a = "change" -> ChangePurpose(op, arg)
      [] a = "row" -> RowPurpose(op, arg)
      [] OTHER -> op

\* A request whose continuation will run.
UnderWay(c) == c.op # "none" /\ c.phase \in {"sent", "answered", "failed"}

\* The purposes of the requests under way in area a.
Purposes(a, cs) == {Purpose(a, cs[i].op, cs[i].arg) : i \in {j \in Slots : UnderWay(cs[j])}}

\* Of each purpose in K one request at most is under way.
OneOfEach(a, cs, K) ==
    \A i, j \in Slots :
        (/\ UnderWay(cs[i]) /\ UnderWay(cs[j])
         /\ Purpose(a, cs[i].op, cs[i].arg) \in K
         /\ Purpose(a, cs[i].op, cs[i].arg) = Purpose(a, cs[j].op, cs[j].arg))
        => i = j

-----------------------------------------------------------------------------
(* What the operators of Tab do to the purposes.                           *)

SlotsFilled == DOMAIN calls = Slots

\* The slot of a request that is sent.
LEMMA SentIsThere ==
    ASSUME NEW cs, DOMAIN cs = Slots, FreeIn(cs) # {}, NEW op, op # "none", NEW arg
    PROVE  /\ DOMAIN Sent(cs, op, arg) = Slots
           /\ NextSlot(cs) \in Slots /\ ~UnderWay(cs[NextSlot(cs)])
           /\ Sent(cs, op, arg)[NextSlot(cs)] = [op |-> op, arg |-> arg, phase |-> "sent"]
           /\ \A j \in Slots \ {NextSlot(cs)} : Sent(cs, op, arg)[j] = cs[j]
<1>1. NextSlot(cs) \in Slots /\ cs[NextSlot(cs)].op = "none"
  BY NextSlotFree DEF FreeIn
<1> QED BY <1>1 DEF Sent, UnderWay

LEMMA SentAddsOne ==
    ASSUME NEW cs, DOMAIN cs = Slots, FreeIn(cs) # {},
           NEW a, NEW op, op # "none", NEW arg
    PROVE  /\ Purposes(a, Sent(cs, op, arg)) = Purposes(a, cs) \cup {Purpose(a, op, arg)}
           /\ \A K : (/\ OneOfEach(a, cs, K)
                     /\ Purpose(a, op, arg) \notin K \cap Purposes(a, cs)) =>
                       OneOfEach(a, Sent(cs, op, arg), K)
<1> DEFINE n == NextSlot(cs)
           ds == Sent(cs, op, arg)
<1>1. /\ n \in Slots /\ ~UnderWay(cs[n])
      /\ ds[n] = [op |-> op, arg |-> arg, phase |-> "sent"]
      /\ \A j \in Slots \ {n} : ds[j] = cs[j]
  BY SentIsThere
<1> HIDE DEF n, ds
<1>2. UnderWay(ds[n]) /\ ds[n].op = op /\ ds[n].arg = arg
  BY <1>1 DEF UnderWay
<1>3. Purposes(a, ds) = Purposes(a, cs) \cup {Purpose(a, op, arg)}
  BY <1>1, <1>2 DEF Purposes
<1>4. ASSUME NEW K, OneOfEach(a, cs, K), Purpose(a, op, arg) \notin K \cap Purposes(a, cs)
      PROVE  OneOfEach(a, ds, K)
  BY <1>1, <1>2, <1>4 DEF Purposes, OneOfEach
<1> QED BY <1>3, <1>4 DEF ds

\* A request of purpose p is sent.
Begins(a, p) ==
    /\ SlotsFilled'
    /\ Purposes(a, calls') = Purposes(a, calls) \cup {p}
    /\ \A K : OneOfEach(a, calls, K) /\ p \notin K \cap Purposes(a, calls) =>
                OneOfEach(a, calls', K)

\* One of the requests of purpose p is over.
Ends(a, p) ==
    /\ SlotsFilled'
    /\ p \in Purposes(a, calls)
    /\ Purposes(a, calls') \subseteq Purposes(a, calls)
    /\ Purposes(a, calls) \subseteq Purposes(a, calls') \cup {p}
    /\ \A K : OneOfEach(a, calls, K) =>
          /\ OneOfEach(a, calls', K)
          /\ p \in K => p \notin Purposes(a, calls')

\* The handler of a request of purpose p sends one of purpose q.
Turns(a, p, q) ==
    /\ SlotsFilled'
    /\ p \in Purposes(a, calls)
    /\ q \in Purposes(a, calls')
    /\ Purposes(a, calls') \subseteq Purposes(a, calls) \cup {q}
    /\ Purposes(a, calls) \subseteq Purposes(a, calls') \cup {p}
    /\ \A K : OneOfEach(a, calls, K) /\ (q = p \/ q \notin K) =>
          /\ OneOfEach(a, calls', K)
          /\ (p \in K /\ q # p) => p \notin Purposes(a, calls')

\* Nothing that the page waits for has changed.
SamePurposes(a) ==
    /\ SlotsFilled'
    /\ Purposes(a, calls') = Purposes(a, calls)
    /\ \A K : OneOfEach(a, calls, K) => OneOfEach(a, calls', K)
    /\ \A j \in Slots : UnderWay(calls[j]) =>
          /\ UnderWay(calls'[j])
          /\ calls'[j].op = calls[j].op /\ calls'[j].arg = calls[j].arg

\* A request is sent into a slot that is free.
LEMMA SendTakesFree ==
    ASSUME NEW op, NEW arg, Send(op, arg)
    PROVE  FreeIn(calls) # {} /\ calls' = Sent(calls, op, arg)
<1>1. Cardinality(FreeIn(calls)) # 0
  BY DEF Send, Room, Free, FreeIn
<1> QED BY <1>1, FS_EmptySet DEF Send

LEMMA SendBegins ==
    ASSUME SlotsFilled, NEW a, NEW op, op # "none", NEW arg, Send(op, arg),
           NEW p, Purpose(a, op, arg) = p
    PROVE  Begins(a, p)
<1>1. FreeIn(calls) # {}
  BY SendTakesFree
<1>2. calls' = Sent(calls, op, arg) /\ DOMAIN calls = Slots
  BY DEF Send, SlotsFilled
<1>3. DOMAIN Sent(calls, op, arg) = Slots
  BY <1>1, <1>2, SentIsThere
<1>4. /\ Purposes(a, Sent(calls, op, arg)) = Purposes(a, calls) \cup {p}
      /\ \A K : OneOfEach(a, calls, K) /\ p \notin K \cap Purposes(a, calls) =>
                 OneOfEach(a, Sent(calls, op, arg), K)
  BY <1>1, <1>2, SentAddsOne
<1> QED BY <1>2, <1>3, <1>4 DEF SlotsFilled, Begins

\* The request that is sent is in the next slot, and the others are as they were.
LEMMA SendFillsNext ==
    ASSUME SlotsFilled, NEW op, op # "none", NEW arg, Send(op, arg)
    PROVE  /\ NextSlot(calls) \in Slots
           /\ calls'[NextSlot(calls)] = [op |-> op, arg |-> arg, phase |-> "sent"]
           /\ \A j \in Slots : UnderWay(calls[j]) => calls'[j] = calls[j]
<1>1. FreeIn(calls) # {} /\ calls' = Sent(calls, op, arg)
  BY SendTakesFree
<1> QED BY <1>1, SentIsThere DEF SlotsFilled

LEMMA FinishEnds ==
    ASSUME SlotsFilled, NEW a, NEW i \in Slots, UnderWay(calls[i]), Finish(i),
           NEW p, Purpose(a, calls[i].op, calls[i].arg) = p
    PROVE  Ends(a, p)
<1>1. /\ ~UnderWay(calls'[i])
      /\ \A j \in Slots \ {i} : calls'[j] = calls[j]
  BY DEF Finish, NoCall, SlotsFilled, UnderWay
<1>2. SlotsFilled'
  BY DEF Finish, SlotsFilled
<1>3. /\ p \in Purposes(a, calls)
      /\ Purposes(a, calls') \subseteq Purposes(a, calls)
      /\ Purposes(a, calls) \subseteq Purposes(a, calls') \cup {p}
  BY <1>1 DEF Purposes
<1>4. ASSUME NEW K, OneOfEach(a, calls, K)
      PROVE  OneOfEach(a, calls', K) /\ (p \in K => p \notin Purposes(a, calls'))
  BY <1>1, <1>4 DEF Purposes, OneOfEach
<1> QED BY <1>2, <1>3, <1>4 DEF Ends

LEMMA ContinueTurns ==
    ASSUME SlotsFilled, NEW a, NEW i \in Slots, UnderWay(calls[i]),
           NEW op, op # "none", NEW arg, Continue(i, op, arg),
           NEW p, Purpose(a, calls[i].op, calls[i].arg) = p,
           NEW q, Purpose(a, op, arg) = q
    PROVE  Turns(a, p, q)
<1>1. /\ calls'[i].op = op /\ calls'[i].arg = arg /\ UnderWay(calls'[i])
      /\ \A j \in Slots \ {i} : calls'[j] = calls[j]
  BY DEF Continue, SlotsFilled, UnderWay
<1>2. SlotsFilled'
  BY DEF Continue, SlotsFilled
<1>3. /\ p \in Purposes(a, calls) /\ q \in Purposes(a, calls')
      /\ Purposes(a, calls') \subseteq Purposes(a, calls) \cup {q}
      /\ Purposes(a, calls) \subseteq Purposes(a, calls') \cup {p}
  BY <1>1 DEF Purposes
<1>4. ASSUME NEW K, OneOfEach(a, calls, K), q = p \/ q \notin K
      PROVE  /\ OneOfEach(a, calls', K)
             /\ (p \in K /\ q # p) => p \notin Purposes(a, calls')
  BY <1>1, <1>4 DEF Purposes, OneOfEach
<1> QED BY <1>2, <1>3, <1>4 DEF Turns

LEMMA AnswerKeepsPurpose ==
    ASSUME SlotsFilled, NEW a, NEW i \in Slots, NEW ans, calls[i].phase = "sent",
           Reply(i, ans) \/ Refuse(i)
    PROVE  SamePurposes(a)
<1>1. /\ calls'[i].op = calls[i].op /\ calls'[i].arg = calls[i].arg
      /\ UnderWay(calls'[i]) <=> UnderWay(calls[i])
      /\ \A j \in Slots \ {i} : calls'[j] = calls[j]
  BY DEF Reply, Refuse, SlotsFilled, UnderWay
<1>2. SlotsFilled'
  BY DEF Reply, Refuse, SlotsFilled
<1> QED BY <1>1, <1>2 DEF Purposes, OneOfEach, SamePurposes

LEMMA OrphanKeepsPurpose ==
    ASSUME SlotsFilled, NEW a, NEW i \in Slots, calls[i].phase = "orphan", Finish(i)
    PROVE  SamePurposes(a)
<1>1. /\ ~UnderWay(calls'[i]) /\ ~UnderWay(calls[i])
      /\ \A j \in Slots \ {i} : calls'[j] = calls[j]
  BY DEF Finish, NoCall, SlotsFilled, UnderWay
<1>2. SlotsFilled'
  BY DEF Finish, SlotsFilled
<1> QED BY <1>1, <1>2 DEF Purposes, OneOfEach, SamePurposes

LEMMA ActedKeepsPurpose ==
    ASSUME SlotsFilled, NEW a, NEW i \in Slots, NEW ans, Acted(i, ans) \/ Rejected(i)
    PROVE  SamePurposes(a)
<1>1. CASE calls[i].phase = "sent" /\ (Reply(i, ans) \/ Refuse(i))
  BY <1>1, AnswerKeepsPurpose
<1>2. CASE calls[i].phase = "orphan" /\ Finish(i)
  BY <1>2, OrphanKeepsPurpose
<1> QED BY <1>1, <1>2 DEF Acted, Rejected

LEMMA ServiceKeepsPurpose ==
    ASSUME SlotsFilled, NEW a, NEW i \in Slots, ActServed(i, FALSE) \/ OrdersRead(i)
    PROVE  SamePurposes(a) /\ UNCHANGED view
<1>1. CASE ActServed(i, FALSE)
  <2>1. PICK ans : Acted(i, ans) \/ Rejected(i)
    BY <1>1 DEF ActServed
  <2> QED BY <1>1, <2>1, ActedKeepsPurpose DEF ActServed
<1>2. CASE OrdersRead(i)
  BY <1>2, AnswerKeepsPurpose DEF OrdersRead, Asked
<1> QED BY <1>1, <1>2

LEMMA LossKeepsPurpose ==
    ASSUME SlotsFilled, NEW a, RequestLost \/ OrphanLost PROVE SamePurposes(a)
BY AnswerKeepsPurpose, OrphanKeepsPurpose DEF RequestLost, OrphanLost

LEMMA RestKeepsPurpose ==
    ASSUME SlotsFilled, NEW a, calls' = calls PROVE SamePurposes(a)
BY DEF SlotsFilled, SamePurposes, Purposes, OneOfEach

\* What happens while no page does anything.
LEMMA AroundKeepsPurpose ==
    ASSUME SlotsFilled, NEW a,
           RequestLost \/ OrphanLost \/ UNCHANGED tab \/ UNCHANGED <<view, calls>>
    PROVE  SamePurposes(a) /\ UNCHANGED view
BY LossKeepsPurpose, RestKeepsPurpose DEF RequestLost, OrphanLost, tab

\* Without requests there are no purposes.
LEMMA QuietPurposes == ASSUME NEW a, calls = NoCalls PROVE SlotsFilled /\ Purposes(a, calls) = {}
BY DEF NoCalls, NoCall, SlotsFilled, Purposes, UnderWay

LEMMA QuietIsOneOfEach == ASSUME NEW a, NEW K, calls = NoCalls PROVE OneOfEach(a, calls, K)
BY DEF NoCalls, NoCall, UnderWay, OneOfEach

LEMMA SameIsUnderWay ==
    ASSUME NEW a, NEW i \in Slots, NEW j \in Slots, SameAgain(i, j)
    PROVE  /\ UnderWay(calls[i]) /\ UnderWay(calls[j])
           /\ calls[i].op = calls[j].op
           /\ Purpose(a, calls[i].op, calls[i].arg) \in Purposes(a, calls)
BY DEF SameAgain, UnderWay, Purposes

LEMMA OnlyOneUnderWay ==
    ASSUME NEW a, NEW K, OneOfEach(a, calls, K),
           NEW i \in Slots, NEW j \in Slots, SameAgain(i, j),
           Purpose(a, calls[i].op, calls[i].arg) = Purpose(a, calls[j].op, calls[j].arg),
           Purpose(a, calls[i].op, calls[i].arg) \in K
    PROVE  i = j
BY SameIsUnderWay DEF OneOfEach

\* What a page asks for when it is mounted.
LEMMA QuietIsFree == DOMAIN NoCalls = Slots /\ FreeIn(NoCalls) # {}
BY TwoSlots DEF NoCalls, NoCall, FreeIn

LEMMA QuietHasNone ==
    ASSUME NEW a PROVE Purposes(a, NoCalls) = {} /\ \A K : OneOfEach(a, NoCalls, K)
BY DEF NoCalls, NoCall, Purposes, OneOfEach, UnderWay

LEMMA FirstRequest ==
    ASSUME NEW a, NEW op, op # "none", NEW arg, calls = Sent(NoCalls, op, arg),
           NEW p, Purpose(a, op, arg) = p
    PROVE  SlotsFilled /\ Purposes(a, calls) = {p} /\ \A K : OneOfEach(a, calls, K)
<1>1. DOMAIN Sent(NoCalls, op, arg) = Slots
  BY QuietIsFree, SentIsThere
<1>2. Purposes(a, Sent(NoCalls, op, arg)) = Purposes(a, NoCalls) \cup {p}
  BY QuietIsFree, SentAddsOne
<1>3. ASSUME NEW K PROVE OneOfEach(a, Sent(NoCalls, op, arg), K)
  BY QuietIsFree, SentAddsOne, QuietHasNone
<1> QED BY <1>1, <1>2, <1>3, QuietHasNone DEF SlotsFilled

LEMMA RoomForASecond ==
    ASSUME NEW op, op # "none", NEW arg
    PROVE  DOMAIN Sent(NoCalls, op, arg) = Slots /\ FreeIn(Sent(NoCalls, op, arg)) # {}
<1>1. DOMAIN Sent(NoCalls, op, arg) = Slots
  BY DEF Sent, NoCalls
<1>2. PICK j \in Slots : j # NextSlot(NoCalls)
  BY TwoSlots
<1>3. Sent(NoCalls, op, arg)[j].op = "none"
  BY <1>2 DEF Sent, NoCalls, NoCall
<1> QED BY <1>1, <1>2, <1>3 DEF FreeIn

LEMMA TwoRequests ==
    ASSUME NEW a, NEW op1, op1 # "none", NEW arg1, NEW op2, op2 # "none", NEW arg2,
           calls = Sent(Sent(NoCalls, op1, arg1), op2, arg2),
           NEW p1, Purpose(a, op1, arg1) = p1, NEW p2, Purpose(a, op2, arg2) = p2
    PROVE  SlotsFilled /\ Purposes(a, calls) = {p1, p2}
<1> DEFINE first == Sent(NoCalls, op1, arg1)
<1>1. Purposes(a, first) = Purposes(a, NoCalls) \cup {p1}
  BY QuietIsFree, SentAddsOne
<1>2. DOMAIN first = Slots /\ FreeIn(first) # {}
  BY RoomForASecond
<1> HIDE DEF first
<1>3. calls = Sent(first, op2, arg2)
  BY DEF first
<1>4. DOMAIN Sent(first, op2, arg2) = Slots
  BY <1>2 DEF Sent
<1>5. Purposes(a, Sent(first, op2, arg2)) = Purposes(a, first) \cup {p2}
  BY <1>2, SentAddsOne
<1> QED BY <1>1, <1>3, <1>4, <1>5, QuietHasNone DEF SlotsFilled

-----------------------------------------------------------------------------
(* What the two properties say of an area.                                 *)

\* No flag that v has is set.
NoFlag(v) ==
    /\ \A f \in Flags \cap DOMAIN v : ~v[f]
    /\ \A f \in {"busy", "busyItem"} \cap DOMAIN v : v[f] = None
    /\ \A f \in {"busyRows", "wishBusy"} \cap DOMAIN v : v[f] = {}

-----------------------------------------------------------------------------
(* The till.                                                               *)

TillFields ==
    {"page", "searching", "results", "selected", "basket", "submitting", "last",
     "moves"}

TillBusy ==
    LET P == Purposes("till", calls)
    IN  /\ SlotsFilled
        /\ P \subseteq {"find", "sell"}
        /\ OneOfEach("till", calls, {"sell"})
        /\ view.page = "till" =>
              /\ DOMAIN view = TillFields
              /\ view.searching => "find" \in P
              /\ view.submitting => "sell" \in P
              /\ "sell" \in P => view.submitting
        /\ view.page # "till" => view = [page |-> "blank"] /\ P = {}

LEMMA TillPurposes == ASSUME NEW op, NEW arg PROVE Purpose("till", op, arg) = op
BY DEF Purpose

LEMMA TillBusyStarts == ASSUME TillInit PROVE TillBusy
<1>1. SlotsFilled /\ Purposes("till", calls) = {} /\ OneOfEach("till", calls, {"sell"})
  BY QuietPurposes, QuietIsOneOfEach DEF TillInit
<1> QED BY <1>1 DEF TillInit, TillBusy

LEMMA TillBusySteps ==
    ASSUME TillBusy, TillNext \/ RequestLost \/ OrphanLost \/ UNCHANGED tab
    PROVE  TillBusy'
<1>1. CASE OpenTill
  <2>1. SamePurposes("till")
    BY <1>1, RestKeepsPurpose DEF OpenTill, TillBusy
  <2> QED BY <1>1, <2>1 DEF OpenTill, TillBusy, SamePurposes, TillFields
<1>2. CASE SearchProduct
  <2>1. PICK what : Send("find", [what |-> what])
    BY <1>2 DEF SearchProduct
  <2>2. Begins("till", "find")
    BY <2>1, SendBegins, TillPurposes DEF TillBusy
  <2> QED BY <1>2, <2>2 DEF SearchProduct, TillBusy, TillFields, AtTill, Begins
<1>3. CASE SubmitSale
  <2>1. PICK arg : Send("sell", arg)
    BY <1>3 DEF SubmitSale
  <2>2. Begins("till", "sell")
    BY <2>1, SendBegins, TillPurposes DEF TillBusy
  <2> QED BY <1>3, <2>2 DEF SubmitSale, TillBusy, TillFields, AtTill, Begins
<1>4. CASE SelectResult \/ AddToBasket \/ RemoveFromBasket \/ DismissReceipt
  <2>1. SamePurposes("till") /\ AtTill
    BY <1>4, RestKeepsPurpose DEF SelectResult, AddToBasket, RemoveFromBasket,
       DismissReceipt, TillBusy
  <2>2. /\ DOMAIN view' = DOMAIN view /\ view'.page = view.page
        /\ view'.searching = view.searching /\ view'.submitting = view.submitting
    BY <1>4, <2>1 DEF SelectResult, AddToBasket, RemoveFromBasket, DismissReceipt,
       TillBusy, TillFields, AtTill
  <2> QED BY <2>1, <2>2 DEF TillBusy, SamePurposes, AtTill
<1>5. ASSUME NEW i \in Slots, SearchSettles(i) PROVE TillBusy'
  <2>1. Ends("till", "find")
    BY <1>5, FinishEnds, TillPurposes DEF SearchSettles, Returns, Throws, UnderWay, TillBusy
  <2> QED BY <1>5, <2>1 DEF SearchSettles, TillBusy, TillFields, AtTill, Ends
<1>6. ASSUME NEW i \in Slots, SaleDone(i) \/ SaleFails(i) PROVE TillBusy'
  <2>1. Ends("till", "sell")
    BY <1>6, FinishEnds, TillPurposes
    DEF SaleDone, SaleFails, Returns, Throws, UnderWay, TillBusy
  <2>2. "sell" \notin Purposes("till", calls')
    BY <2>1 DEF Ends, TillBusy
  <2> QED BY <1>6, <2>1, <2>2 DEF SaleDone, SaleFails, TillBusy, TillFields, AtTill, Ends
<1>7. ASSUME SamePurposes("till"), UNCHANGED view PROVE TillBusy'
  BY <1>7 DEF TillBusy, SamePurposes
<1>8. ASSUME NEW i \in Slots, ProductsFound(i) \/ SaleServed(i) PROVE TillBusy'
  <2>1. CASE ProductsFound(i)
    BY <1>7, <2>1, AnswerKeepsPurpose DEF ProductsFound, Asked, TillBusy
  <2>2. CASE SaleServed(i)
    BY <1>7, <2>2, ActedKeepsPurpose DEF SaleServed, TillBusy
  <2> QED BY <1>8, <2>1, <2>2
<1>9. CASE RequestLost \/ OrphanLost \/ UNCHANGED tab \/ PriceChanges
  BY <1>7, <1>9, AroundKeepsPurpose DEF PriceChanges, TillBusy
<1> QED BY <1>1, <1>2, <1>3, <1>4, <1>5, <1>6, <1>8, <1>9 DEF TillNext

\* The till is only busy with a search or a sale, and with one sale.
LEMMA TillAtRest ==
    ASSUME area = "till", TillBusy
    PROVE  QuietMeansIdle /\ NothingSentTwice
<1>1. ASSUME calls = NoCalls PROVE NoFlag(view)
  BY <1>1, QuietPurposes DEF TillBusy, TillFields, NoFlag, Flags
<1>2. view.page \in {"blank", "till"}
  BY DEF TillBusy
<1>3. ASSUME NEW i \in Slots, NEW j \in Slots, SameAgain(i, j) PROVE i = j
  <2>1. calls[i].op = calls[j].op /\ calls[i].op \in {"find", "sell"}
    BY <1>3, SameIsUnderWay, TillPurposes DEF TillBusy
  <2>2. calls[i].op = "sell"
    BY <1>3, <2>1 DEF SameAgain
  <2>3. /\ Purpose("till", calls[i].op, calls[i].arg) = "sell"
        /\ Purpose("till", calls[j].op, calls[j].arg) = "sell"
    BY <2>1, <2>2, TillPurposes
  <2>4. OneOfEach("till", calls, {"sell"})
    BY DEF TillBusy
  <2> QED BY <1>3, <2>3, <2>4, OnlyOneUnderWay
<1> QED BY <1>1, <1>2, <1>3 DEF QuietMeansIdle, NoFlag, NothingSentTwice

-----------------------------------------------------------------------------
(* The page on which a return is decided.                                  *)

ReturnDeskFields ==
    {"page", "ret", "loading", "error", "deciding", "marks", "rejecting",
     "decisions"}

\* A decision and the load after it are one job.
ReturnDeskBusy ==
    LET P == Purposes("returnDesk", calls)
        J == Purposes("job", calls)
    IN  /\ SlotsFilled
        /\ P \subseteq {"act", "rows"}
        /\ OneOfEach("job", calls, {"job", "rows"})
        /\ view.page = "returnDesk" =>
              /\ DOMAIN view = ReturnDeskFields
              /\ view.loading => "rows" \in P
              /\ view.deciding => "job" \in J
              /\ "job" \in J => view.deciding /\ "rows" \notin J
              /\ "rows" \in J => view.loading
        /\ view.page # "returnDesk" => view = [page |-> "blank"] /\ P = {} /\ J = {}

LEMMA ReturnDeskPurposes ==
    ASSUME NEW op, NEW arg
    PROVE  /\ Purpose("returnDesk", op, arg) = op
           /\ Purpose("job", op, arg) = JobPurpose(op, arg)
BY DEF Purpose

LEMMA ReturnDeskBusyStarts == ASSUME ReturnDeskInit PROVE ReturnDeskBusy
<1>1. /\ SlotsFilled /\ Purposes("returnDesk", calls) = {} /\ Purposes("job", calls) = {}
      /\ OneOfEach("job", calls, {"job", "rows"})
  BY QuietPurposes, QuietIsOneOfEach DEF ReturnDeskInit
<1> QED BY <1>1 DEF ReturnDeskInit, ReturnDeskBusy

LEMMA ReturnDeskBusySteps ==
    ASSUME ReturnDeskBusy, ReturnDeskNext \/ RequestLost \/ OrphanLost \/ UNCHANGED tab
    PROVE  ReturnDeskBusy'
<1>1. CASE OpenReturnDesk
  <2>1. Begins("returnDesk", "rows")
    BY <1>1, SendBegins, ReturnDeskPurposes DEF OpenReturnDesk, ReturnDeskBusy
  <2>2. Begins("job", "rows")
    <3>1. Purpose("job", "rows", [after |-> "mount"]) = "rows"
      BY DEF Purpose, JobPurpose
    <3> QED BY <1>1, <3>1, SendBegins DEF OpenReturnDesk, ReturnDeskBusy
  <2> QED BY <1>1, <2>1, <2>2 DEF OpenReturnDesk, ReturnDeskBusy, ReturnDeskFields, Begins
<1>2. ASSUME NEW do, NEW what, NEW status, Decides(status), Decide(do, what)
      PROVE  ReturnDeskBusy'
  <2>1. Begins("returnDesk", "act")
    BY <1>2, SendBegins, ReturnDeskPurposes DEF Decide, ReturnDeskBusy
  <2>2. Begins("job", "job")
    BY <1>2, SendBegins, ReturnDeskPurposes DEF Decide, ReturnDeskBusy, JobPurpose
  <2>3. OneOfEach("job", calls', {"job", "rows"})
    BY <1>2, <2>2 DEF Decides, DeskShows, ReturnDeskBusy, Begins
  <2> QED BY <1>2, <2>1, <2>2, <2>3
      DEF Decide, Decides, DeskShows, ReturnDeskBusy, ReturnDeskFields, Begins
<1>3. CASE Approve \/ Receive \/ Reject \/ Inspect
  BY <1>2, <1>3 DEF Approve, Receive, Reject, Inspect
<1>4. CASE AskReason \/ Mark
  <2>1. SamePurposes("returnDesk") /\ SamePurposes("job") /\ view.page = "returnDesk"
    BY <1>4, RestKeepsPurpose DEF AskReason, Mark, DeskShows, ReturnDeskBusy
  <2>2. /\ DOMAIN view' = DOMAIN view /\ view'.page = view.page
        /\ view'.loading = view.loading /\ view'.deciding = view.deciding
    BY <1>4, <2>1 DEF AskReason, Mark, ReturnDeskBusy, ReturnDeskFields
  <2> QED BY <2>1, <2>2 DEF ReturnDeskBusy, SamePurposes
<1>5. ASSUME NEW i \in Slots, Decided(i) PROVE ReturnDeskBusy'
  <2>1. Turns("returnDesk", "act", "rows")
    BY <1>5, ContinueTurns, ReturnDeskPurposes DEF Decided, Returns, UnderWay, ReturnDeskBusy
  <2>2. Turns("job", "job", "job")
    BY <1>5, ContinueTurns, ReturnDeskPurposes
    DEF Decided, Returns, UnderWay, ReturnDeskBusy, JobPurpose
  <2> QED BY <1>5, <2>1, <2>2 DEF Decided, ReturnDeskBusy, ReturnDeskFields, Turns
<1>6. ASSUME NEW i \in Slots, DecisionFails(i) PROVE ReturnDeskBusy'
  <2>1. Ends("returnDesk", "act")
    BY <1>6, FinishEnds, ReturnDeskPurposes
    DEF DecisionFails, Throws, UnderWay, ReturnDeskBusy
  <2>2. Ends("job", "job")
    BY <1>6, FinishEnds, ReturnDeskPurposes
    DEF DecisionFails, Throws, UnderWay, ReturnDeskBusy, JobPurpose
  <2> QED BY <1>6, <2>1, <2>2 DEF DecisionFails, ReturnDeskBusy, ReturnDeskFields, Ends
<1>7. ASSUME NEW i \in Slots, DeskReturnLoads(i) PROVE ReturnDeskBusy'
  <2>1. calls[i].op = "rows" /\ UnderWay(calls[i]) /\ Finish(i)
    BY <1>7 DEF DeskReturnLoads, Returns, Throws, UnderWay
  <2>2. Ends("returnDesk", "rows")
    BY <2>1, FinishEnds, ReturnDeskPurposes DEF ReturnDeskBusy
  <2>3. PICK p \in {"job", "rows"} : Ends("job", p)
    BY <2>1, FinishEnds, ReturnDeskPurposes DEF ReturnDeskBusy, JobPurpose
  <2>4. "job" \notin Purposes("job", calls') /\ "rows" \notin Purposes("job", calls')
    BY <1>7, <2>3 DEF ReturnDeskBusy, DeskReturnLoads, Ends
  <2>5. /\ DOMAIN view' = DOMAIN view /\ view'.page = view.page
        /\ ~view'.loading /\ ~view'.deciding
    BY <1>7 DEF DeskReturnLoads, ReturnDeskBusy, ReturnDeskFields
  <2> QED BY <1>7, <2>2, <2>3, <2>4, <2>5 DEF DeskReturnLoads, ReturnDeskBusy, Ends
<1>8. ASSUME SamePurposes("returnDesk"), SamePurposes("job"), UNCHANGED view
      PROVE  ReturnDeskBusy'
  BY <1>8 DEF ReturnDeskBusy, SamePurposes
<1>9. ASSUME NEW i \in Slots, ActServed(i, FALSE) \/ OrdersRead(i) PROVE ReturnDeskBusy'
  BY <1>8, <1>9, ServiceKeepsPurpose DEF ReturnDeskBusy
<1>10. CASE RequestLost \/ OrphanLost \/ UNCHANGED tab \/ Elsewhere(OthersDecide)
  BY <1>8, <1>10, AroundKeepsPurpose DEF ReturnDeskBusy, Elsewhere
<1> QED BY <1>1, <1>3, <1>4, <1>5, <1>6, <1>7, <1>9, <1>10 DEF ReturnDeskNext

\* One decision is sent at a time.
LEMMA ReturnDeskAtRest ==
    ASSUME area = "returnDesk", ReturnDeskBusy
    PROVE  QuietMeansIdle /\ NothingSentTwice
<1>1. ASSUME calls = NoCalls PROVE NoFlag(view)
  BY <1>1, QuietPurposes DEF ReturnDeskBusy, ReturnDeskFields, NoFlag, Flags
<1>2. view.page \in {"blank", "returnDesk"}
  BY DEF ReturnDeskBusy
<1>3. ASSUME NEW i \in Slots, NEW j \in Slots, SameAgain(i, j) PROVE i = j
  <2>1. calls[i].op = calls[j].op /\ calls[i].op \in {"act", "rows"}
    BY <1>3, SameIsUnderWay, ReturnDeskPurposes DEF ReturnDeskBusy
  <2>2. calls[i].op = "act"
    BY <1>3, <2>1 DEF SameAgain
  <2>3. /\ Purpose("job", calls[i].op, calls[i].arg) = "job"
        /\ Purpose("job", calls[j].op, calls[j].arg) = "job"
    BY <2>1, <2>2, ReturnDeskPurposes DEF JobPurpose
  <2>4. OneOfEach("job", calls, {"job", "rows"})
    BY DEF ReturnDeskBusy
  <2> QED BY <1>3, <2>3, <2>4, OnlyOneUnderWay
<1> QED BY <1>1, <1>2, <1>3 DEF QuietMeansIdle, NoFlag, NothingSentTwice

-----------------------------------------------------------------------------
(* Receiving.                                                              *)

\* The dialog that waits for its list knows the slot of the request for it.
AwaitsGoods ==
    (view.dialog.open /\ view.dialog.loading) =>
        /\ view.dialog.current \in Slots
        /\ UnderWay(calls[view.dialog.current])
        /\ calls[view.dialog.current].op = "goods"

ReceivingBusy ==
    LET P == Purposes("receiving", calls)
    IN  /\ SlotsFilled
        /\ P \subseteq {"receipts", "goods", "book"}
        /\ OneOfEach("receiving", calls, {"book"})
        /\ view.page = "receiving" =>
              /\ DOMAIN view = ReceivingFields /\ DOMAIN view.dialog = DialogFields
              /\ view.loading => "receipts" \in P
              /\ view.dialog.submitting => "book" \in P
              /\ "book" \in P => view.dialog.submitting
              /\ AwaitsGoods
        /\ view.page # "receiving" => view = [page |-> "blank"] /\ P = {}

LEMMA ReceivingPurposes == ASSUME NEW op, NEW arg PROVE Purpose("receiving", op, arg) = op
BY DEF Purpose

LEMMA ReceivingBusyStarts == ASSUME ReceivingInit PROVE ReceivingBusy
<1>1. /\ SlotsFilled /\ Purposes("receiving", calls) = {}
      /\ OneOfEach("receiving", calls, {"book"})
  BY QuietPurposes, QuietIsOneOfEach DEF ReceivingInit
<1> QED BY <1>1 DEF ReceivingInit, ReceivingBusy

\* A dialog that is closed is as it was otherwise.
LEMMA ShutDialog ==
    ASSUME NEW w, DOMAIN w = ReceivingFields, DOMAIN w.dialog = DialogFields
    PROVE  /\ DOMAIN Shut(w) = ReceivingFields /\ DOMAIN Shut(w).dialog = DialogFields
           /\ Shut(w).page = w.page /\ Shut(w).loading = w.loading
           /\ Shut(w).dialog.submitting = w.dialog.submitting
           /\ Shut(w).dialog.loading = w.dialog.loading
           /\ Shut(w).dialog.open = FALSE
BY DEF Shut, ReceivingFields, DialogFields

LEMMA ReceivingBusySteps ==
    ASSUME ReceivingBusy, ReceivingNext \/ RequestLost \/ OrphanLost \/ UNCHANGED tab
    PROVE  ReceivingBusy'
<1>1. CASE OpenReceiving
  <2>1. Begins("receiving", "receipts")
    BY <1>1, SendBegins, ReceivingPurposes DEF OpenReceiving, ReceivingBusy
  <2> QED BY <1>1, <2>1 DEF OpenReceiving, NoDialog, ReceivingBusy, ReceivingFields,
          DialogFields, Begins, AwaitsGoods
<1>2. CASE OpenDialogue
  <2>1. Begins("receiving", "goods")
    BY <1>2, SendBegins, ReceivingPurposes DEF OpenDialogue, ReceivingBusy
  <2>2. /\ NextSlot(calls) \in Slots
        /\ calls'[NextSlot(calls)] = [op |-> "goods", arg |-> None, phase |-> "sent"]
    BY <1>2, SendFillsNext DEF OpenDialogue, ReceivingBusy
  <2>3. /\ DOMAIN view' = DOMAIN view /\ view'.page = view.page
        /\ view'.loading = view.loading
        /\ DOMAIN view'.dialog = DialogFields
        /\ view'.dialog.submitting = view.dialog.submitting
        /\ view'.dialog.current = NextSlot(calls)
    BY <1>2 DEF OpenDialogue, ReceivingBusy, ReceivingFields, DialogFields
  <2>4. AwaitsGoods'
    BY <2>2, <2>3 DEF AwaitsGoods, UnderWay
  <2> QED BY <1>2, <2>1, <2>3, <2>4 DEF OpenDialogue, ReceivingBusy, Begins
<1>3. CASE Stage \/ Unstage \/ CloseDialogue
  <2>1. SamePurposes("receiving") /\ UNCHANGED calls /\ view.page = "receiving"
    BY <1>3, RestKeepsPurpose DEF Stage, Unstage, CloseDialogue, DialogOpen, ReceivingBusy
  <2>2. /\ DOMAIN view' = DOMAIN view /\ view'.page = view.page
        /\ view'.loading = view.loading
        /\ DOMAIN view'.dialog = DialogFields
        /\ view'.dialog.loading = view.dialog.loading
        /\ view'.dialog.submitting = view.dialog.submitting
        /\ view'.dialog.open =>
              view.dialog.open /\ view'.dialog.current = view.dialog.current
    <3>1. CASE Stage
      BY <3>1, <2>1 DEF Stage, ReceivingBusy, ReceivingFields, DialogFields
    <3>2. CASE Unstage
      BY <3>2, <2>1 DEF Unstage, ReceivingBusy, ReceivingFields, DialogFields
    <3>3. CASE CloseDialogue
      BY <3>3, <2>1, ShutDialog DEF CloseDialogue, ReceivingBusy
    <3> QED BY <1>3, <3>1, <3>2, <3>3
  <2>3. AwaitsGoods'
    BY <2>1, <2>2 DEF AwaitsGoods, ReceivingBusy
  <2> QED BY <2>1, <2>2, <2>3 DEF ReceivingBusy, SamePurposes
<1>4. CASE Book
  <2>1. PICK arg : Send("book", arg)
    BY <1>4 DEF Book
  <2>2. Begins("receiving", "book")
    BY <2>1, SendBegins, ReceivingPurposes DEF ReceivingBusy
  <2>3. \A j \in Slots : UnderWay(calls[j]) => calls'[j] = calls[j]
    BY <2>1, SendFillsNext DEF ReceivingBusy
  <2>4. /\ DOMAIN view' = DOMAIN view /\ view'.page = view.page
        /\ view'.loading = view.loading
        /\ DOMAIN view'.dialog = DialogFields
        /\ view'.dialog.submitting /\ ~view.dialog.submitting
        /\ view'.dialog.loading = view.dialog.loading
        /\ view'.dialog.open = view.dialog.open
        /\ view'.dialog.current = view.dialog.current
    BY <1>4 DEF Book, DialogOpen, ReceivingBusy, ReceivingFields, DialogFields
  <2>5. AwaitsGoods'
    BY <1>4, <2>3, <2>4 DEF AwaitsGoods, ReceivingBusy, Book, DialogOpen
  <2> QED BY <1>4, <2>2, <2>4, <2>5 DEF Book, DialogOpen, ReceivingBusy, Begins
<1>5. ASSUME NEW i \in Slots, ReceiptsLoad(i) PROVE ReceivingBusy'
  <2>1. Ends("receiving", "receipts")
    BY <1>5, FinishEnds, ReceivingPurposes
    DEF ReceiptsLoad, Returns, Throws, UnderWay, ReceivingBusy
  <2>2. \A j \in Slots : calls[j].op = "goods" => calls'[j] = calls[j]
    BY <1>5 DEF ReceiptsLoad, Returns, Throws, Finish, ReceivingBusy, SlotsFilled
  <2>3. AwaitsGoods'
    BY <1>5, <2>2 DEF AwaitsGoods, ReceivingBusy, ReceiptsLoad, ReceivingFields
  <2> QED BY <1>5, <2>1, <2>3 DEF ReceiptsLoad, ReceivingBusy, ReceivingFields, Ends
<1>6. ASSUME NEW i \in Slots, GoodsLoad(i) PROVE ReceivingBusy'
  <2>1. Ends("receiving", "goods")
    BY <1>6, FinishEnds, ReceivingPurposes
    DEF GoodsLoad, Returns, Throws, UnderWay, ReceivingBusy
  <2>2. \A j \in Slots \ {i} : calls'[j] = calls[j]
    BY <1>6 DEF GoodsLoad, Finish, ReceivingBusy, SlotsFilled
  <2>3. /\ DOMAIN view' = DOMAIN view /\ view'.page = view.page
        /\ view'.loading = view.loading
        /\ DOMAIN view'.dialog = DialogFields
        /\ view'.dialog.submitting = view.dialog.submitting
        /\ \/ UNCHANGED view /\ view.dialog.current # i
           \/ ~view'.dialog.loading
    BY <1>6 DEF GoodsLoad, ReceivingBusy, ReceivingFields, DialogFields
  <2>4. AwaitsGoods'
    BY <1>6, <2>2, <2>3 DEF AwaitsGoods, ReceivingBusy, GoodsLoad
  <2> QED BY <1>6, <2>1, <2>3, <2>4 DEF GoodsLoad, ReceivingBusy, Ends
<1>7. ASSUME NEW i \in Slots, BookSettles(i), Returns(i, "book") PROVE ReceivingBusy'
  <2>1. Turns("receiving", "book", "receipts")
    BY <1>7, ContinueTurns, ReceivingPurposes
    DEF BookSettles, Returns, Throws, UnderWay, ReceivingBusy
  <2>2. view' = [Shut(view) EXCEPT !.dialog.submitting = FALSE, !.loading = TRUE]
    BY <1>7 DEF BookSettles, Returns, Throws
  <2>3. /\ DOMAIN Shut(view) = ReceivingFields /\ DOMAIN Shut(view).dialog = DialogFields
        /\ Shut(view).page = view.page /\ Shut(view).dialog.open = FALSE
    BY <1>7, ShutDialog DEF BookSettles, ReceivingBusy
  <2>4. /\ DOMAIN view' = DOMAIN view /\ view'.page = view.page
        /\ DOMAIN view'.dialog = DialogFields
        /\ ~view'.dialog.open /\ ~view'.dialog.submitting
    BY <1>7, <2>2, <2>3 DEF BookSettles, ReceivingBusy, ReceivingFields, DialogFields
  <2>5. AwaitsGoods'
    BY <2>4 DEF AwaitsGoods
  <2> QED BY <1>7, <2>1, <2>4, <2>5 DEF BookSettles, ReceivingBusy, Turns
<1>8. ASSUME NEW i \in Slots, BookSettles(i), Throws(i, "book") PROVE ReceivingBusy'
  <2>1. Ends("receiving", "book") /\ Finish(i)
    BY <1>8, FinishEnds, ReceivingPurposes
    DEF BookSettles, Returns, Throws, UnderWay, ReceivingBusy
  <2>2. \A j \in Slots : calls[j].op = "goods" => calls'[j] = calls[j]
    BY <1>8, <2>1 DEF Throws, Finish, ReceivingBusy, SlotsFilled
  <2>3. /\ DOMAIN view' = DOMAIN view /\ view'.page = view.page
        /\ view'.loading = view.loading
        /\ DOMAIN view'.dialog = DialogFields /\ ~view'.dialog.submitting
        /\ view'.dialog.loading = view.dialog.loading
        /\ view'.dialog.open = view.dialog.open
        /\ view'.dialog.current = view.dialog.current
    BY <1>8 DEF BookSettles, Returns, Throws, ReceivingBusy, ReceivingFields, DialogFields
  <2>4. AwaitsGoods'
    BY <1>8, <2>2, <2>3 DEF AwaitsGoods, ReceivingBusy, BookSettles
  <2> QED BY <1>8, <2>1, <2>3, <2>4 DEF BookSettles, ReceivingBusy, Ends
<1>9. ASSUME SamePurposes("receiving"), UNCHANGED view PROVE ReceivingBusy'
  <2>1. view.page = "receiving" => AwaitsGoods'
    BY <1>9 DEF ReceivingBusy, SamePurposes, AwaitsGoods
  <2> QED BY <1>9, <2>1 DEF ReceivingBusy, SamePurposes
<1>10. ASSUME NEW i \in Slots, BookServed(i) \/ ReceivingRead(i) PROVE ReceivingBusy'
  <2>1. CASE BookServed(i)
    BY <1>9, <2>1, ActedKeepsPurpose DEF BookServed, ReceivingBusy
  <2>2. CASE ReceivingRead(i)
    BY <1>9, <2>2, AnswerKeepsPurpose DEF ReceivingRead, Asked, ReceivingBusy
  <2> QED BY <1>10, <2>1, <2>2
<1>11. CASE RequestLost \/ OrphanLost \/ UNCHANGED tab \/ SoldElsewhere
  BY <1>9, <1>11, AroundKeepsPurpose DEF SoldElsewhere, ReceivingBusy
<1>12. ASSUME NEW i \in Slots, BookSettles(i) PROVE ReceivingBusy'
  BY <1>7, <1>8, <1>12 DEF BookSettles
<1> QED BY <1>1, <1>2, <1>3, <1>4, <1>5, <1>6, <1>10, <1>11, <1>12 DEF ReceivingNext

\* One receipt is booked at a time.
LEMMA ReceivingAtRest ==
    ASSUME area = "receiving", ReceivingBusy
    PROVE  QuietMeansIdle /\ NothingSentTwice
<1>1. ASSUME calls = NoCalls
      PROVE  /\ NoFlag(view)
             /\ view.page = "receiving" =>
                   /\ view.dialog.open => ~view.dialog.loading
                   /\ ~view.dialog.submitting
  <2>1. Purposes("receiving", calls) = {}
    BY <1>1, QuietPurposes
  <2>2. \A j \in Slots : ~UnderWay(calls[j])
    BY <1>1 DEF NoCalls, NoCall, UnderWay
  <2> QED BY <2>1, <2>2 DEF ReceivingBusy, ReceivingFields, NoFlag, Flags, AwaitsGoods
<1>2. view.page \in {"blank", "receiving"}
  BY DEF ReceivingBusy
<1>3. ASSUME NEW i \in Slots, NEW j \in Slots, SameAgain(i, j) PROVE i = j
  <2>1. calls[i].op = calls[j].op /\ calls[i].op \in {"receipts", "goods", "book"}
    BY <1>3, SameIsUnderWay, ReceivingPurposes DEF ReceivingBusy
  <2>2. calls[i].op = "book"
    BY <1>3, <2>1 DEF SameAgain
  <2>3. /\ Purpose("receiving", calls[i].op, calls[i].arg) = "book"
        /\ Purpose("receiving", calls[j].op, calls[j].arg) = "book"
    BY <2>1, <2>2, ReceivingPurposes
  <2>4. OneOfEach("receiving", calls, {"book"})
    BY DEF ReceivingBusy
  <2> QED BY <1>3, <2>3, <2>4, OnlyOneUnderWay
<1> QED BY <1>1, <1>2, <1>3 DEF QuietMeansIdle, NoFlag, NothingSentTwice

-----------------------------------------------------------------------------
(* Navigation.                                                             *)

Paths == PublicPaths \cup AdminPaths \cup StorePaths

HeaderFields == {"page", "me", "authLoading", "returnTo", "submitting", "loggingOut"}

NavigationBusy ==
    LET P == Purposes("navigation", calls)
    IN  /\ SlotsFilled
        /\ P \subseteq {"getMe", "login", "register", "logout"}
        /\ OneOfEach("navigation", calls, {"logout"})
        /\ DOMAIN view = HeaderFields
        /\ view.page \in Paths /\ view.returnTo \in Paths \cup {None}
        /\ view.authLoading => "getMe" \in P
        /\ view.submitting => P \cap {"login", "register"} # {}
        /\ view.loggingOut => "logout" \in P
        /\ "logout" \in P => view.loggingOut

LEMMA NavigationPurposes == ASSUME NEW op, NEW arg PROVE Purpose("navigation", op, arg) = op
BY DEF Purpose

\* Links and redirects stay within the paths.
LEMMA HomeIsPath == ASSUME NEW role PROVE RoleHome(role).path \in Paths
BY DEF RoleHome, Link, Report, Paths, PublicPaths, AdminPaths, StorePaths

LEMMA SidebarLeads ==
    ASSUME NEW role, NEW link \in AdminSidebar(role) PROVE link.path \in Paths
<1>1. \A path : Link(path).path = path /\ Report(path).path = "/admin/analytics"
  BY DEF Link, Report
<1>2. \A x \in AllAdminLinks : x.path \in Paths
  BY <1>1 DEF AllAdminLinks, Paths
<1>3. CASE link \in AllAdminLinks
  BY <1>2, <1>3
<1>4. CASE link \notin AllAdminLinks
  <2>1. role \in {"store_manager", "sales_manager", "marketing_manager",
                  "inventory_manager", "operations_manager", "system_admin"}
    BY <1>4 DEF AdminSidebar
  <2>2. \/ \E path \in {"/store", "/admin/coupons", "/admin/reviews", "/admin/inbound",
                        "/admin/products", "/admin/orders", "/admin/returns",
                        "/admin/logistics"} : link = Link(path)
        \/ \E name : link = Report(name)
    BY <2>1 DEF AdminSidebar
  <2> QED BY <1>1, <2>2 DEF Paths, AdminPaths, StorePaths
<1> QED BY <1>3, <1>4

LEMMA AnalyticsLeads ==
    ASSUME NEW role, NEW link \in AnalyticsLinks(role) PROVE link.path \in Paths
<1>1. \A name : NextSteps(name) \subseteq Paths
  BY DEF NextSteps, Paths, AdminPaths, StorePaths
<1>2. \/ \E name : link = Report(name)
      \/ \E path \in Paths : link = Link(path)
  BY <1>1 DEF AnalyticsLinks
<1> QED BY <1>2 DEF Link, Report, Paths, AdminPaths

LEMMA LinksLead ==
    ASSUME NEW path, NEW role, NEW link \in LinksOn(path, role) PROVE link.path \in Paths
<1>1. \A p : Link(p).path = p /\ Report(p).path = "/admin/analytics"
  BY DEF Link, Report
<1>2. \A x \in ShopHeader(role) \cup StaffHeader(role) \cup {RoleHome(role)} :
         x.path \in Paths
  BY <1>1, HomeIsPath DEF ShopHeader, StaffHeader, Paths, PublicPaths
<1>3. \A x \in StoreSidebar \cup StoreHomeLinks \cup OverviewLinks \cup {Link("/register")} :
         x.path \in Paths
  BY <1>1 DEF StoreSidebar, StoreHomeLinks, OverviewLinks, Paths, PublicPaths, AdminPaths,
     StorePaths
<1>4. link \in (ShopHeader(role) \cup StaffHeader(role) \cup {RoleHome(role)})
         \cup (StoreSidebar \cup StoreHomeLinks \cup OverviewLinks \cup {Link("/register")})
         \cup AdminSidebar(role) \cup AnalyticsLinks(role)
  <2>1. CASE path \in PublicPaths
    BY <2>1 DEF LinksOn
  <2>2. CASE path \notin PublicPaths
    BY <2>2 DEF LinksOn
  <2> QED BY <2>1, <2>2
<1> QED BY <1>2, <1>3, <1>4, SidebarLeads, AnalyticsLeads

LEMMA LoginLeads ==
    ASSUME NEW role, NEW returnTo \in Paths \cup {None}
    PROVE  AfterLogin(role, returnTo) \in Paths /\ AfterRegistration(returnTo) \in Paths
BY HomeIsPath DEF AfterLogin, AfterRegistration, Paths, PublicPaths, AdminPaths

LEMMA NavigationBusyStarts == ASSUME NavigationInit PROVE NavigationBusy
<1>1. /\ SlotsFilled /\ Purposes("navigation", calls) = {"getMe"}
      /\ \A K : OneOfEach("navigation", calls, K)
  BY FirstRequest, NavigationPurposes DEF NavigationInit
<1> QED BY <1>1 DEF NavigationInit, NavigationBusy, HeaderFields, Paths

LEMMA NavigationBusySteps ==
    ASSUME NavigationBusy, NavigationNext \/ RequestLost \/ OrphanLost \/ UNCHANGED tab
    PROVE  NavigationBusy'
<1>1. CASE RedirectToLogin \/ RedirectOn401 \/ RedirectToPos \/ FollowLink
  <2>1. SamePurposes("navigation")
    BY <1>1, RestKeepsPurpose DEF RedirectToLogin, RedirectOn401, RedirectToPos,
       FollowLink, NavigationBusy
  <2>2. PICK path, returnTo : /\ view' = Visit(view, path, returnTo)
                              /\ path \in Paths /\ returnTo \in Paths \cup {None}
    <3>1. CASE RedirectToLogin
      BY <3>1 DEF RedirectToLogin, Paths, PublicPaths, StorePaths
    <3>2. CASE RedirectOn401
      BY <3>2 DEF RedirectOn401, NavigationBusy, Paths, PublicPaths
    <3>3. CASE RedirectToPos
      BY <3>3 DEF RedirectToPos, Paths, StorePaths
    <3>4. CASE FollowLink
      BY <3>4, LinksLead DEF FollowLink, NavigationBusy
    <3> QED BY <1>1, <3>1, <3>2, <3>3, <3>4
  <2> QED BY <2>1, <2>2 DEF Visit, NavigationBusy, HeaderFields, SamePurposes
<1>2. ASSUME NEW op \in {"login", "register"}, NEW role, Submit(op, role)
      PROVE  NavigationBusy'
  <2>1. Begins("navigation", op)
    BY <1>2, SendBegins, NavigationPurposes DEF Submit, NavigationBusy
  <2> QED BY <1>2, <2>1 DEF Submit, NavigationBusy, HeaderFields, Begins
<1>3. CASE SubmitLogin \/ SubmitRegistration
  BY <1>2, <1>3 DEF SubmitLogin, SubmitRegistration
<1>4. CASE Logout
  <2>1. Begins("navigation", "logout")
    BY <1>4, SendBegins, NavigationPurposes DEF Logout, NavigationBusy
  <2> QED BY <1>4, <2>1 DEF Logout, NavigationBusy, HeaderFields, Begins
<1>5. ASSUME NEW i \in Slots, MeSettles(i) PROVE NavigationBusy'
  <2>1. Ends("navigation", "getMe")
    BY <1>5, FinishEnds, NavigationPurposes
    DEF MeSettles, Returns, Throws, UnderWay, NavigationBusy
  <2> QED BY <1>5, <2>1 DEF MeSettles, NavigationBusy, HeaderFields, Ends
<1>6. ASSUME NEW i \in Slots, LoggedIn(i) \/ Registered(i) PROVE NavigationBusy'
  <2>1. PICK op \in {"login", "register"} : Ends("navigation", op)
    BY <1>6, FinishEnds, NavigationPurposes
    DEF LoggedIn, Registered, Returns, UnderWay, NavigationBusy
  <2>2. PICK path \in Paths : view' = Visit([view EXCEPT !.me = calls[i].ans], path, None)
    BY <1>6, LoginLeads DEF LoggedIn, Registered, NavigationBusy
  <2> QED BY <2>1, <2>2 DEF Visit, NavigationBusy, HeaderFields, Ends
<1>7. ASSUME NEW i \in Slots, SubmitFails(i) PROVE NavigationBusy'
  <2>1. PICK op \in {"login", "register"} : Ends("navigation", op)
    BY <1>7, FinishEnds, NavigationPurposes
    DEF SubmitFails, Throws, UnderWay, NavigationBusy
  <2> QED BY <1>7, <2>1 DEF SubmitFails, NavigationBusy, HeaderFields, Ends
<1>8. ASSUME NEW i \in Slots, LogoutSettles(i) PROVE NavigationBusy'
  <2>1. Ends("navigation", "logout")
    BY <1>8, FinishEnds, NavigationPurposes
    DEF LogoutSettles, Returns, Throws, UnderWay, NavigationBusy
  <2>2. "logout" \notin Purposes("navigation", calls')
    BY <2>1 DEF NavigationBusy, Ends
  <2>3. /\ DOMAIN view' = HeaderFields
        /\ \/ view'.page = view.page /\ view'.returnTo = view.returnTo
           \/ view'.page = "/" /\ view'.returnTo = None
        /\ view'.authLoading = view.authLoading
        /\ view'.submitting => view.submitting
        /\ ~view'.loggingOut
    BY <1>8 DEF LogoutSettles, Visit, NavigationBusy, HeaderFields
  <2>4. "/" \in Paths
    BY DEF Paths, PublicPaths
  <2> QED BY <2>1, <2>2, <2>3, <2>4 DEF NavigationBusy, Ends
<1>9. ASSUME SamePurposes("navigation"), UNCHANGED view PROVE NavigationBusy'
  BY <1>9 DEF NavigationBusy, SamePurposes
<1>10. ASSUME NEW i \in Slots, SessionServed(i) PROVE NavigationBusy'
  <2>1. PICK ans : calls[i].phase = "sent" /\ (Reply(i, ans) \/ Refuse(i) \/ Acted(i, ans))
    BY <1>10 DEF SessionServed
  <2>2. SamePurposes("navigation")
    BY <2>1, AnswerKeepsPurpose, ActedKeepsPurpose DEF NavigationBusy
  <2> QED BY <1>9, <1>10, <2>2 DEF SessionServed
<1>11. CASE RequestLost \/ OrphanLost \/ UNCHANGED tab \/ SessionEnds
  BY <1>9, <1>11, AroundKeepsPurpose DEF SessionEnds, NavigationBusy
<1> QED BY <1>1, <1>3, <1>4, <1>5, <1>6, <1>7, <1>8, <1>10, <1>11 DEF NavigationNext

\* One logout is sent at a time.
LEMMA NavigationAtRest ==
    ASSUME area = "navigation", NavigationBusy
    PROVE  QuietMeansIdle /\ NothingSentTwice
<1>1. ASSUME calls = NoCalls PROVE NoFlag(view)
  BY <1>1, QuietPurposes DEF NavigationBusy, HeaderFields, NoFlag, Flags
<1>2. view.page \notin {"analytics", "receiving", "result"}
  BY DEF NavigationBusy, Paths, PublicPaths, AdminPaths, StorePaths
<1>3. ASSUME NEW i \in Slots, NEW j \in Slots, SameAgain(i, j) PROVE i = j
  <2>1. /\ calls[i].op = calls[j].op
        /\ calls[i].op \in {"getMe", "login", "register", "logout"}
    BY <1>3, SameIsUnderWay, NavigationPurposes DEF NavigationBusy
  <2>2. calls[i].op = "logout"
    BY <1>3, <2>1 DEF SameAgain
  <2>3. /\ Purpose("navigation", calls[i].op, calls[i].arg) = "logout"
        /\ Purpose("navigation", calls[j].op, calls[j].arg) = "logout"
    BY <2>1, <2>2, NavigationPurposes
  <2>4. OneOfEach("navigation", calls, {"logout"})
    BY DEF NavigationBusy
  <2> QED BY <1>3, <2>3, <2>4, OnlyOneUnderWay
<1> QED BY <1>1, <1>2, <1>3 DEF QuietMeansIdle, NoFlag, NothingSentTwice

-----------------------------------------------------------------------------
(* The cart.                                                               *)

CartFields ==
    {"page", "cart", "quote", "loading", "busyItem", "error", "applied", "couponBusy",
     "switcher", "menu", "clicks"}

SwitcherFields == {"item", "quantity", "loaded", "submitting"}

\* The requests of a load, and those of the handlers that keep a line busy.
CartLoadWork == {<<"getCart", None>>, <<"quote", "refresh">>}
LineWork == {"change", "quote"} \X {"update", "remove", "move", "switch"}

CartPurposes ==
    CartLoadWork \cup LineWork
        \cup {<<"product", None>>, <<"quote", "apply">>, <<"change", "add">>,
              <<"quote", "add">>}

\* What page w shows and waits for, when the requests of purposes P are under way.
CartWaits(w, P) ==
    /\ DOMAIN w = CartFields /\ w.page = "cart"
    /\ w.loading => P \cap CartLoadWork # {}
    /\ w.couponBusy => <<"quote", "apply">> \in P
    /\ w.busyItem # None => P \cap LineWork # {}

\* A switcher that was submitted knows the slot of its handler.
SwitchUnderWay(c) == UnderWay(c) /\ c.op \in {"change", "quote"} /\ c.arg.by = "switch"

SwitcherWaits(w, cs) ==
    w.switcher # None =>
        /\ DOMAIN w.switcher = SwitcherFields
        /\ w.switcher.submitting # None =>
              /\ w.switcher.submitting \in Slots
              /\ SwitchUnderWay(cs[w.switcher.submitting])

CartBusy ==
    LET P == Purposes("cart", calls)
    IN  /\ SlotsFilled
        /\ P \subseteq CartPurposes
        /\ CartWaits(view, P)
        /\ SwitcherWaits(view, calls)

\* A request of purpose p is over or goes on as one of a purpose in new.
Moves(a, p, new) ==
    /\ SlotsFilled'
    /\ Purposes(a, calls) \ {p} \subseteq Purposes(a, calls')
    /\ new \subseteq Purposes(a, calls')
    /\ Purposes(a, calls') \subseteq Purposes(a, calls) \cup new

LEMMA EndMoves == ASSUME NEW a, NEW p, Ends(a, p) PROVE Moves(a, p, {})
BY DEF Ends, Moves

LEMMA TurnMoves == ASSUME NEW a, NEW p, NEW q, Turns(a, p, q) PROVE Moves(a, p, {q})
BY DEF Turns, Moves

LEMMA CartPurposeOf ==
    ASSUME NEW op, NEW arg
    PROVE  /\ Purpose("cart", op, arg) = CartPurpose(op, arg)
           /\ op \in {"quote", "change"} => CartPurpose(op, arg) = <<op, arg.by>>
           /\ op \notin {"quote", "change"} => CartPurpose(op, arg) = <<op, None>>
BY DEF Purpose, CartPurpose

\* What a request under way is for.
LEMMA CartPurposeKnown ==
    ASSUME CartBusy, NEW i \in Slots, UnderWay(calls[i])
    PROVE  CartPurpose(calls[i].op, calls[i].arg)
              \in Purposes("cart", calls) \cap CartPurposes
BY CartPurposeOf DEF CartBusy, Purposes

\* Other slots are left alone by Finish and Continue.
LEMMA SwitcherKept ==
    ASSUME SlotsFilled, NEW i \in Slots,
           NEW op, NEW arg, Finish(i) \/ Continue(i, op, arg),
           NEW w, SwitcherWaits(w, calls),
           (w.switcher # None /\ w.switcher.submitting # None) =>
               w.switcher.submitting # i
    PROVE  SwitcherWaits(w, calls')
<1>1. \A j \in Slots \ {i} : calls'[j] = calls[j]
  BY DEF Finish, Continue, SlotsFilled
<1> QED BY <1>1 DEF SwitcherWaits

\* The load in slot i is over.
LEMMA LoadedSteps ==
    ASSUME CartBusy, NEW i \in Slots, UnderWay(calls[i]), NEW v, Loaded(i, v),
           NEW p, p = CartPurpose(calls[i].op, calls[i].arg), p \notin LineWork,
           DOMAIN v = CartFields, v.page = view.page, v.switcher = view.switcher,
           v.busyItem = view.busyItem,
           v.couponBusy => view.couponBusy /\ p # <<"quote", "apply">>
    PROVE  CartBusy'
<1> DEFINE P == Purposes("cart", calls)
           Q == Purposes("cart", calls')
<1>1. PICK new \in SUBSET {<<"product", None>>} : Moves("cart", p, new)
  <2>1. CASE v.switcher # None
    <3>1. PICK arg : Continue(i, "product", arg)
      BY <2>1 DEF Loaded
    <3>2. /\ Purpose("cart", "product", arg) = <<"product", None>>
          /\ Purpose("cart", calls[i].op, calls[i].arg) = p
      BY CartPurposeOf
    <3>3. Turns("cart", p, <<"product", None>>)
      BY <3>1, <3>2, ContinueTurns DEF CartBusy
    <3> QED BY <3>3, TurnMoves
  <2>2. CASE v.switcher = None
    <3>1. Ends("cart", p)
      BY <2>2, FinishEnds, CartPurposeOf DEF Loaded, CartBusy
    <3> QED BY <3>1, EndMoves
  <2> QED BY <2>1, <2>2
<1>2. /\ DOMAIN view' = CartFields /\ view'.page = v.page
      /\ ~view'.loading /\ view'.couponBusy = v.couponBusy /\ view'.busyItem = v.busyItem
  BY DEF Loaded, CartFields
<1>3. CartWaits(view, P) /\ P \ {p} \subseteq Q
  BY <1>1 DEF CartBusy, Moves
<1>4. CartWaits(view', Q)
  BY <1>2, <1>3 DEF CartWaits
<1>5. SwitcherWaits(view', calls')
  <2>1. CASE v.switcher # None
    <3>1. view'.switcher = [v.switcher EXCEPT !.loaded = FALSE, !.submitting = None]
      BY <2>1 DEF Loaded, CartFields
    <3>2. DOMAIN v.switcher = SwitcherFields
      BY <2>1 DEF CartBusy, SwitcherWaits
    <3> QED BY <3>1, <3>2 DEF SwitcherWaits, SwitcherFields
  <2>2. CASE v.switcher = None
    BY <2>2 DEF Loaded, CartFields, SwitcherWaits
  <2> QED BY <2>1, <2>2
<1> QED BY <1>1, <1>4, <1>5 DEF CartBusy, Moves, CartPurposes

\* The request in slot i has ended and the page is v.
LEMMA RenderedSteps ==
    ASSUME CartBusy, NEW i \in Slots, UnderWay(calls[i]), NEW v, Rendered(i, v),
           NEW p, p = CartPurpose(calls[i].op, calls[i].arg),
           p \in {<<"quote", "refresh">>, <<"quote", "apply">>},
           DOMAIN v = CartFields, v.page = view.page, v.switcher = view.switcher,
           v.busyItem = view.busyItem,
           v.couponBusy => view.couponBusy /\ p # <<"quote", "apply">>,
           v.loading => view.loading /\ p # <<"quote", "refresh">>
    PROVE  CartBusy'
<1> DEFINE P == Purposes("cart", calls)
           Q == Purposes("cart", calls')
<1>1. p \notin LineWork /\ Purpose("cart", calls[i].op, calls[i].arg) = p
  BY CartPurposeOf DEF LineWork
<1>2. (view.switcher # None /\ view.switcher.submitting # None) =>
         view.switcher.submitting # i
  <2>1. ~SwitchUnderWay(calls[i])
    BY CartPurposeOf DEF SwitchUnderWay
  <2> QED BY <2>1 DEF CartBusy, SwitcherWaits
<1>3. CASE v.applied # view.applied
  <2>1. PICK arg : Continue(i, "getCart", arg)
    BY <1>3 DEF Rendered
  <2>2. Purpose("cart", "getCart", arg) = <<"getCart", None>>
    BY CartPurposeOf
  <2>3. Turns("cart", p, <<"getCart", None>>)
    BY <1>1, <2>1, <2>2, ContinueTurns DEF CartBusy
  <2>4. /\ DOMAIN view' = CartFields /\ view'.page = v.page
        /\ view'.couponBusy = v.couponBusy /\ view'.busyItem = v.busyItem
        /\ view'.switcher = v.switcher
    BY <1>3 DEF Rendered, CartFields
  <2>5. CartWaits(view', Q)
    BY <1>1, <2>3, <2>4 DEF CartBusy, CartWaits, CartLoadWork, Turns
  <2>6. SwitcherWaits(view, calls')
    BY <1>2, <2>1, SwitcherKept DEF CartBusy
  <2>7. SwitcherWaits(view', calls')
    BY <2>4, <2>6 DEF SwitcherWaits
  <2> QED BY <2>3, <2>5, <2>7 DEF CartBusy, Turns, CartPurposes, CartLoadWork
<1>4. CASE v.applied = view.applied /\ view.loading /\ ~v.loading
  <2>1. Loaded(i, v)
    BY <1>4 DEF Rendered
  <2> QED BY <1>1, <2>1, LoadedSteps
<1>5. CASE v.applied = view.applied /\ ~(view.loading /\ ~v.loading)
  <2>1. Finish(i) /\ view' = v
    BY <1>5 DEF Rendered
  <2>2. Ends("cart", p)
    BY <1>1, <2>1, FinishEnds DEF CartBusy
  <2>3. CartWaits(view', Q)
    BY <1>1, <1>5, <2>1, <2>2 DEF CartBusy, CartWaits, CartLoadWork, Ends
  <2>4. SwitcherWaits(view, calls')
    BY <1>2, <2>1, SwitcherKept DEF CartBusy
  <2>5. SwitcherWaits(view', calls')
    BY <2>1, <2>4 DEF SwitcherWaits
  <2> QED BY <2>2, <2>3, <2>5 DEF CartBusy, Ends
<1> QED BY <1>3, <1>4, <1>5

LEMMA CartLoadSteps ==
    ASSUME CartBusy, NEW i \in Slots,
           CartLoads(i) \/ CartFails(i) \/ QuoteOfRefresh(i) \/ CouponSettles(i)
    PROVE  CartBusy'
<1> DEFINE p == CartPurpose(calls[i].op, calls[i].arg)
<1>1. CASE CartLoads(i) \/ CartFails(i)
  <2>1. /\ UnderWay(calls[i]) /\ p = <<"getCart", None>> /\ p \notin LineWork
        /\ Purpose("cart", calls[i].op, calls[i].arg) = p
    BY <1>1, CartPurposeOf DEF CartLoads, CartFails, Returns, Throws, UnderWay, LineWork
  <2>2. CASE CartLoads(i) /\ calls[i].arg.coupon # None
    <3>1. PICK arg : Continue(i, "quote", arg) /\ arg.by = "refresh"
      BY <2>2 DEF CartLoads
    <3>2. Purpose("cart", "quote", arg) = <<"quote", "refresh">>
      BY <3>1, CartPurposeOf
    <3>3. Turns("cart", p, <<"quote", "refresh">>)
      BY <2>1, <3>1, <3>2, ContinueTurns DEF CartBusy
    <3>4. /\ DOMAIN view' = CartFields /\ view'.page = view.page
          /\ view'.couponBusy = view.couponBusy /\ view'.busyItem = view.busyItem
          /\ view'.switcher = view.switcher
      BY <2>2 DEF CartLoads, CartBusy, CartWaits, CartFields
    <3>5. CartWaits(view', Purposes("cart", calls'))
      BY <2>1, <3>3, <3>4 DEF CartBusy, CartWaits, CartLoadWork, Turns
    <3>6. SwitcherWaits(view, calls')
      <4>1. ~SwitchUnderWay(calls[i])
        BY <2>2 DEF SwitchUnderWay, CartLoads, Returns
      <4> QED BY <3>1, <4>1, SwitcherKept DEF CartBusy, SwitcherWaits
    <3>7. SwitcherWaits(view', calls')
      BY <3>4, <3>6 DEF SwitcherWaits
    <3> QED BY <3>3, <3>5, <3>7 DEF CartBusy, Turns, CartPurposes, CartLoadWork
  <2>3. CASE ~(CartLoads(i) /\ calls[i].arg.coupon # None)
    <3> DEFINE v1 == [view EXCEPT !.cart = calls[i].ans, !.error = FALSE,
                                  !.quote = Amounts(None, calls[i].ans)]
               v2 == [view EXCEPT !.error = TRUE]
    <3>1. Loaded(i, v1) \/ Loaded(i, v2)
      BY <1>1, <2>3 DEF CartLoads, CartFails
    <3>2. \A v \in {v1, v2} :
             /\ DOMAIN v = CartFields /\ v.page = view.page
             /\ v.switcher = view.switcher /\ v.busyItem = view.busyItem
             /\ v.couponBusy = view.couponBusy
      BY DEF CartBusy, CartWaits, CartFields
    <3> HIDE DEF v1, v2
    <3> QED BY <2>1, <3>1, <3>2, LoadedSteps
  <2> QED BY <2>2, <2>3
<1>2. CASE QuoteOfRefresh(i)
  <2>1. UnderWay(calls[i]) /\ p = <<"quote", "refresh">>
    BY <1>2, CartPurposeOf DEF QuoteOfRefresh, Returns, Throws, UnderWay
  <2> DEFINE v1 == [view EXCEPT !.quote = calls[i].ans, !.loading = FALSE]
             v2 == [view EXCEPT !.quote = Amounts(None, calls[i].arg.cart),
                                !.applied = None, !.loading = FALSE]
  <2>2. Rendered(i, v1) \/ Rendered(i, v2)
    BY <1>2 DEF QuoteOfRefresh
  <2>3. \A v \in {v1, v2} :
           /\ DOMAIN v = CartFields /\ v.page = view.page
           /\ v.switcher = view.switcher /\ v.busyItem = view.busyItem
           /\ v.couponBusy = view.couponBusy /\ v.loading = FALSE
    BY DEF CartBusy, CartWaits, CartFields
  <2> HIDE DEF v1, v2
  <2> QED BY <2>1, <2>2, <2>3, RenderedSteps
<1>3. CASE CouponSettles(i)
  <2>1. UnderWay(calls[i]) /\ p = <<"quote", "apply">>
    BY <1>3, CartPurposeOf DEF CouponSettles, Returns, Throws, UnderWay
  <2> DEFINE v1 == [view EXCEPT !.quote = calls[i].ans,
                                !.applied = calls[i].ans.coupon, !.couponBusy = FALSE]
             v2 == [view EXCEPT !.error = TRUE, !.couponBusy = FALSE]
  <2>2. Rendered(i, v1) \/ Rendered(i, v2)
    BY <1>3 DEF CouponSettles
  <2>3. \A v \in {v1, v2} :
           /\ DOMAIN v = CartFields /\ v.page = view.page
           /\ v.switcher = view.switcher /\ v.busyItem = view.busyItem
           /\ v.couponBusy = FALSE /\ v.loading = view.loading
    BY DEF CartBusy, CartWaits, CartFields
  <2> HIDE DEF v1, v2
  <2> QED BY <2>1, <2>2, <2>3, RenderedSteps
<1> QED BY <1>1, <1>2, <1>3

\* A handler that is sent for: nothing that the page waits for is over.
LEMMA CartSends ==
    ASSUME CartBusy, NEW op, NEW arg, op # "none", Send(op, arg),
           CartPurpose(op, arg) \in CartPurposes
    PROVE  /\ Begins("cart", CartPurpose(op, arg))
           /\ SwitcherWaits(view, calls')
<1>1. Begins("cart", CartPurpose(op, arg))
  BY SendBegins, CartPurposeOf DEF CartBusy
<1>2. \A j \in Slots : UnderWay(calls[j]) => calls'[j] = calls[j]
  BY SendFillsNext DEF CartBusy
<1>3. SwitcherWaits(view, calls')
  BY <1>2 DEF CartBusy, SwitcherWaits, SwitchUnderWay
<1> QED BY <1>1, <1>3

\* What the customer does on the page.
LEMMA CartClickSteps ==
    ASSUME CartBusy,
           \/ ApplyCoupon \/ ClearCoupon \/ UpdateQuantity \/ RemoveLine
           \/ MoveToWishlist \/ OpenSwitcher \/ CloseSwitcher \/ QuickAdd
           \/ SelectVariant
    PROVE  CartBusy'
<1>1. DOMAIN view = CartFields /\ view.page = "cart"
  BY DEF CartBusy, CartWaits
<1>2. ASSUME NEW op, NEW arg, Send(op, arg), op # "none",
             CartPurpose(op, arg) \in CartPurposes,
             DOMAIN view' = CartFields, view'.page = view.page,
             view'.loading => view.loading \/ op = "getCart",
             view'.couponBusy => view.couponBusy \/ (op = "quote" /\ arg.by = "apply"),
             view'.busyItem = view.busyItem \/ CartPurpose(op, arg) \in LineWork,
             SwitcherWaits(view, calls') => SwitcherWaits(view', calls')
      PROVE  CartBusy'
  <2>1. Begins("cart", CartPurpose(op, arg)) /\ SwitcherWaits(view, calls')
    BY <1>2, CartSends
  <2>2. op = "getCart" => CartPurpose(op, arg) \in CartLoadWork
    BY CartPurposeOf DEF CartLoadWork
  <2>3. op = "quote" /\ arg.by = "apply" => CartPurpose(op, arg) = <<"quote", "apply">>
    BY CartPurposeOf
  <2>4. CartWaits(view', Purposes("cart", calls'))
    BY <1>2, <2>1, <2>2, <2>3 DEF CartBusy, CartWaits, Begins
  <2> QED BY <1>2, <2>1, <2>4 DEF CartBusy, Begins
<1>3. CASE ApplyCoupon
  <2>1. PICK arg : Send("quote", arg) /\ arg.by = "apply"
    BY <1>3 DEF ApplyCoupon
  <2>2. CartPurpose("quote", arg) \in CartPurposes
    BY <2>1, CartPurposeOf DEF CartPurposes
  <2>3. /\ DOMAIN view' = CartFields /\ view'.page = view.page
        /\ view'.loading = view.loading /\ view'.busyItem = view.busyItem
        /\ view'.switcher = view.switcher
    BY <1>1, <1>3 DEF ApplyCoupon, Clicked, CartFields
  <2> QED BY <1>2, <2>1, <2>2, <2>3 DEF SwitcherWaits
<1>4. CASE ClearCoupon
  <2>1. PICK arg : Send("getCart", arg)
    BY <1>4 DEF ClearCoupon
  <2>2. CartPurpose("getCart", arg) \in CartPurposes
    BY CartPurposeOf DEF CartPurposes, CartLoadWork
  <2>3. /\ DOMAIN view' = CartFields /\ view'.page = view.page
        /\ view'.couponBusy = view.couponBusy /\ view'.busyItem = view.busyItem
        /\ view'.switcher = view.switcher
    BY <1>1, <1>4 DEF ClearCoupon, Clicked, CartFields
  <2> QED BY <1>2, <2>1, <2>2, <2>3 DEF SwitcherWaits
<1>5. ASSUME NEW x, NEW by \in {"update", "remove", "move"}, NEW steps, OnLine(x, by, steps)
      PROVE  CartBusy'
  <2> DEFINE arg == Handler(by, steps)
  <2>1. Send("change", arg) /\ arg.by = by
    BY <1>5 DEF OnLine, Handler
  <2> HIDE DEF arg
  <2>2. CartPurpose("change", arg) \in CartPurposes \cap LineWork
    BY <2>1, CartPurposeOf DEF CartPurposes, LineWork
  <2>3. /\ DOMAIN view' = CartFields /\ view'.page = view.page
        /\ view'.loading = view.loading /\ view'.couponBusy = view.couponBusy
        /\ view'.switcher = view.switcher
    BY <1>1, <1>5 DEF OnLine, Clicked, CartFields
  <2> QED BY <1>2, <2>1, <2>2, <2>3 DEF SwitcherWaits
<1>6. CASE UpdateQuantity \/ RemoveLine \/ MoveToWishlist
  BY <1>5, <1>6 DEF UpdateQuantity, RemoveLine, MoveToWishlist
<1>7. CASE OpenSwitcher
  <2>1. PICK arg : Send("product", arg)
    BY <1>7 DEF OpenSwitcher
  <2>2. CartPurpose("product", arg) \in CartPurposes
    BY CartPurposeOf DEF CartPurposes
  <2>3. /\ DOMAIN view' = CartFields /\ view'.page = view.page
        /\ view'.loading = view.loading /\ view'.couponBusy = view.couponBusy
        /\ view'.busyItem = view.busyItem
        /\ DOMAIN view'.switcher = SwitcherFields /\ view'.switcher.submitting = None
    <3>1. PICK x : view' = [Clicked EXCEPT !.switcher =
                     [item |-> x, quantity |-> view.cart[x], loaded |-> FALSE,
                      submitting |-> None]]
      BY <1>7 DEF OpenSwitcher
    <3> QED BY <1>1, <3>1 DEF Clicked, CartFields, SwitcherFields
  <2> QED BY <1>2, <2>1, <2>2, <2>3 DEF SwitcherWaits
<1>8. CASE CloseSwitcher
  <2>1. SamePurposes("cart")
    BY <1>8, RestKeepsPurpose DEF CloseSwitcher, CartBusy
  <2>2. /\ DOMAIN view' = CartFields /\ view'.page = view.page
        /\ view'.loading = view.loading /\ view'.couponBusy = view.couponBusy
        /\ view'.busyItem = view.busyItem /\ view'.switcher = None
    BY <1>1, <1>8 DEF CloseSwitcher, CartFields
  <2> QED BY <2>1, <2>2 DEF CartBusy, CartWaits, SwitcherWaits, SamePurposes
<1>9. CASE QuickAdd
  <2>1. PICK arg : Send("product", arg)
    BY <1>9 DEF QuickAdd
  <2>2. CartPurpose("product", arg) \in CartPurposes
    BY CartPurposeOf DEF CartPurposes
  <2>3. /\ DOMAIN view' = CartFields /\ view'.page = view.page
        /\ view'.loading = view.loading /\ view'.couponBusy = view.couponBusy
        /\ view'.busyItem = view.busyItem /\ view'.switcher = view.switcher
    BY <1>1, <1>9 DEF QuickAdd, Clicked, CartFields
  <2> QED BY <1>2, <2>1, <2>2, <2>3 DEF SwitcherWaits
<1>10. CASE SelectVariant
  <2>1. PICK arg : Send("change", arg) /\ arg.by = "add"
    BY <1>10 DEF SelectVariant, Handler
  <2>2. CartPurpose("change", arg) \in CartPurposes
    BY <2>1, CartPurposeOf DEF CartPurposes
  <2>3. /\ DOMAIN view' = CartFields /\ view'.page = view.page
        /\ view'.loading = view.loading /\ view'.couponBusy = view.couponBusy
        /\ view'.busyItem = view.busyItem /\ view'.switcher = view.switcher
    BY <1>1, <1>10 DEF SelectVariant, Clicked, CartFields
  <2> QED BY <1>2, <2>1, <2>2, <2>3 DEF SwitcherWaits
<1> QED BY <1>3, <1>4, <1>6, <1>7, <1>8, <1>9, <1>10

\* The switcher knows the slot that its handler was sent into.
LEMMA ConfirmSteps == ASSUME CartBusy, ConfirmSwitch PROVE CartBusy'
<1>1. PICK arg : Send("change", arg) /\ arg.by = "switch"
  BY DEF ConfirmSwitch, Handler
<1>2. CartPurpose("change", arg) \in CartPurposes \cap LineWork
  BY <1>1, CartPurposeOf DEF CartPurposes, LineWork
<1>3. Begins("cart", CartPurpose("change", arg))
  BY <1>1, <1>2, CartSends
<1>4. /\ DOMAIN view' = CartFields /\ view'.page = view.page
      /\ view'.loading = view.loading /\ view'.couponBusy = view.couponBusy
      /\ DOMAIN view'.switcher = SwitcherFields
      /\ view'.switcher.submitting = NextSlot(calls)
  BY DEF ConfirmSwitch, Clicked, CartBusy, CartWaits, SwitcherWaits, CartFields,
     SwitcherFields
<1>5. CartWaits(view', Purposes("cart", calls'))
  BY <1>2, <1>3, <1>4 DEF CartBusy, CartWaits, Begins
<1>6. /\ NextSlot(calls) \in Slots
      /\ calls'[NextSlot(calls)] = [op |-> "change", arg |-> arg, phase |-> "sent"]
  BY <1>1, SendFillsNext DEF CartBusy
<1>7. SwitcherWaits(view', calls')
  BY <1>1, <1>4, <1>6 DEF SwitcherWaits, SwitchUnderWay, UnderWay
<1> QED BY <1>2, <1>3, <1>5, <1>7 DEF CartBusy, Begins

\* A handler of a line that ends frees the line and its switcher.
LEMMA ThrownPage ==
    ASSUME CartBusy, NEW i \in Slots, Finish(i)
    PROVE  LET w == ThrownOut(i, view)
           IN  /\ DOMAIN w = CartFields /\ w.page = view.page
               /\ w.loading = view.loading /\ w.couponBusy = view.couponBusy
               /\ w.busyItem = None \/ (calls[i].arg.by = "add" /\ w.busyItem = view.busyItem)
               /\ SwitcherWaits(w, calls')
<1> DEFINE w == ThrownOut(i, view)
<1>1. DOMAIN view = CartFields
  BY DEF CartBusy, CartWaits
<1>2. CASE calls[i].arg.by = "add"
  <2>1. (view.switcher # None /\ view.switcher.submitting # None) =>
           view.switcher.submitting # i
    BY <1>2 DEF CartBusy, SwitcherWaits, SwitchUnderWay
  <2>2. w = [view EXCEPT !.error = TRUE, !.menu = None]
    BY <1>2, <2>1, NoneIsNoSlot DEF ThrownOut
  <2>3. SwitcherWaits(view, calls')
    BY <2>1, SwitcherKept DEF CartBusy
  <2> HIDE DEF w
  <2>4. /\ DOMAIN w = CartFields /\ w.page = view.page
        /\ w.loading = view.loading /\ w.couponBusy = view.couponBusy
        /\ w.busyItem = view.busyItem /\ w.switcher = view.switcher
    BY <1>1, <2>2 DEF CartFields
  <2> QED BY <1>2, <2>3, <2>4 DEF SwitcherWaits, w
<1>3. CASE calls[i].arg.by # "add" /\ view.switcher # None /\ view.switcher.submitting = i
  <2>1. w = [view EXCEPT !.error = TRUE, !.busyItem = None, !.switcher.submitting = None]
    BY <1>3 DEF ThrownOut
  <2>2. DOMAIN view.switcher = SwitcherFields
    BY <1>3 DEF CartBusy, SwitcherWaits
  <2> HIDE DEF w
  <2>3. /\ DOMAIN w = CartFields /\ w.page = view.page
        /\ w.loading = view.loading /\ w.couponBusy = view.couponBusy
        /\ w.busyItem = None
        /\ DOMAIN w.switcher = SwitcherFields /\ w.switcher.submitting = None
    BY <1>1, <2>1, <2>2 DEF CartFields, SwitcherFields
  <2> QED BY <2>3 DEF SwitcherWaits, w
<1>4. CASE calls[i].arg.by # "add" /\ ~(view.switcher # None /\ view.switcher.submitting = i)
  <2>1. w = [view EXCEPT !.error = TRUE, !.busyItem = None]
    BY <1>4 DEF ThrownOut
  <2>2. SwitcherWaits(view, calls')
    BY <1>4, SwitcherKept DEF CartBusy
  <2> HIDE DEF w
  <2>3. /\ DOMAIN w = CartFields /\ w.page = view.page
        /\ w.loading = view.loading /\ w.couponBusy = view.couponBusy
        /\ w.busyItem = None /\ w.switcher = view.switcher
    BY <1>1, <2>1 DEF CartFields
  <2> QED BY <2>2, <2>3 DEF SwitcherWaits, w
<1> QED BY <1>2, <1>3, <1>4

LEMMA ThroughPage ==
    ASSUME CartBusy, NEW i \in Slots, Finish(i), NEW v, DOMAIN v = CartFields,
           v.switcher = view.switcher, NEW by, by = calls[i].arg.by
    PROVE  LET w == Through(v, by)
           IN  /\ DOMAIN w = CartFields /\ w.page = v.page
               /\ w.loading = v.loading /\ w.couponBusy = v.couponBusy
               /\ w.busyItem = None \/ (by = "add" /\ w.busyItem = v.busyItem)
               /\ SwitcherWaits(w, calls')
<1> DEFINE w == Through(v, by)
<1>1. CASE by = "switch"
  <2>1. w = [v EXCEPT !.busyItem = None, !.switcher = None]
    BY <1>1 DEF Through
  <2> HIDE DEF w
  <2>2. /\ DOMAIN w = CartFields /\ w.page = v.page
        /\ w.loading = v.loading /\ w.couponBusy = v.couponBusy
        /\ w.busyItem = None /\ w.switcher = None
    BY <2>1 DEF CartFields
  <2> QED BY <2>2 DEF SwitcherWaits, w
<1>2. CASE by # "switch"
  <2>1. (view.switcher # None /\ view.switcher.submitting # None) =>
           view.switcher.submitting # i
    BY <1>2 DEF CartBusy, SwitcherWaits, SwitchUnderWay
  <2>2. SwitcherWaits(view, calls')
    BY <2>1, SwitcherKept DEF CartBusy
  <2>3. w = IF by = "add" THEN [v EXCEPT !.menu = None] ELSE [v EXCEPT !.busyItem = None]
    BY <1>2 DEF Through
  <2> HIDE DEF w
  <2>4. /\ DOMAIN w = CartFields /\ w.page = v.page
        /\ w.loading = v.loading /\ w.couponBusy = v.couponBusy
        /\ w.busyItem = None \/ (by = "add" /\ w.busyItem = v.busyItem)
        /\ w.switcher = view.switcher
    BY <2>3 DEF CartFields
  <2> QED BY <2>2, <2>4 DEF SwitcherWaits, w
<1> QED BY <1>1, <1>2

\* The request in slot i was the last one of a handler, and the page is as that
\* handler leaves it.
LEMMA HandlerEnds ==
    ASSUME CartBusy, NEW i \in Slots, UnderWay(calls[i]), Finish(i),
           calls[i].op = "change"
              \/ (calls[i].op = "quote" /\ calls[i].arg.by \notin {"refresh", "apply"}),
           DOMAIN view' = CartFields, view'.page = view.page,
           view'.loading = view.loading, view'.couponBusy = view.couponBusy,
           view'.busyItem = None
              \/ (calls[i].arg.by = "add" /\ view'.busyItem = view.busyItem),
           SwitcherWaits(view', calls')
    PROVE  CartBusy'
<1> DEFINE p == CartPurpose(calls[i].op, calls[i].arg)
<1>1. Purpose("cart", calls[i].op, calls[i].arg) = p /\ p = <<calls[i].op, calls[i].arg.by>>
  BY CartPurposeOf
<1>2. Ends("cart", p)
  BY <1>1, FinishEnds DEF CartBusy
<1>3. /\ p \notin CartLoadWork /\ p # <<"quote", "apply">>
      /\ calls[i].arg.by = "add" => p \notin LineWork
  BY <1>1 DEF CartLoadWork, LineWork
<1>4. CartWaits(view', Purposes("cart", calls'))
  BY <1>2, <1>3 DEF CartBusy, CartWaits, Ends
<1> QED BY <1>2, <1>4 DEF CartBusy, Ends

\* The handler in slot i goes on with a request of the same purpose.
LEMMA HandlerGoesOn ==
    ASSUME CartBusy, NEW i \in Slots, UnderWay(calls[i]),
           NEW op, NEW arg, Continue(i, op, arg), op \in {"change", "quote"},
           CartPurpose(op, arg) \in CartPurposes,
           \/ calls[i].op = "change" /\ arg.by = calls[i].arg.by
           \/ calls[i].op = "product" /\ arg.by = "add",
           DOMAIN view' = CartFields, view'.page = view.page,
           view'.loading = view.loading, view'.couponBusy = view.couponBusy,
           view'.busyItem = view.busyItem, view'.switcher = view.switcher
    PROVE  CartBusy'
<1> DEFINE p == CartPurpose(calls[i].op, calls[i].arg)
           q == CartPurpose(op, arg)
<1>1. /\ Purpose("cart", calls[i].op, calls[i].arg) = p
      /\ Purpose("cart", op, arg) = q /\ q = <<op, arg.by>>
  BY CartPurposeOf
<1>2. Turns("cart", p, q)
  BY <1>1, ContinueTurns DEF CartBusy
<1>3. /\ p \notin CartLoadWork /\ p # <<"quote", "apply">>
      /\ p \in LineWork => q \in LineWork
  BY <1>1, CartPurposeOf DEF CartLoadWork, LineWork
<1>4. CartWaits(view', Purposes("cart", calls'))
  BY <1>2, <1>3 DEF CartBusy, CartWaits, Turns
<1>5. SwitchUnderWay(calls[i]) => SwitchUnderWay(calls'[i])
  BY DEF SwitchUnderWay, UnderWay, Continue, CartBusy, SlotsFilled
<1>6. \A j \in Slots \ {i} : calls'[j] = calls[j]
  BY DEF Continue, CartBusy, SlotsFilled
<1>7. SwitcherWaits(view', calls')
  BY <1>5, <1>6 DEF CartBusy, SwitcherWaits
<1> QED BY <1>2, <1>4, <1>7 DEF CartBusy, Turns

LEMMA CartHandlerSteps ==
    ASSUME CartBusy, NEW i \in Slots,
           SwitcherLoads(i) \/ QuickAddLoads(i) \/ CartChanges(i) \/ CartChangeFails(i)
              \/ QuoteOfChange(i)
    PROVE  CartBusy'
<1>1. DOMAIN view = CartFields
  BY DEF CartBusy, CartWaits
\* A product was loaded, and nothing waits for it.
<1>2. ASSUME calls[i].op = "product", UnderWay(calls[i]), Finish(i),
             DOMAIN view' = CartFields, view'.page = view.page,
             view'.loading = view.loading, view'.couponBusy = view.couponBusy,
             view'.busyItem = view.busyItem,
             SwitcherWaits(view, calls') => SwitcherWaits(view', calls')
      PROVE  CartBusy'
  <2>1. Purpose("cart", calls[i].op, calls[i].arg) = <<"product", None>>
    BY <1>2, CartPurposeOf
  <2>2. Ends("cart", <<"product", None>>)
    BY <1>2, <2>1, FinishEnds DEF CartBusy
  <2>3. CartWaits(view', Purposes("cart", calls'))
    BY <1>2, <2>2 DEF CartBusy, CartWaits, CartLoadWork, LineWork, Ends
  <2>4. (view.switcher # None /\ view.switcher.submitting # None) =>
           view.switcher.submitting # i
    BY <1>2 DEF CartBusy, SwitcherWaits, SwitchUnderWay
  <2>5. SwitcherWaits(view, calls')
    BY <1>2, <2>4, SwitcherKept DEF CartBusy
  <2> QED BY <1>2, <2>2, <2>3, <2>5 DEF CartBusy, Ends
<1>3. CASE SwitcherLoads(i)
  <2>1. calls[i].op = "product" /\ UnderWay(calls[i]) /\ Finish(i)
    BY <1>3 DEF SwitcherLoads, Returns, Throws, UnderWay
  <2>2. CASE UNCHANGED view
    BY <1>1, <1>2, <2>1, <2>2
  <2>3. CASE view' # view
    <3>1. view.switcher # None /\ view' = [view EXCEPT !.switcher.loaded = TRUE]
      BY <1>3, <2>3 DEF SwitcherLoads, SwitcherAwaits
    <3>2. DOMAIN view.switcher = SwitcherFields
      BY <3>1 DEF CartBusy, SwitcherWaits
    <3>3. /\ DOMAIN view' = CartFields /\ view'.page = view.page
          /\ view'.loading = view.loading /\ view'.couponBusy = view.couponBusy
          /\ view'.busyItem = view.busyItem
          /\ DOMAIN view'.switcher = SwitcherFields
          /\ view'.switcher.submitting = view.switcher.submitting
      BY <1>1, <3>1, <3>2 DEF CartFields, SwitcherFields
    <3>4. SwitcherWaits(view, calls') => SwitcherWaits(view', calls')
      BY <3>1, <3>3 DEF SwitcherWaits
    <3> QED BY <1>2, <2>1, <3>3, <3>4
  <2> QED BY <2>2, <2>3
<1>4. CASE QuickAddLoads(i)
  <2>1. calls[i].op = "product" /\ UnderWay(calls[i])
    BY <1>4 DEF QuickAddLoads, Returns, Throws, UnderWay
  <2>2. /\ DOMAIN view' = CartFields /\ view'.page = view.page
        /\ view'.loading = view.loading /\ view'.couponBusy = view.couponBusy
        /\ view'.busyItem = view.busyItem /\ view'.switcher = view.switcher
    BY <1>1, <1>4 DEF QuickAddLoads, CartFields
  <2>3. CASE Finish(i)
    BY <1>2, <2>1, <2>2, <2>3 DEF SwitcherWaits
  <2>4. CASE ~Finish(i)
    <3>1. PICK arg : Continue(i, "change", arg) /\ arg.by = "add"
      BY <1>4, <2>4 DEF QuickAddLoads, Handler
    <3>2. CartPurpose("change", arg) \in CartPurposes
      BY <3>1, CartPurposeOf DEF CartPurposes
    <3> QED BY <2>1, <2>2, <3>1, <3>2, HandlerGoesOn
  <2> QED BY <2>3, <2>4
<1>5. CASE CartChanges(i)
  <2> DEFINE h == calls[i].arg
             shown == [view EXCEPT !.cart = calls[i].ans,
                                   !.menu = IF Present(calls[i].ans) = {} THEN None ELSE @]
             patched == [shown EXCEPT !.quote = QuotePatched(h.by, @, calls[i].ans)]
  <2>1. calls[i].op = "change" /\ UnderWay(calls[i])
    BY <1>5 DEF CartChanges, Returns, UnderWay
  <2>2. CartPurpose("change", h) = <<"change", h.by>> /\ <<"change", h.by>> \in CartPurposes
    BY <2>1, CartPurposeOf, CartPurposeKnown
  <2>3. h.by \in {"add", "update", "remove", "move", "switch"}
    BY <2>2 DEF CartPurposes, CartLoadWork, LineWork
  <2>4. \A w \in {shown, patched} :
           /\ DOMAIN w = CartFields /\ w.page = view.page
           /\ w.loading = view.loading /\ w.couponBusy = view.couponBusy
           /\ w.busyItem = view.busyItem /\ w.switcher = view.switcher
    BY <1>1 DEF CartFields
  <2>5. CASE Len(h.steps) > 1
    <3> DEFINE arg == [h EXCEPT !.steps = Tail(@)]
    <3>1. Continue(i, "change", arg) /\ view' = view
      BY <1>5, <2>5 DEF CartChanges
    <3>2. arg.by = h.by
      OBVIOUS
    <3> HIDE DEF arg
    <3>3. CartPurpose("change", arg) \in CartPurposes
      BY <2>2, <3>2, CartPurposeOf
    <3> QED BY <1>1, <2>1, <3>1, <3>2, <3>3, HandlerGoesOn
  <2>6. CASE ~(Len(h.steps) > 1) /\ h.coupon # None
    <3> DEFINE arg == [by |-> h.by, code |-> h.coupon, cart |-> None]
    <3>1. Continue(i, "quote", arg) /\ view' = shown
      BY <1>5, <2>6 DEF CartChanges
    <3>2. arg.by = h.by
      OBVIOUS
    <3> HIDE DEF arg, shown
    <3>3. CartPurpose("quote", arg) \in CartPurposes
      BY <2>3, <3>2, CartPurposeOf DEF CartPurposes, LineWork
    <3> QED BY <2>1, <2>4, <3>1, <3>2, <3>3, HandlerGoesOn
  <2>7. CASE ~(Len(h.steps) > 1) /\ h.coupon = None
    <3>1. Finish(i) /\ view' = Through(patched, h.by)
      BY <1>5, <2>7 DEF CartChanges
    <3> HIDE DEF shown, patched
    <3>2. /\ DOMAIN view' = CartFields /\ view'.page = view.page
          /\ view'.loading = view.loading /\ view'.couponBusy = view.couponBusy
          /\ view'.busyItem = None \/ (h.by = "add" /\ view'.busyItem = view.busyItem)
          /\ SwitcherWaits(view', calls')
      BY <2>4, <3>1, ThroughPage
    <3> QED BY <2>1, <3>1, <3>2, HandlerEnds
  <2> QED BY <2>5, <2>6, <2>7
<1>6. CASE CartChangeFails(i)
  <2>1. /\ calls[i].op = "change" /\ UnderWay(calls[i]) /\ Finish(i)
        /\ view' = ThrownOut(i, view)
    BY <1>6 DEF CartChangeFails, Throws, UnderWay
  <2> QED BY <2>1, ThrownPage, HandlerEnds
<1>7. CASE QuoteOfChange(i)
  <2>1. /\ calls[i].op = "quote" /\ calls[i].arg.by \notin {"refresh", "apply"}
        /\ UnderWay(calls[i]) /\ Finish(i)
    BY <1>7 DEF QuoteOfChange, Returns, Throws, UnderWay
  <2>2. CASE view' = ThrownOut(i, view)
    BY <2>1, <2>2, ThrownPage, HandlerEnds
  <2>3. CASE view' # ThrownOut(i, view)
    <3> DEFINE v == [view EXCEPT !.quote = calls[i].ans]
    <3>1. view' = Through(v, calls[i].arg.by)
      BY <1>7, <2>3 DEF QuoteOfChange
    <3>2. /\ DOMAIN v = CartFields /\ v.page = view.page
          /\ v.loading = view.loading /\ v.couponBusy = view.couponBusy
          /\ v.busyItem = view.busyItem /\ v.switcher = view.switcher
      BY <1>1 DEF CartFields
    <3> HIDE DEF v
    <3>3. /\ DOMAIN view' = CartFields /\ view'.page = view.page
          /\ view'.loading = view.loading /\ view'.couponBusy = view.couponBusy
          /\ view'.busyItem = None
             \/ (calls[i].arg.by = "add" /\ view'.busyItem = view.busyItem)
          /\ SwitcherWaits(view', calls')
      BY <2>1, <3>1, <3>2, ThroughPage
    <3> QED BY <2>1, <3>3, HandlerEnds
  <2> QED BY <2>2, <2>3
<1> QED BY <1>3, <1>4, <1>5, <1>6, <1>7

LEMMA CartBusyStarts == ASSUME CartInit PROVE CartBusy
<1>1. Purpose("cart", "getCart", [coupon |-> None]) = <<"getCart", None>>
  BY CartPurposeOf
<1>2. SlotsFilled /\ Purposes("cart", calls) = {<<"getCart", None>>}
  BY <1>1, FirstRequest DEF CartInit
<1>3. /\ view.page = "cart" /\ DOMAIN view = CartFields /\ view.busyItem = None
      /\ ~view.couponBusy /\ view.switcher = None
  BY DEF CartInit, CartMounted, CartFields
<1>4. CartWaits(view, {<<"getCart", None>>})
  BY <1>3 DEF CartWaits, CartLoadWork
<1> QED BY <1>2, <1>3, <1>4 DEF CartBusy, SwitcherWaits, CartPurposes, CartLoadWork

LEMMA CartBusySteps ==
    ASSUME CartBusy, CartNext \/ RequestLost \/ OrphanLost \/ UNCHANGED tab
    PROVE  CartBusy'
<1>1. ASSUME SamePurposes("cart"), UNCHANGED view PROVE CartBusy'
  <2>1. SwitcherWaits(view', calls')
    BY <1>1 DEF CartBusy, SamePurposes, SwitcherWaits, SwitchUnderWay
  <2> QED BY <1>1, <2>1 DEF CartBusy, CartWaits, SamePurposes
<1>2. ASSUME NEW i \in Slots, ChangeServed(i) \/ CartRead(i) PROVE CartBusy'
  <2>1. CASE ChangeServed(i)
    <3>1. PICK ans : Acted(i, ans) \/ Rejected(i)
      BY <2>1 DEF ChangeServed
    <3> QED BY <1>1, <2>1, <3>1, ActedKeepsPurpose DEF ChangeServed, CartBusy
  <2>2. CASE CartRead(i)
    BY <1>1, <2>2, AnswerKeepsPurpose DEF CartRead, Asked, CartBusy
  <2> QED BY <1>2, <2>1, <2>2
<1>3. CASE RequestLost \/ OrphanLost \/ UNCHANGED tab
  BY <1>1, <1>3, AroundKeepsPurpose DEF CartBusy
<1> QED BY <1>2, <1>3, CartClickSteps, ConfirmSteps, CartLoadSteps, CartHandlerSteps
        DEF CartNext

LEMMA CartAtRest ==
    ASSUME area = "cart", CartBusy
    PROVE  QuietMeansIdle /\ NothingSentTwice
<1>1. ASSUME calls = NoCalls
      PROVE  /\ NoFlag(view)
             /\ view.switcher # None => view.switcher.submitting = None
  <2>1. Purposes("cart", calls) = {} /\ \A j \in Slots : ~UnderWay(calls[j])
    BY <1>1, QuietPurposes DEF NoCalls, NoCall, UnderWay
  <2> QED BY <2>1 DEF CartBusy, CartWaits, CartFields, SwitcherWaits, SwitchUnderWay, NoFlag,
          Flags
<1>2. view.page = "cart"
  BY DEF CartBusy, CartWaits
<1>3. ASSUME NEW i \in Slots, NEW j \in Slots, SameAgain(i, j) PROVE FALSE
  <2>1. CartPurpose(calls[i].op, calls[i].arg) \in CartPurposes
    BY <1>3, SameIsUnderWay, CartPurposeKnown
  <2>2. calls[i].op \in {"getCart", "quote", "change", "product"}
    BY <2>1, CartPurposeOf DEF CartPurposes, CartLoadWork, LineWork
  <2> QED BY <1>3, <2>2 DEF SameAgain
<1> QED BY <1>1, <1>2, <1>3 DEF QuietMeansIdle, NoFlag, NothingSentTwice

-----------------------------------------------------------------------------
(* The catalogue.                                                          *)

ListFields ==
    {"page", "params", "draft", "items", "cursor", "loading", "wished", "wishBusy",
     "quick", "quickLoading", "choice", "adding", "closing", "visits"}
ProductFields == {"page", "wished", "wishBusy", "choice", "adding", "visits"}
WishlistFields == {"page", "wished", "wishBusy", "loading", "visits"}

CatalogueOps == {"products", "wishlist", "product", "add", "wish"}

\* What page w shows and waits for, when the requests of purposes P are under way.
CatalogueWaits(w, P) ==
    /\ \/ w.page = "products" /\ DOMAIN w = ListFields
       \/ w.page = "product" /\ DOMAIN w = ProductFields
       \/ w.page = "wishlist" /\ DOMAIN w = WishlistFields
    /\ w.page = "products" =>
          /\ w.loading => <<"products", None>> \in P
          /\ w.quickLoading => <<"product", None>> \in P
    /\ w.page # "wishlist" => (w.adding => <<"add", None>> \in P)
    /\ w.page = "wishlist" => (w.loading => <<"wishlist", None>> \in P)
    /\ \A ware \in w.wishBusy : <<"wish", ware>> \in P

CatalogueBusy ==
    LET P == Purposes("catalogue", calls)
    IN  /\ SlotsFilled
        /\ \A p \in P : p[1] \in CatalogueOps
        /\ CatalogueWaits(view, P)

LEMMA CataloguePurposeOf ==
    ASSUME NEW op, NEW arg
    PROVE  /\ Purpose("catalogue", op, arg) = CataloguePurpose(op, arg)
           /\ op # "wish" => CataloguePurpose(op, arg) = <<op, None>>
           /\ op = "wish" => CataloguePurpose(op, arg) = <<"wish", arg.ware>>
           /\ CataloguePurpose(op, arg)[1] = op
BY DEF Purpose, CataloguePurpose

LEMMA CatalogueSends ==
    ASSUME CatalogueBusy, NEW op \in CatalogueOps, NEW arg, Send(op, arg),
           CatalogueWaits(view', Purposes("catalogue", calls) \cup {CataloguePurpose(op, arg)})
    PROVE  CatalogueBusy'
<1>1. op # "none"
  BY DEF CatalogueOps
<1>2. Begins("catalogue", CataloguePurpose(op, arg))
  BY <1>1, SendBegins, CataloguePurposeOf DEF CatalogueBusy
<1> QED BY <1>2, CataloguePurposeOf DEF CatalogueBusy, Begins

LEMMA CatalogueEnds ==
    ASSUME CatalogueBusy, NEW i \in Slots, UnderWay(calls[i]), Finish(i),
           NEW p, Purpose("catalogue", calls[i].op, calls[i].arg) = p,
           CatalogueWaits(view', Purposes("catalogue", calls) \ {p})
    PROVE  CatalogueBusy'
<1>1. Ends("catalogue", p)
  BY FinishEnds DEF CatalogueBusy
<1>2. \A v, P, Q : P \subseteq Q /\ CatalogueWaits(v, P) => CatalogueWaits(v, Q)
  BY DEF CatalogueWaits
<1> QED BY <1>1, <1>2 DEF CatalogueBusy, Ends

LEMMA CatalogueBusyStarts == ASSUME CatalogueInit PROVE CatalogueBusy
<1>1. ASSUME NEW params, view = ListMounted(params),
             calls = Sent(Sent(NoCalls, "wishlist", None), "products",
                          [filters |-> FromParams(params), cursor |-> None])
      PROVE  CatalogueBusy
  <2> DEFINE arg == [filters |-> FromParams(params), cursor |-> None]
  <2>1. /\ Purpose("catalogue", "wishlist", None) = <<"wishlist", None>>
        /\ Purpose("catalogue", "products", arg) = <<"products", None>>
    BY CataloguePurposeOf
  <2>2. calls = Sent(Sent(NoCalls, "wishlist", None), "products", arg)
    BY <1>1
  <2> HIDE DEF arg
  <2>3. SlotsFilled /\ Purposes("catalogue", calls) = {<<"wishlist", None>>, <<"products", None>>}
    BY <2>1, <2>2, TwoRequests
  <2> QED BY <1>1, <2>3 DEF ListMounted, ListFields, CatalogueBusy, CatalogueWaits,
          CatalogueOps
<1>2. ASSUME view = ProductMounted, NEW w, calls = Sent(NoCalls, "product", [ware |-> w])
      PROVE  CatalogueBusy
  <2> DEFINE arg == [ware |-> w]
  <2>1. Purpose("catalogue", "product", arg) = <<"product", None>>
    BY CataloguePurposeOf
  <2>2. calls = Sent(NoCalls, "product", arg)
    BY <1>2
  <2> HIDE DEF arg
  <2>3. SlotsFilled /\ Purposes("catalogue", calls) = {<<"product", None>>}
    BY <2>1, <2>2, FirstRequest
  <2> QED BY <1>2, <2>3 DEF ProductMounted, ProductFields, CatalogueBusy, CatalogueWaits,
          CatalogueOps
<1>3. ASSUME view = WishlistMounted, calls = Sent(NoCalls, "wishlist", None)
      PROVE  CatalogueBusy
  <2>1. Purpose("catalogue", "wishlist", None) = <<"wishlist", None>>
    BY CataloguePurposeOf
  <2>2. SlotsFilled /\ Purposes("catalogue", calls) = {<<"wishlist", None>>}
    BY <1>3, <2>1, FirstRequest
  <2> QED BY <1>3, <2>2 DEF WishlistMounted, WishlistFields, CatalogueBusy, CatalogueWaits,
          CatalogueOps
<1> QED BY <1>1, <1>2, <1>3 DEF CatalogueInit

\* Of the fields that matter w has the same as the page, and is in its area.
LikeView(w) ==
    /\ w.page = view.page /\ DOMAIN w = DOMAIN view
    /\ w.wishBusy = view.wishBusy
    /\ view.page # "wishlist" => w.adding = view.adding
    /\ view.page # "product" => w.loading = view.loading
    /\ view.page = "products" => w.quickLoading = view.quickLoading

LEMMA CatalogueClickSteps ==
    ASSUME CatalogueBusy,
           \/ EditFilter \/ ApplyFilters \/ ResetFilters \/ RemoveFilter \/ LoadMore
           \/ ToggleWish \/ OpenQuickView \/ CloseQuickView \/ QuickViewTimer
           \/ ChooseColour \/ ChooseSize \/ ChooseQuantity \/ AddToCart
    PROVE  CatalogueBusy'
<1> DEFINE P == Purposes("catalogue", calls)
<1>1. /\ CatalogueWaits(view, P)
      /\ DOMAIN view \in {ListFields, ProductFields, WishlistFields}
      /\ view.page = "products" => DOMAIN view = ListFields
      /\ view.page = "product" => DOMAIN view = ProductFields
      /\ view.page = "wishlist" => DOMAIN view = WishlistFields
      /\ view.page \in {"products", "product", "wishlist"}
  BY DEF CatalogueBusy, CatalogueWaits
<1> HIDE DEF P
<1>2. ASSUME UNCHANGED calls, LikeView(view') PROVE CatalogueBusy'
  <2>1. SamePurposes("catalogue")
    BY <1>2, RestKeepsPurpose DEF CatalogueBusy
  <2>2. CatalogueWaits(view', P)
    BY <1>1, <1>2 DEF LikeView, CatalogueWaits
  <2> QED BY <2>1, <2>2 DEF CatalogueBusy, SamePurposes, P
<1>3. CASE EditFilter \/ CloseQuickView \/ QuickViewTimer
  <2>1. UNCHANGED calls /\ view.page = "products"
    BY <1>3 DEF EditFilter, CloseQuickView, QuickViewTimer
  <2>2. CASE EditFilter
    <3>1. PICK d, n : view' = [view EXCEPT !.visits = n, !.draft = d]
      BY <1>1, <2>1, <2>2 DEF EditFilter, Visited, ListFields
    <3> QED BY <1>1, <1>2, <2>1, <3>1 DEF LikeView, ListFields
  <2>3. CASE CloseQuickView \/ QuickViewTimer
    <3>1. LikeView(view')
      BY <1>1, <2>1, <2>3 DEF CloseQuickView, QuickViewTimer, LikeView, ListFields
    <3> QED BY <1>2, <2>1, <3>1
  <2> QED BY <1>3, <2>2, <2>3
<1>4. ASSUME NEW params, view.page = "products", Replace(params) PROVE CatalogueBusy'
  <2>1. PICK arg : Send("products", arg)
    BY <1>4 DEF Replace
  <2>2. /\ DOMAIN view' = ListFields /\ view'.page = "products"
        /\ view'.quickLoading = view.quickLoading /\ view'.adding = view.adding
        /\ view'.wishBusy = view.wishBusy
    BY <1>1, <1>4 DEF Replace, Visited, ListFields
  <2>3. CataloguePurpose("products", arg) = <<"products", None>>
    BY CataloguePurposeOf
  <2>4. CatalogueWaits(view', P \cup {<<"products", None>>})
    BY <1>1, <1>4, <2>2 DEF CatalogueWaits
  <2> QED BY <2>1, <2>3, <2>4, CatalogueSends DEF P, CatalogueOps
<1>5. CASE ApplyFilters \/ RemoveFilter
  BY <1>4, <1>5 DEF ApplyFilters, RemoveFilter
<1>6. CASE ResetFilters
  <2>1. CASE UNCHANGED calls /\ view' = [Visited EXCEPT !.draft = NoFilters]
    BY <1>1, <1>2, <1>6, <2>1 DEF ResetFilters, Visited, LikeView, ListFields
  <2> QED BY <1>4, <1>6, <2>1 DEF ResetFilters
<1>7. CASE LoadMore
  <2>1. PICK arg : Send("products", arg)
    BY <1>7 DEF LoadMore
  <2>2. /\ DOMAIN view' = ListFields /\ view'.page = "products"
        /\ view'.quickLoading = view.quickLoading /\ view'.adding = view.adding
        /\ view'.wishBusy = view.wishBusy
    BY <1>1, <1>7 DEF LoadMore, Visited, ListFields
  <2>3. CataloguePurpose("products", arg) = <<"products", None>>
    BY CataloguePurposeOf
  <2>4. CatalogueWaits(view', P \cup {<<"products", None>>})
    BY <1>1, <1>7, <2>2 DEF CatalogueWaits, LoadMore
  <2> QED BY <2>1, <2>3, <2>4, CatalogueSends DEF P, CatalogueOps
<1>8. CASE ToggleWish
  <2>1. PICK w : /\ Send("wish", [ware |-> w, to |-> w \notin view.wished])
                 /\ view' = [Visited EXCEPT !.wishBusy =
                                IF view.page = "wishlist" THEN {w} ELSE @ \cup {w}]
    BY <1>8 DEF ToggleWish
  <2> DEFINE arg == [ware |-> w, to |-> w \notin view.wished]
  <2>2. CataloguePurpose("wish", arg) = <<"wish", w>> /\ Send("wish", arg)
    BY <2>1, CataloguePurposeOf
  <2> HIDE DEF arg
  <2>3. /\ DOMAIN view' = DOMAIN view /\ view'.page = view.page
        /\ view'.wishBusy \subseteq view.wishBusy \cup {w}
        /\ view.page # "wishlist" => view'.adding = view.adding
        /\ view.page # "product" => view'.loading = view.loading
        /\ view.page = "products" => view'.quickLoading = view.quickLoading
    BY <1>1, <2>1 DEF Visited, ListFields, ProductFields, WishlistFields
  <2>4. CatalogueWaits(view', P \cup {<<"wish", w>>})
    BY <1>1, <2>3 DEF CatalogueWaits
  <2> QED BY <2>2, <2>4, CatalogueSends DEF P, CatalogueOps
<1>9. CASE OpenQuickView
  <2>1. PICK arg, w : /\ Send("product", arg)
                      /\ view' = [Visited EXCEPT !.quick = w, !.quickLoading = TRUE,
                                    !.choice = IF @ = None THEN @
                                               ELSE [@ EXCEPT !.quantity = 1]]
    BY <1>9 DEF OpenQuickView
  <2>2. /\ DOMAIN view' = ListFields /\ view'.page = "products"
        /\ view'.loading = view.loading /\ view'.adding = view.adding
        /\ view'.wishBusy = view.wishBusy
    BY <1>1, <1>9, <2>1 DEF OpenQuickView, Visited, ListFields
  <2>3. CataloguePurpose("product", arg) = <<"product", None>>
    BY CataloguePurposeOf
  <2>4. CatalogueWaits(view', P \cup {<<"product", None>>})
    BY <1>1, <1>9, <2>2 DEF CatalogueWaits, OpenQuickView
  <2> QED BY <2>1, <2>3, <2>4, CatalogueSends DEF P, CatalogueOps
<1>10. CASE ChooseColour \/ ChooseSize \/ ChooseQuantity
  <2>1. PICK c : Choose(c) /\ view.page \in {"products", "product"}
    BY <1>10 DEF ChooseColour, ChooseSize, ChooseQuantity, Choosing
  <2>2. LikeView(view')
    BY <1>1, <2>1 DEF Choose, Visited, LikeView, ListFields, ProductFields
  <2> QED BY <1>2, <2>1, <2>2 DEF Choose
<1>11. CASE AddToCart
  <2>1. PICK arg : Send("add", arg)
    BY <1>11 DEF AddToCart
  <2>2. /\ DOMAIN view' = DOMAIN view /\ view'.page = view.page
        /\ view.page \in {"products", "product"}
        /\ view.page = "products" => view'.loading = view.loading
        /\ view.page = "products" => view'.quickLoading = view.quickLoading
        /\ view'.wishBusy = view.wishBusy
    BY <1>1, <1>11 DEF AddToCart, Choosing, Visited, ListFields, ProductFields
  <2>3. CataloguePurpose("add", arg) = <<"add", None>>
    BY CataloguePurposeOf
  <2>4. CatalogueWaits(view', P \cup {<<"add", None>>})
    BY <1>1, <2>2 DEF CatalogueWaits
  <2> QED BY <2>1, <2>3, <2>4, CatalogueSends DEF P, CatalogueOps
<1> QED BY <1>3, <1>5, <1>6, <1>7, <1>8, <1>9, <1>10, <1>11

LEMMA CatalogueSettleSteps ==
    ASSUME CatalogueBusy, NEW i \in Slots,
           \/ ListSettles(i) \/ WishlistLoads(i) \/ WishlistPageLoads(i)
           \/ WishSettles(i) \/ QuickViewLoads(i) \/ ProductLoads(i) \/ AddSettles(i)
    PROVE  CatalogueBusy'
<1> DEFINE P == Purposes("catalogue", calls)
           p == CataloguePurpose(calls[i].op, calls[i].arg)
<1>1. /\ CatalogueWaits(view, P)
      /\ DOMAIN view \in {ListFields, ProductFields, WishlistFields}
      /\ view.page = "products" => DOMAIN view = ListFields
      /\ view.page = "product" => DOMAIN view = ProductFields
      /\ view.page = "wishlist" => DOMAIN view = WishlistFields
      /\ view.page \in {"products", "product", "wishlist"}
  BY DEF CatalogueBusy, CatalogueWaits
<1>2. ASSUME UnderWay(calls[i]), Finish(i), CatalogueWaits(view', P \ {p})
      PROVE  CatalogueBusy'
  BY <1>2, CatalogueEnds, CataloguePurposeOf
<1>3. /\ calls[i].op # "wish" => p = <<calls[i].op, None>>
      /\ calls[i].op = "wish" => p = <<"wish", calls[i].arg.ware>>
  BY CataloguePurposeOf
<1> HIDE DEF P, p
<1>4. CASE ListSettles(i)
  <2>1. UnderWay(calls[i]) /\ p = <<"products", None>> /\ Finish(i)
    BY <1>3, <1>4 DEF ListSettles, Returns, Throws, UnderWay
  <2>2. /\ DOMAIN view' = ListFields /\ view'.page = "products" /\ ~view'.loading
        /\ view'.quickLoading = view.quickLoading /\ view'.adding = view.adding
        /\ view'.wishBusy = view.wishBusy
    BY <1>1, <1>4 DEF ListSettles, ListFields
  <2>3. CatalogueWaits(view', P \ {p})
    BY <1>1, <1>4, <2>1, <2>2 DEF CatalogueWaits, ListSettles
  <2> QED BY <1>2, <2>1, <2>3
<1>5. CASE WishlistLoads(i)
  <2>1. UnderWay(calls[i]) /\ p = <<"wishlist", None>> /\ Finish(i)
    BY <1>3, <1>5 DEF WishlistLoads, Returns, Throws, UnderWay
  <2>2. LikeView(view') /\ view.page # "wishlist"
    BY <1>1, <1>5 DEF WishlistLoads, LikeView, ListFields, ProductFields
  <2>3. CatalogueWaits(view', P \ {p})
    BY <1>1, <2>1, <2>2 DEF CatalogueWaits, LikeView
  <2> QED BY <1>2, <2>1, <2>3
<1>6. CASE WishlistPageLoads(i)
  <2>1. UnderWay(calls[i]) /\ p = <<"wishlist", None>> /\ Finish(i)
    BY <1>3, <1>6 DEF WishlistPageLoads, Returns, Throws, UnderWay
  <2>2. /\ DOMAIN view' = WishlistFields /\ view'.page = "wishlist" /\ ~view'.loading
        /\ view'.wishBusy = view.wishBusy
    BY <1>1, <1>6 DEF WishlistPageLoads, WishlistFields
  <2>3. CatalogueWaits(view', P \ {p})
    BY <1>1, <1>6, <2>1, <2>2 DEF CatalogueWaits, WishlistPageLoads
  <2> QED BY <1>2, <2>1, <2>3
<1>7. CASE WishSettles(i)
  <2>1. /\ UnderWay(calls[i]) /\ Finish(i)
        /\ p = <<"wish", calls[i].arg.ware>>
    BY <1>3, <1>7 DEF WishSettles, Returns, Throws, UnderWay
  <2>2. /\ DOMAIN view' = DOMAIN view /\ view'.page = view.page
        /\ view'.wishBusy \subseteq view.wishBusy \ {calls[i].arg.ware}
        /\ view.page # "wishlist" => view'.adding = view.adding
        /\ view.page # "product" => view'.loading = view.loading
        /\ view.page = "products" => view'.quickLoading = view.quickLoading
    BY <1>1, <1>7 DEF WishSettles, ListFields, ProductFields, WishlistFields
  <2>3. CatalogueWaits(view', P \ {p})
    BY <1>1, <2>1, <2>2 DEF CatalogueWaits
  <2> QED BY <1>2, <2>1, <2>3
<1>8. CASE QuickViewLoads(i)
  <2>1. UnderWay(calls[i]) /\ p = <<"product", None>> /\ Finish(i)
    BY <1>3, <1>8 DEF QuickViewLoads, Returns, Throws, UnderWay
  <2>2. PICK c : view' \in {[view EXCEPT !.quickLoading = FALSE, !.choice = c],
                            [view EXCEPT !.quickLoading = FALSE]}
    BY <1>8 DEF QuickViewLoads
  <2>3. /\ DOMAIN view' = ListFields /\ view'.page = "products" /\ ~view'.quickLoading
        /\ view'.loading = view.loading /\ view'.adding = view.adding
        /\ view'.wishBusy = view.wishBusy
    BY <1>1, <1>8, <2>2 DEF QuickViewLoads, ListFields
  <2>4. CatalogueWaits(view', P \ {p})
    BY <1>1, <1>8, <2>1, <2>3 DEF CatalogueWaits, QuickViewLoads
  <2> QED BY <1>2, <2>1, <2>4
<1>9. CASE ProductLoads(i)
  <2>1. /\ UnderWay(calls[i]) /\ p = <<"product", None>> /\ view.page = "product"
        /\ Finish(i) \/ Continue(i, "wishlist", None)
    BY <1>3, <1>9 DEF ProductLoads, Returns, Throws, UnderWay
  <2>2. LikeView(view')
    <3>1. PICK c : view' \in {view, [view EXCEPT !.choice = c]}
      BY <1>9 DEF ProductLoads
    <3> QED BY <1>1, <2>1, <3>1 DEF LikeView, ProductFields
  <2>3. \A Q : P \ {p} \subseteq Q => CatalogueWaits(view', Q)
    BY <1>1, <2>1, <2>2 DEF CatalogueWaits, LikeView
  <2>4. CASE Finish(i)
    BY <1>2, <2>1, <2>3, <2>4
  <2>5. CASE Continue(i, "wishlist", None)
    <3>1. Purpose("catalogue", "wishlist", None) = <<"wishlist", None>>
      BY CataloguePurposeOf
    <3>2. Purpose("catalogue", calls[i].op, calls[i].arg) = <<"product", None>>
      BY <2>1, CataloguePurposeOf DEF p
    <3>3. Turns("catalogue", <<"product", None>>, <<"wishlist", None>>)
      BY <2>1, <2>5, <3>1, <3>2, ContinueTurns DEF CatalogueBusy
    <3> QED BY <2>1, <2>3, <3>3 DEF CatalogueBusy, CatalogueOps, Turns, P
  <2> QED BY <2>1, <2>4, <2>5
<1>10. CASE AddSettles(i)
  <2>1. UnderWay(calls[i]) /\ p = <<"add", None>> /\ Finish(i)
    BY <1>3, <1>10 DEF AddSettles, Returns, Throws, UnderWay
  <2>2. /\ DOMAIN view' = DOMAIN view /\ view'.page = view.page
        /\ view'.wishBusy = view.wishBusy
        /\ view.page # "wishlist" => ~view'.adding
        /\ view.page # "product" => view'.loading = view.loading
        /\ view.page = "products" => view'.quickLoading = view.quickLoading
    BY <1>1, <1>10 DEF AddSettles, ListFields, ProductFields, WishlistFields
  <2>3. CatalogueWaits(view', P \ {p})
    BY <1>1, <2>1, <2>2 DEF CatalogueWaits
  <2> QED BY <1>2, <2>1, <2>3
<1> QED BY <1>4, <1>5, <1>6, <1>7, <1>8, <1>9, <1>10

LEMMA CatalogueBusySteps ==
    ASSUME CatalogueBusy, CatalogueNext \/ RequestLost \/ OrphanLost \/ UNCHANGED tab
    PROVE  CatalogueBusy'
<1>1. ASSUME SamePurposes("catalogue"), UNCHANGED view PROVE CatalogueBusy'
  BY <1>1 DEF CatalogueBusy, CatalogueWaits, SamePurposes
<1>2. ASSUME NEW i \in Slots, CatalogueServed(i) PROVE CatalogueBusy'
  <2>1. PICK ans : (calls[i].phase = "sent" /\ Reply(i, ans)) \/ Acted(i, ans)
    BY <1>2 DEF CatalogueServed, Asked
  <2>2. SamePurposes("catalogue")
    BY <2>1, AnswerKeepsPurpose, ActedKeepsPurpose DEF CatalogueBusy
  <2> QED BY <1>1, <1>2, <2>2 DEF CatalogueServed
<1>3. CASE RequestLost \/ OrphanLost \/ UNCHANGED tab
  BY <1>1, <1>3, AroundKeepsPurpose DEF CatalogueBusy
<1> QED BY <1>2, <1>3, CatalogueClickSteps, CatalogueSettleSteps DEF CatalogueNext

\* Nothing that the catalogue asks for is harmful to ask for again.
LEMMA CatalogueAtRest ==
    ASSUME area = "catalogue", CatalogueBusy
    PROVE  QuietMeansIdle /\ NothingSentTwice
<1>1. ASSUME calls = NoCalls PROVE NoFlag(view)
  <2>1. Purposes("catalogue", calls) = {}
    BY <1>1, QuietPurposes
  <2> QED BY <2>1 DEF CatalogueBusy, CatalogueWaits, ListFields, ProductFields,
          WishlistFields, NoFlag, Flags
<1>2. view.page \in {"products", "product", "wishlist"}
  BY DEF CatalogueBusy, CatalogueWaits
<1>3. ASSUME NEW i \in Slots, NEW j \in Slots, SameAgain(i, j) PROVE FALSE
  <2>1. calls[i].op \in CatalogueOps
    BY <1>3, SameIsUnderWay, CataloguePurposeOf DEF CatalogueBusy
  <2> QED BY <1>2, <1>3, <2>1 DEF SameAgain, CatalogueOps
<1> QED BY <1>1, <1>2, <1>3 DEF QuietMeansIdle, NoFlag, NothingSentTwice

-----------------------------------------------------------------------------
(* The lists with pages.                                                   *)

OwnFields == {"page", "rows", "filter", "at", "loading", "refreshing", "error", "turns"}
ApiFields ==
    {"page", "shown", "total", "filter", "typed", "timer", "at", "loading", "turns"}

PagedBusy ==
    LET P == Purposes("pagedLists", calls)
    IN  /\ SlotsFilled
        /\ P \subseteq {"allRows", "somePage"}
        /\ \/ view = [page |-> "blank"]
           \/ /\ view.page \in OwnPaging /\ DOMAIN view = OwnFields
              /\ view.loading \/ view.refreshing => "allRows" \in P
           \/ /\ view.page \in ApiPaging /\ DOMAIN view = ApiFields
              /\ view.loading => "somePage" \in P

LEMMA PagedPurposes == ASSUME NEW op, NEW arg PROVE Purpose("pagedLists", op, arg) = op
BY DEF Purpose

LEMMA PagedBusyStarts == ASSUME PagedInit PROVE PagedBusy
<1>1. SlotsFilled /\ Purposes("pagedLists", calls) = {}
  BY QuietPurposes DEF PagedInit
<1> QED BY <1>1 DEF PagedInit, PagedBusy

LEMMA PagedBusySteps ==
    ASSUME PagedBusy, PagedNext \/ RequestLost \/ OrphanLost \/ UNCHANGED tab
    PROVE  PagedBusy'
<1>1. /\ view.page \in {"blank"} \cup OwnPaging \cup ApiPaging
      /\ view.page \in OwnPaging =>
            /\ DOMAIN view = OwnFields
            /\ view.loading \/ view.refreshing => "allRows" \in Purposes("pagedLists", calls)
      /\ view.page \in ApiPaging =>
            /\ DOMAIN view = ApiFields
            /\ view.loading => "somePage" \in Purposes("pagedLists", calls)
  BY DEF PagedBusy, OwnPaging, ApiPaging
<1>2. ASSUME NEW op \in {"allRows", "somePage"}, NEW arg, Send(op, arg)
      PROVE  Begins("pagedLists", op)
  BY <1>2, SendBegins, PagedPurposes DEF PagedBusy
<1>3. CASE OpenOwnList
  <2>1. Begins("pagedLists", "allRows")
    BY <1>2, <1>3 DEF OpenOwnList
  <2> QED BY <1>3, <2>1 DEF OpenOwnList, PagedBusy, OwnFields, Begins
<1>4. CASE RefreshList
  <2>1. Begins("pagedLists", "allRows")
    BY <1>2, <1>4 DEF RefreshList
  <2>2. DOMAIN view' = OwnFields /\ view'.page \in OwnPaging
    BY <1>1, <1>4 DEF RefreshList, Turning, Turned, OwnFields
  <2> QED BY <2>1, <2>2 DEF PagedBusy, Begins
<1>5. ASSUME NEW i \in Slots, AllRowsSettle(i) PROVE PagedBusy'
  <2>1. Ends("pagedLists", "allRows")
    BY <1>5, FinishEnds, PagedPurposes
    DEF AllRowsSettle, Returns, Throws, UnderWay, PagedBusy
  <2>2. /\ DOMAIN view' = OwnFields /\ view'.page \in OwnPaging
        /\ ~view'.loading /\ ~view'.refreshing
    BY <1>1, <1>5 DEF AllRowsSettle, OwnFields
  <2> QED BY <2>1, <2>2 DEF PagedBusy, Ends
<1>6. CASE ChooseFilter \/ TurnPage
  <2>1. UNCHANGED calls /\ view.page \in OwnPaging
    BY <1>6 DEF ChooseFilter, TurnPage, Turning
  <2>2. SamePurposes("pagedLists")
    BY <2>1, RestKeepsPurpose DEF PagedBusy
  <2>3. /\ DOMAIN view' = OwnFields /\ view'.page = view.page
        /\ view'.loading = view.loading /\ view'.refreshing = view.refreshing
    BY <1>1, <1>6, <2>1 DEF ChooseFilter, TurnPage, Turned, OwnFields
  <2> QED BY <1>1, <2>1, <2>2, <2>3 DEF PagedBusy, SamePurposes
<1>7. CASE OpenApiList
  <2>1. PICK arg : Send("somePage", arg)
    BY <1>7 DEF OpenApiList
  <2>2. Begins("pagedLists", "somePage")
    BY <1>2, <2>1
  <2> QED BY <1>7, <2>2 DEF OpenApiList, PagedBusy, ApiFields, Begins
<1>8. ASSUME view.page \in ApiPaging, NEW w, DOMAIN w = ApiFields, w.page = view.page,
             w.loading = view.loading, Reloads(w)
      PROVE  PagedBusy'
  <2>1. CASE view' = w /\ UNCHANGED calls
    <3>1. SamePurposes("pagedLists")
      BY <2>1, RestKeepsPurpose DEF PagedBusy
    <3> QED BY <1>1, <1>8, <2>1, <3>1 DEF PagedBusy, SamePurposes
  <2>2. CASE ~(view' = w /\ UNCHANGED calls)
    <3>1. PICK arg : Send("somePage", arg) /\ view' = [w EXCEPT !.loading = TRUE]
      BY <1>8, <2>2 DEF Reloads
    <3>2. Begins("pagedLists", "somePage")
      BY <1>2, <3>1
    <3>3. DOMAIN view' = ApiFields /\ view'.page \in ApiPaging
      BY <1>8, <3>1 DEF ApiFields
    <3> QED BY <3>2, <3>3 DEF PagedBusy, Begins
  <2> QED BY <2>1, <2>2
<1>9. CASE TypeSearch
  <2>1. UNCHANGED calls /\ view.page \in ApiPaging
    BY <1>9 DEF TypeSearch, Turning
  <2>2. SamePurposes("pagedLists")
    BY <2>1, RestKeepsPurpose DEF PagedBusy
  <2>3. DOMAIN view' = ApiFields /\ view'.page = view.page /\ view'.loading = view.loading
    BY <1>1, <1>9, <2>1 DEF TypeSearch, Turned, ApiFields
  <2> QED BY <1>1, <2>1, <2>2, <2>3 DEF PagedBusy, SamePurposes
<1>10. CASE SearchCounts
  <2> DEFINE w == [view EXCEPT !.timer = FALSE, !.filter = view.typed, !.at = 0]
  <2>1. view.page \in ApiPaging /\ Reloads(w)
    BY <1>10 DEF SearchCounts
  <2>2. DOMAIN w = ApiFields /\ w.page = view.page /\ w.loading = view.loading
    BY <1>1, <2>1 DEF ApiFields
  <2> HIDE DEF w
  <2> QED BY <1>8, <2>1, <2>2
<1>11. CASE TurnApiPage
  <2> DEFINE w1 == [Turned EXCEPT !.at = @ - 1]
             w2 == [Turned EXCEPT !.at = @ + 1]
  <2>1. view.page \in ApiPaging /\ (Reloads(w1) \/ Reloads(w2))
    BY <1>11 DEF TurnApiPage, Turning
  <2>2. \A w \in {w1, w2} :
           DOMAIN w = ApiFields /\ w.page = view.page /\ w.loading = view.loading
    BY <1>1, <2>1 DEF Turned, ApiFields
  <2> HIDE DEF w1, w2
  <2> QED BY <1>8, <2>1, <2>2
<1>12. ASSUME NEW i \in Slots, SomePageSettles(i) PROVE PagedBusy'
  <2>1. Ends("pagedLists", "somePage")
    BY <1>12, FinishEnds, PagedPurposes
    DEF SomePageSettles, Returns, Throws, UnderWay, PagedBusy
  <2>2. DOMAIN view' = ApiFields /\ view'.page \in ApiPaging /\ ~view'.loading
    BY <1>1, <1>12 DEF SomePageSettles, ApiFields
  <2> QED BY <2>1, <2>2 DEF PagedBusy, Ends
<1>13. ASSUME SamePurposes("pagedLists"), UNCHANGED view PROVE PagedBusy'
  BY <1>13 DEF PagedBusy, SamePurposes
<1>14. ASSUME NEW i \in Slots, RowsRead(i) PROVE PagedBusy'
  BY <1>13, <1>14, AnswerKeepsPurpose DEF RowsRead, Asked, PagedBusy
<1>15. CASE RequestLost \/ OrphanLost \/ UNCHANGED tab \/ RowChanges
  BY <1>13, <1>15, AroundKeepsPurpose DEF RowChanges, PagedBusy
<1> QED BY <1>3, <1>4, <1>5, <1>6, <1>7, <1>9, <1>10, <1>11, <1>12, <1>14, <1>15
        DEF PagedNext

\* Lists are only read.
LEMMA PagedAtRest ==
    ASSUME area = "pagedLists", PagedBusy
    PROVE  QuietMeansIdle /\ NothingSentTwice
<1>1. ASSUME calls = NoCalls PROVE NoFlag(view)
  <2>1. Purposes("pagedLists", calls) = {}
    BY <1>1, QuietPurposes
  <2> QED BY <2>1 DEF PagedBusy, OwnFields, ApiFields, NoFlag, Flags
<1>2. view.page \in {"blank", "orderList", "stockList", "returnList", "receiptList"}
  BY DEF PagedBusy, OwnPaging, ApiPaging
<1>3. ASSUME NEW i \in Slots, NEW j \in Slots, SameAgain(i, j) PROVE FALSE
  <2>1. calls[i].op \in {"allRows", "somePage"}
    BY <1>3, SameIsUnderWay, PagedPurposes DEF PagedBusy
  <2> QED BY <1>2, <1>3, <2>1 DEF SameAgain
<1> QED BY <1>1, <1>2, <1>3 DEF QuietMeansIdle, NoFlag, NothingSentTwice

-----------------------------------------------------------------------------
(* The lists with switches.                                                *)

SwitchFields ==
    {"page", "rows", "loading", "busyRows", "dialog", "sending", "mounted", "changes"}

ListWork == {"list"} \X {"mount", "switch", "create", "archive"}
CreateWork == {<<"create", "create">>, <<"list", "create">>}
RowWork == {"switch", "archive", "list"} \X {"switch", "archive"}
SwitchWork == ListWork \cup {<<op, op>> : op \in {"switch", "create", "archive"}}

\* What page w shows and waits for, when the requests have the purposes P, C
\* and R in the readings of an area, of changes and of rows.
SwitchWaits(w, P, C, R) ==
    /\ w.page \in SwitchPages /\ DOMAIN w = SwitchFields
    /\ w.loading => P \cap ListWork # {}
    /\ w.sending => P \cap CreateWork # {}
    /\ w.page = "coupons" => (w.busyRows # {} <=> "change" \in C)
    /\ w.page = "products" =>
          /\ \A e \in w.busyRows : <<"row", e, w.mounted>> \in R
          /\ w.loading => w.busyRows = {} /\ w.dialog \in {None, "create"}
    /\ w.page \notin {"coupons", "products"} /\ w.busyRows # {} => P \cap RowWork # {}

SwitchesBusy ==
    LET P == Purposes("switchLists", calls)
        C == Purposes("change", calls)
        R == Purposes("row", calls)
    IN  /\ SlotsFilled
        /\ P \subseteq SwitchWork
        /\ \/ view = [page |-> "blank"] /\ C = {}
           \/ SwitchWaits(view, P, C, R)
        /\ view.page \in {"blank", "coupons"} => OneOfEach("change", calls, {"change"})

LEMMA SwitchPurposesOf ==
    ASSUME NEW op, NEW arg
    PROVE  /\ Purpose("switchLists", op, arg) = <<op, arg.after>>
           /\ Purpose("change", op, arg) = ChangePurpose(op, arg)
           /\ Purpose("row", op, arg) = RowPurpose(op, arg)
BY DEF Purpose, SwitchPurpose

LEMMA SwitchPurposeKnown ==
    ASSUME SwitchesBusy, NEW i \in Slots, UnderWay(calls[i])
    PROVE  <<calls[i].op, calls[i].arg.after>> \in SwitchWork
BY SwitchPurposesOf DEF SwitchesBusy, Purposes

LEMMA SwitchSends ==
    ASSUME SwitchesBusy, NEW op, NEW arg, op # "none", Send(op, arg),
           <<op, arg.after>> \in SwitchWork,
           SwitchWaits(view', Purposes("switchLists", calls) \cup {<<op, arg.after>>},
                       Purposes("change", calls) \cup {ChangePurpose(op, arg)},
                       Purposes("row", calls) \cup {RowPurpose(op, arg)}),
           view'.page = "coupons" =>
              /\ view.page \in {"blank", "coupons"}
              /\ ChangePurpose(op, arg) = "mount" \/ "change" \notin Purposes("change", calls)
    PROVE  SwitchesBusy'
<1>1. Begins("switchLists", <<op, arg.after>>)
  BY SendBegins, SwitchPurposesOf DEF SwitchesBusy
<1>2. Begins("change", ChangePurpose(op, arg))
  BY SendBegins, SwitchPurposesOf DEF SwitchesBusy
<1>3. Begins("row", RowPurpose(op, arg))
  BY SendBegins, SwitchPurposesOf DEF SwitchesBusy
<1>4. view'.page = "coupons" => OneOfEach("change", calls', {"change"})
  BY <1>2 DEF SwitchesBusy, Begins
<1> QED BY <1>1, <1>2, <1>3, <1>4 DEF SwitchesBusy, Begins, SwitchWaits, SwitchPages

LEMMA SwitchEnds ==
    ASSUME SwitchesBusy, NEW i \in Slots, UnderWay(calls[i]), Finish(i),
           NEW p, NEW c, NEW r,
           Purpose("switchLists", calls[i].op, calls[i].arg) = p,
           Purpose("change", calls[i].op, calls[i].arg) = c,
           Purpose("row", calls[i].op, calls[i].arg) = r,
           view'.page = view.page,
           \A P, C, R :
              (/\ Purposes("switchLists", calls) \ {p} \subseteq P
               /\ Purposes("change", calls) \ {c} \subseteq C
               /\ C \subseteq Purposes("change", calls)
               /\ view.page = "coupons" /\ c = "change" => c \notin C
               /\ Purposes("row", calls) \ {r} \subseteq R) => SwitchWaits(view', P, C, R)
    PROVE  SwitchesBusy'
<1>1. Ends("switchLists", p) /\ Ends("change", c) /\ Ends("row", r)
  BY FinishEnds DEF SwitchesBusy
<1>2. view.page = "coupons" =>
         /\ OneOfEach("change", calls', {"change"})
         /\ c = "change" => c \notin Purposes("change", calls')
  BY <1>1 DEF SwitchesBusy, Ends
<1> QED BY <1>1, <1>2 DEF SwitchesBusy, Ends, SwitchWaits, SwitchPages

LEMMA SwitchesBusyStarts == ASSUME SwitchInit PROVE SwitchesBusy
<1>1. /\ SlotsFilled /\ Purposes("switchLists", calls) = {} /\ Purposes("change", calls) = {}
      /\ OneOfEach("change", calls, {"change"})
  BY QuietPurposes, QuietIsOneOfEach DEF SwitchInit
<1> QED BY <1>1 DEF SwitchInit, SwitchesBusy

LEMMA SwitchClickSteps ==
    ASSUME SwitchesBusy,
           OpenSwitches \/ Switch \/ OpenListDialog \/ CloseListDialog \/ Create \/ Archive
    PROVE  SwitchesBusy'
<1> DEFINE P == Purposes("switchLists", calls)
           C == Purposes("change", calls)
           R == Purposes("row", calls)
<1>1. CASE OpenSwitches
  <2> DEFINE arg == [after |-> "mount", row |-> None]
  <2>1. /\ Send("list", arg) /\ arg.after = "mount"
        /\ view = [page |-> "blank"] /\ C = {}
    BY <1>1 DEF OpenSwitches, SwitchesBusy, SwitchWaits, SwitchPages
  <2> HIDE DEF arg
  <2>2. /\ <<"list", arg.after>> = <<"list", "mount">>
        /\ ChangePurpose("list", arg) = "mount"
    BY <2>1 DEF ChangePurpose
  <2>3. <<"list", "mount">> \in ListWork /\ <<"list", "mount">> \in SwitchWork
    BY DEF ListWork, SwitchWork
  <2>4. SwitchWaits(view', P \cup {<<"list", arg.after>>}, C \cup {ChangePurpose("list", arg)},
                    R \cup {RowPurpose("list", arg)})
    BY <1>1, <2>1, <2>2, <2>3 DEF OpenSwitches, SwitchWaits, SwitchFields, SwitchPages
  <2> QED BY <2>1, <2>2, <2>3, <2>4, SwitchSends
<1>2. ASSUME view.page \in SwitchPages
      PROVE  /\ SwitchWaits(view, P, C, R)
             /\ DOMAIN view = SwitchFields
  BY <1>2 DEF SwitchesBusy, SwitchWaits, SwitchPages
<1> HIDE DEF P, C, R
<1>3. ASSUME NEW op \in {"switch", "archive"}, NEW e, NEW arg, Send(op, arg),
             arg.after = op, arg.row = e, arg.mounted = view.mounted,
             view.page \in SwitchPages, view' = [Busied(view, e) EXCEPT !.changes = @ + 1],
             view.page = "coupons" => view.busyRows = {},
             view.page = "products" => ~view.loading
      PROVE  SwitchesBusy'
  <2>1. DOMAIN view = SwitchFields /\ SwitchWaits(view, P, C, R)
    BY <1>2, <1>3
  <2>2. /\ ChangePurpose(op, arg) = "change"
        /\ RowPurpose(op, arg) = <<"row", e, view.mounted>>
        /\ <<op, arg.after>> \in SwitchWork /\ <<op, arg.after>> \in RowWork
    BY <1>3 DEF ChangePurpose, RowPurpose, SwitchWork, RowWork
  <2>3. PICK rows : /\ view' = [[view EXCEPT !.busyRows = rows] EXCEPT !.changes = @ + 1]
                    /\ IF view.page = "products" THEN rows = view.busyRows \cup {e}
                       ELSE rows = {e}
    <3>1. CASE view.page = "products"
      BY <1>3, <3>1 DEF Busied
    <3>2. CASE view.page # "products"
      BY <1>3, <3>2 DEF Busied
    <3> QED BY <3>1, <3>2
  <2>4. /\ DOMAIN view' = SwitchFields /\ view'.page = view.page
        /\ view'.loading = view.loading /\ view'.sending = view.sending
        /\ view'.mounted = view.mounted /\ view'.dialog = view.dialog
        /\ view'.busyRows = rows
    BY <2>1, <2>3 DEF SwitchFields
  <2>5. SwitchWaits(view', P \cup {<<op, arg.after>>}, C \cup {ChangePurpose(op, arg)},
                    R \cup {RowPurpose(op, arg)})
    BY <1>3, <2>1, <2>2, <2>3, <2>4 DEF SwitchWaits
  <2>6. view.page = "coupons" => "change" \notin C
    BY <1>3, <2>1 DEF SwitchWaits
  <2> QED BY <1>3, <2>2, <2>4, <2>5, <2>6, SwitchSends DEF P, C, R
<1>4. CASE Switch
  <2>1. PICK e \in Seen(view) :
           /\ ~SwitchBusy(view, e)
           /\ Send("switch", [after |-> "switch", row |-> e, mounted |-> view.mounted,
                             to |-> IF view.rows[e] = "on" THEN "off" ELSE "on"])
           /\ view' = [Busied(view, e) EXCEPT !.changes = @ + 1]
    BY <1>4 DEF Switch
  <2> DEFINE arg == [after |-> "switch", row |-> e, mounted |-> view.mounted,
                     to |-> IF view.rows[e] = "on" THEN "off" ELSE "on"]
  <2>2. /\ Send("switch", arg)
        /\ arg.after = "switch" /\ arg.row = e /\ arg.mounted = view.mounted
    BY <2>1
  <2> HIDE DEF arg
  <2>3. view.page \in SwitchPages /\ (view.page = "coupons" => view.busyRows = {})
        /\ ~view.loading
    BY <1>4, <2>1 DEF Switch, Changing, SwitchBusy, Seen
  <2> QED BY <1>3, <2>1, <2>2, <2>3
<1>5. CASE Archive
  <2> DEFINE arg == [after |-> "archive", row |-> view.dialog, mounted |-> view.mounted]
  <2>1. /\ Send("archive", arg)
        /\ arg.after = "archive" /\ arg.row = view.dialog /\ arg.mounted = view.mounted
    BY <1>5 DEF Archive
  <2> HIDE DEF arg
  <2>2. /\ view.page \in SwitchPages /\ (view.page = "coupons" => view.busyRows = {})
        /\ view.dialog \in Entries
        /\ view' = [Busied(view, view.dialog) EXCEPT !.changes = @ + 1]
    BY <1>5 DEF Archive, Changing, DialogBusy
  <2>3. view.page = "products" => ~view.loading
    BY <1>2, <2>2, NoRowIsCreate DEF SwitchWaits
  <2> QED BY <1>3, <2>1, <2>2, <2>3
<1>6. CASE Create
  <2> DEFINE arg == [after |-> "create", row |-> Extra]
  <2>1. Send("create", arg) /\ arg.after = "create"
    BY <1>6 DEF Create
  <2> HIDE DEF arg
  <2>2. /\ view.page \in SwitchPages /\ (view.page = "coupons" => view.busyRows = {})
    BY <1>6 DEF Create, Changing, DialogBusy
  <2>3. DOMAIN view = SwitchFields /\ SwitchWaits(view, P, C, R)
    BY <1>2, <2>2
  <2>4. /\ DOMAIN view' = SwitchFields /\ view'.page = view.page
        /\ view'.loading = view.loading
        /\ view'.mounted = view.mounted /\ view'.dialog = view.dialog
        /\ view'.busyRows = IF view.page = "coupons" THEN {Extra} ELSE view.busyRows
    BY <1>6, <2>3 DEF Create, SwitchFields
  <2>5. /\ ChangePurpose("create", arg) = "change"
        /\ <<"create", arg.after>> \in SwitchWork /\ <<"create", arg.after>> \in CreateWork
    BY <2>1 DEF ChangePurpose, SwitchWork, CreateWork
  <2>6. SwitchWaits(view', P \cup {<<"create", arg.after>>},
                    C \cup {ChangePurpose("create", arg)}, R \cup {RowPurpose("create", arg)})
    BY <2>2, <2>3, <2>4, <2>5 DEF SwitchWaits
  <2>7. view.page = "coupons" => "change" \notin C
    BY <2>2, <2>3 DEF SwitchWaits
  <2> QED BY <2>1, <2>2, <2>4, <2>5, <2>6, <2>7, SwitchSends DEF P, C, R
<1>7. CASE OpenListDialog \/ CloseListDialog
  <2>1. UNCHANGED calls /\ view.page \in SwitchPages
    BY <1>7 DEF OpenListDialog, CloseListDialog, Changing, SwitchPages
  <2>2. PICK d : /\ view' = [view EXCEPT !.dialog = d]
                 /\ view.loading => d \in {None, "create"}
    BY <1>7 DEF OpenListDialog, CloseListDialog, Seen
  <2>3. /\ DOMAIN view' = SwitchFields /\ view'.page = view.page
        /\ view'.loading = view.loading /\ view'.sending = view.sending
        /\ view'.mounted = view.mounted /\ view'.dialog = d
        /\ view'.busyRows = view.busyRows
    BY <1>2, <2>1, <2>2 DEF SwitchFields
  <2>4. SwitchWaits(view', P, C, R)
    BY <1>2, <2>1, <2>2, <2>3 DEF SwitchWaits
  <2>5. SamePurposes("switchLists") /\ SamePurposes("change") /\ SamePurposes("row")
    BY <2>1, RestKeepsPurpose DEF SwitchesBusy
  <2> QED BY <2>3, <2>4, <2>5 DEF SwitchesBusy, SamePurposes, P, C, R
<1> QED BY <1>1, <1>4, <1>5, <1>6, <1>7

\* What the end of a handler does to the flags of page w.
EndedLike(w, v, a) ==
    /\ DOMAIN v = SwitchFields /\ v.page = w.page /\ v.loading = w.loading
    /\ v.mounted = w.mounted /\ v.dialog = w.dialog
    /\ v.sending => w.sending /\ a.after # "create"
    /\ v.busyRows \subseteq w.busyRows
    /\ w.page = "coupons" => v.busyRows = IF a.after = "mount" THEN w.busyRows ELSE {}
    /\ w.page = "products" /\ a.after \in {"switch", "archive"} /\ a.mounted = w.mounted =>
          a.row \notin v.busyRows
    /\ w.page \notin {"coupons", "products"} /\ a.after \in {"switch", "archive"} =>
          v.busyRows = {}

LEMMA EndedSteps ==
    ASSUME NEW w, DOMAIN w = SwitchFields, NEW a,
           a.after \in {"mount", "switch", "create", "archive"}, NEW v, v = Ended(w, a)
    PROVE  EndedLike(w, v, a)
<1>1. CASE a.after = "mount"
  <2>1. v = w
    BY <1>1 DEF Ended
  <2> QED BY <1>1, <2>1 DEF EndedLike
<1>2. CASE a.after = "create"
  <2>1. v = [w EXCEPT !.sending = FALSE,
                      !.busyRows = IF w.page = "coupons" THEN {} ELSE @]
    BY <1>2 DEF Ended
  <2> QED BY <1>2, <2>1 DEF EndedLike, SwitchFields
<1>3. CASE a.after \in {"switch", "archive"} /\ w.page = "products" /\ a.mounted # w.mounted
  <2>1. v = w
    BY <1>3 DEF Ended
  <2> QED BY <1>3, <2>1 DEF EndedLike
<1>4. CASE a.after \in {"switch", "archive"} /\ ~(w.page = "products" /\ a.mounted # w.mounted)
  <2>1. v = Freed(w, a.row)
    BY <1>4 DEF Ended
  <2>2. CASE w.page = "products"
    BY <1>4, <2>1, <2>2 DEF Freed, EndedLike, SwitchFields
  <2>3. CASE w.page # "products"
    BY <1>4, <2>1, <2>3 DEF Freed, EndedLike, SwitchFields
  <2> QED BY <2>2, <2>3
<1> QED BY <1>1, <1>2, <1>3, <1>4

LEMMA SwitchSettleSteps ==
    ASSUME SwitchesBusy, NEW i \in Slots, ChangeMade(i) \/ ChangeFails(i) \/ ListLoads(i)
    PROVE  SwitchesBusy'
<1> DEFINE P == Purposes("switchLists", calls)
           C == Purposes("change", calls)
           R == Purposes("row", calls)
           op == calls[i].op
           a == calls[i].arg
           p == <<op, a.after>>
           c == ChangePurpose(op, a)
           r == RowPurpose(op, a)
<1>1. /\ UnderWay(calls[i]) /\ view.page \in SwitchPages
      /\ op \in {"list", "switch", "create", "archive"}
  BY DEF ChangeMade, ChangeFails, ListLoads, Returns, Throws, UnderWay
<1>2. SwitchWaits(view, P, C, R) /\ DOMAIN view = SwitchFields
  BY <1>1 DEF SwitchesBusy, SwitchWaits, SwitchPages
<1>3. /\ p \in SwitchWork
      /\ a.after \in {"mount", "switch", "create", "archive"}
      /\ op # "list" => a.after = op
  BY <1>1, SwitchPurposeKnown DEF SwitchWork, ListWork
<1>4. /\ Purpose("switchLists", op, a) = p /\ Purpose("change", op, a) = c
      /\ Purpose("row", op, a) = r
      /\ c = IF a.after = "mount" THEN "mount" ELSE "change"
      /\ a.after \in {"switch", "archive"} =>
            r[1] = "row" /\ r[2] = a.row /\ r[3] = a.mounted
      /\ a.after \notin {"switch", "archive"} => r[1] = "no row"
  BY SwitchPurposesOf DEF ChangePurpose, RowPurpose
<1>5. p \in RowWork <=> a.after \in {"switch", "archive"}
  BY <1>1, <1>3 DEF RowWork
<1>6. p \in CreateWork <=> a.after = "create"
  BY <1>1, <1>3 DEF CreateWork
<1>7. p \in ListWork <=> op = "list"
  BY <1>3 DEF ListWork
<1> HIDE DEF P, C, R, p, c, r
<1>8. ASSUME NEW w, DOMAIN w = SwitchFields, w.page = view.page,
             w.sending = view.sending, w.busyRows = view.busyRows,
             w.mounted = view.mounted \/ (w.page = "products" /\ w.busyRows = {}),
             w.loading => view.loading /\ op # "list", w.dialog \in {view.dialog, None},
             EndedLike(w, view', a), Finish(i)
      PROVE  SwitchesBusy'
  <2>1. ASSUME NEW Q, P \ {p} \subseteq Q, NEW D, C \ {c} \subseteq D, D \subseteq C,
               view.page = "coupons" /\ c = "change" => c \notin D,
               NEW S, R \ {r} \subseteq S
        PROVE  SwitchWaits(view', Q, D, S)
    <3>1. view'.page \in SwitchPages /\ DOMAIN view' = SwitchFields /\ view'.page = view.page
      BY <1>1, <1>8 DEF EndedLike
    <3>2. view'.loading => Q \cap ListWork # {}
      BY <1>2, <1>7, <1>8, <2>1 DEF EndedLike, SwitchWaits
    <3>3. view'.sending => Q \cap CreateWork # {}
      BY <1>2, <1>6, <1>8, <2>1 DEF EndedLike, SwitchWaits
    <3>4. view'.page = "coupons" => (view'.busyRows # {} <=> "change" \in D)
      BY <1>2, <1>4, <1>8, <2>1 DEF EndedLike, SwitchWaits
    <3>5. view'.page = "products" =>
             /\ \A e \in view'.busyRows : <<"row", e, view'.mounted>> \in S
             /\ view'.loading => view'.busyRows = {} /\ view'.dialog \in {None, "create"}
      <4>1. ASSUME view'.page = "products", NEW e \in view'.busyRows
            PROVE  <<"row", e, view'.mounted>> \in S
        <5>1. e \in view.busyRows /\ view'.mounted = view.mounted
          BY <1>8, <4>1 DEF EndedLike
        <5>2. view.page = "products" /\ <<"row", e, view.mounted>> \in R
          BY <1>2, <1>8, <4>1, <5>1 DEF EndedLike, SwitchWaits
        <5> DEFINE t == <<"row", e, view.mounted>>
        <5>3. t[1] = "row" /\ t[2] = e /\ t[3] = view.mounted
          OBVIOUS
        <5> HIDE DEF t
        <5>4. CASE a.after \in {"switch", "archive"}
          <6>1. a.mounted # view.mounted \/ a.row # e
            BY <1>8, <4>1, <5>1, <5>2, <5>4 DEF EndedLike
          <6>2. r # t
            BY <1>4, <5>4, <5>3, <6>1
          <6> QED BY <2>1, <5>1, <5>2, <6>2 DEF t
        <5>5. CASE a.after \notin {"switch", "archive"}
          <6>1. r # t
            BY <1>4, <5>5, <5>3
          <6> QED BY <2>1, <5>1, <5>2, <6>1 DEF t
        <5> QED BY <5>4, <5>5
      <4>2. (view'.page = "products" /\ view'.loading) =>
               view'.busyRows = {} /\ view'.dialog \in {None, "create"}
        BY <1>2, <1>8 DEF EndedLike, SwitchWaits
      <4> QED BY <4>1, <4>2
    <3>6. view'.page \notin {"coupons", "products"} /\ view'.busyRows # {} =>
             Q \cap RowWork # {}
      BY <1>2, <1>5, <1>8, <2>1 DEF EndedLike, SwitchWaits
    <3> QED BY <3>1, <3>2, <3>3, <3>4, <3>5, <3>6 DEF SwitchWaits
  <2>2. view'.page = view.page
    BY <1>8 DEF EndedLike
  <2> QED BY <1>1, <1>4, <1>8, <2>1, <2>2, SwitchEnds DEF P, C, R
<1>9. CASE ChangeFails(i)
  <2>1. Finish(i) /\ view' = Ended(view, a) /\ op # "list"
    BY <1>9 DEF ChangeFails
  <2>2. EndedLike(view, view', a)
    BY <1>2, <1>3, <2>1, EndedSteps
  <2>3. DOMAIN view = SwitchFields
    BY <1>2
  <2> HIDE DEF op, a
  <2> QED BY <1>8, <2>1, <2>2, <2>3
<1>10. CASE ListLoads(i)
  <2> DEFINE w == [view EXCEPT
                     !.rows = IF Returns(i, "list") THEN calls[i].ans ELSE @,
                     !.loading = FALSE,
                     !.mounted = IF view.page = "products" /\ view.loading
                                 THEN @ + 1 ELSE @,
                     !.dialog = IF calls[i].arg.after = "create" /\ view.page # "couriers"
                                THEN None ELSE @]
  <2>1. Finish(i) /\ view' = Ended(w, a)
    BY <1>10 DEF ListLoads
  <2>2. /\ DOMAIN w = SwitchFields /\ w.page = view.page /\ w.sending = view.sending
        /\ w.busyRows = view.busyRows /\ ~w.loading /\ w.dialog \in {view.dialog, None}
        /\ w.mounted = view.mounted \/ (view.page = "products" /\ view.loading)
    BY <1>2 DEF SwitchFields
  <2> HIDE DEF w
  <2>3. EndedLike(w, view', a)
    BY <1>3, <2>1, <2>2, EndedSteps
  <2>4. w.mounted = view.mounted \/ (w.page = "products" /\ w.busyRows = {})
    BY <1>2, <2>2 DEF SwitchWaits
  <2> HIDE DEF op, a
  <2> QED BY <1>8, <2>1, <2>2, <2>3, <2>4
<1>11. CASE ChangeMade(i)
  <2>1. Continue(i, "list", a) /\ op # "list"
    BY <1>11 DEF ChangeMade
  <2> DEFINE q == <<"list", a.after>>
  <2>2. /\ Purpose("switchLists", "list", a) = q
        /\ Purpose("change", "list", a) = c /\ Purpose("row", "list", a) = r
    BY SwitchPurposesOf DEF ChangePurpose, RowPurpose, c, r
  <2>3. /\ q \in SwitchWork /\ q \in ListWork
        /\ p \in CreateWork => q \in CreateWork
        /\ p \in RowWork => q \in RowWork
    BY <1>3, <1>5, <1>6 DEF SwitchWork, ListWork, CreateWork, RowWork
  <2>4. /\ DOMAIN view' = SwitchFields /\ view'.page = view.page
        /\ view'.sending = view.sending /\ view'.mounted = view.mounted
        /\ view.page # "products" => view'.busyRows = view.busyRows
        /\ view.page = "products" =>
              view'.busyRows = {} /\ view'.dialog \in {None, "create"}
    BY <1>2, <1>11 DEF ChangeMade, SwitchFields
  <2>5. ASSUME NEW Q, P \ {p} \subseteq Q, q \in Q PROVE SwitchWaits(view', Q, C, R)
    BY <1>2, <2>3, <2>4, <2>5 DEF SwitchWaits
  <2> HIDE DEF q, op, a
  <2>6. /\ Turns("switchLists", p, q) /\ Turns("change", c, c) /\ Turns("row", r, r)
    <3>1. Turns("switchLists", p, q)
      BY <1>1, <1>4, <2>1, <2>2, ContinueTurns DEF SwitchesBusy, op, a
    <3>2. Turns("change", c, c)
      BY <1>1, <1>4, <2>1, <2>2, ContinueTurns DEF SwitchesBusy, op, a
    <3>3. Turns("row", r, r)
      BY <1>1, <1>4, <2>1, <2>2, ContinueTurns DEF SwitchesBusy, op, a
    <3> QED BY <3>1, <3>2, <3>3
  <2>7. Purposes("change", calls') = C /\ Purposes("row", calls') = R
    BY <2>6 DEF Turns, C, R
  <2>8. SwitchWaits(view', Purposes("switchLists", calls'), C, R)
    BY <2>5, <2>6 DEF Turns, P
  <2>9. view.page = "coupons" => OneOfEach("change", calls', {"change"})
    BY <2>6 DEF SwitchesBusy, Turns
  <2>10. view'.page # "blank"
    BY <1>1, <2>4 DEF SwitchPages
  <2> QED BY <2>3, <2>4, <2>6, <2>7, <2>8, <2>9, <2>10 DEF SwitchesBusy, Turns, P
<1> QED BY <1>9, <1>10, <1>11

LEMMA SwitchesBusySteps ==
    ASSUME SwitchesBusy, SwitchNext \/ RequestLost \/ OrphanLost \/ UNCHANGED tab
    PROVE  SwitchesBusy'
<1>1. ASSUME SamePurposes("switchLists"), SamePurposes("change"), SamePurposes("row"),
             UNCHANGED view
      PROVE  SwitchesBusy'
  BY <1>1 DEF SwitchesBusy, SamePurposes
<1>2. ASSUME NEW i \in Slots, ChangeOfList(i) \/ ListRead(i) PROVE SwitchesBusy'
  <2>1. CASE ChangeOfList(i)
    <3>1. PICK ans : Acted(i, ans) \/ Rejected(i)
      BY <2>1 DEF ChangeOfList
    <3> QED BY <1>1, <2>1, <3>1, ActedKeepsPurpose DEF ChangeOfList, SwitchesBusy
  <2>2. CASE ListRead(i)
    BY <1>1, <2>2, AnswerKeepsPurpose DEF ListRead, Asked, SwitchesBusy
  <2> QED BY <1>2, <2>1, <2>2
<1>3. CASE RequestLost \/ OrphanLost \/ UNCHANGED tab
  BY <1>1, <1>3, AroundKeepsPurpose DEF SwitchesBusy
<1> QED BY <1>2, <1>3, SwitchClickSteps, SwitchSettleSteps DEF SwitchNext

\* One change of the coupons is made at a time.
LEMMA SwitchesAtRest ==
    ASSUME area = "switchLists", SwitchesBusy
    PROVE  QuietMeansIdle /\ NothingSentTwice
<1>1. ASSUME calls = NoCalls PROVE NoFlag(view)
  <2>1. /\ Purposes("switchLists", calls) = {} /\ Purposes("change", calls) = {}
        /\ Purposes("row", calls) = {}
    BY <1>1, QuietPurposes
  <2>2. CASE view = [page |-> "blank"]
    BY <2>2 DEF NoFlag, Flags
  <2>3. CASE view # [page |-> "blank"]
    <3>1. SwitchWaits(view, {}, {}, {})
      BY <2>1, <2>3 DEF SwitchesBusy
    <3>2. view.busyRows = {}
      BY <3>1 DEF SwitchWaits
    <3>3. DOMAIN view = SwitchFields /\ ~view.loading /\ ~view.sending
      BY <3>1 DEF SwitchWaits
    <3> QED BY <3>2, <3>3 DEF SwitchFields, NoFlag, Flags
  <2> QED BY <2>2, <2>3
<1>2. view.page \in {"blank", "coupons", "customers", "couriers", "reviews", "products"}
  BY DEF SwitchesBusy, SwitchWaits, SwitchPages
<1>3. ASSUME NEW i \in Slots, NEW j \in Slots, SameAgain(i, j) PROVE i = j
  <2>1. /\ UnderWay(calls[i]) /\ UnderWay(calls[j]) /\ calls[i].op = calls[j].op
    BY <1>3, SameIsUnderWay
  <2>2. \A k \in {i, j} : <<calls[k].op, calls[k].arg.after>> \in SwitchWork
    BY <2>1, SwitchPurposeKnown
  <2>3. calls[i].op \in {"switch", "create", "archive"} /\ view.page = "coupons"
    BY <1>2, <1>3, <2>2 DEF SameAgain, SwitchWork, ListWork
  <2>4. \A k \in {i, j} : Purpose("change", calls[k].op, calls[k].arg) = "change"
    BY <2>1, <2>2, <2>3, SwitchPurposesOf DEF SwitchWork, ListWork, ChangePurpose
  <2>5. OneOfEach("change", calls, {"change"})
    BY <2>3 DEF SwitchesBusy
  <2> QED BY <1>3, <2>4, <2>5, OnlyOneUnderWay
<1> QED BY <1>1, <1>2, <1>3 DEF QuietMeansIdle, NoFlag, NothingSentTwice

-----------------------------------------------------------------------------
(* The reports.  What they await they know by its slot (DashInv).          *)

ReportOps == {"metrics", "stores", "trend", "overview"}
OverviewFields == {"page", "data", "loading", "refreshing", "error"}

DashBusy ==
    /\ DashInv
    /\ \A i \in Slots : calls[i].op \in ReportOps \cup {"none"}
    /\ view.page = "blank" => view = [page |-> "blank"]
    /\ view.page = "analytics" =>
          /\ DOMAIN view = AnalyticsFields
          /\ view.pending => view.current # None
          /\ view.trend.loading => view.trend.current # None
    /\ view.page \in {"overview", "storeHome"} =>
          /\ DOMAIN view = OverviewFields
          /\ view.loading \/ view.refreshing => \E i \in Slots : calls[i].op = "overview"

LEMMA DashBusyStarts == ASSUME DashboardsInit PROVE DashBusy
BY DashStarts DEF DashboardsInit, NoCalls, NoCall, DashBusy

\* After the effects of a page that may see what it asks for, or waits for nothing.
LEMMA EffectsBusy ==
    ASSUME DashBusy, DashInv', NEW v, DOMAIN v = AnalyticsFields, v.page = "analytics",
           TrendFields \subseteq DOMAIN v.trend, v.pending => ~Unauthorized(v),
           Effects(v, TRUE)
    PROVE  DashBusy'
<1>1. DOMAIN view' = AnalyticsFields /\ view'.page = "analytics"
  BY EffectsShow
<1>2. DOMAIN calls = Slots
  BY DEF DashBusy, DashInv, ReportsAsked
<1>3. \A j \in Slots : calls'[j].op \in ReportOps \cup {"none"}
  BY <1>2, EffectsSend DEF ReportOps, DashBusy
<1>4. view'.pending => view'.current # None
  BY <1>2, EffectsSend
<1>5. view'.trend.loading => view'.trend.current # None
  BY <1>2, EffectsSend
<1> QED BY <1>1, <1>3, <1>4, <1>5 DEF DashBusy

LEMMA SelectionBusy ==
    ASSUME DashBusy, DashInv', OpenAnalytics \/ SelectView \/ SelectStore \/ RefreshAnalytics
    PROVE  DashBusy'
<1>1. CASE OpenAnalytics
  <2>1. PICK role, requested : Effects(AnalyticsMounted(role, requested), TRUE)
    BY <1>1 DEF OpenAnalytics
  <2> DEFINE v == AnalyticsMounted(role, requested)
  <2>2. /\ DOMAIN v = AnalyticsFields /\ v.page = "analytics" /\ ~v.pending
        /\ TrendFields \subseteq DOMAIN v.trend
    BY DEF AnalyticsMounted, AnalyticsFields, NoTrend, TrendFields
  <2> HIDE DEF v
  <2> QED BY <2>1, <2>2, EffectsBusy DEF v
<1>2. ASSUME view.page = "analytics"
      PROVE  DOMAIN view = AnalyticsFields /\ TrendFields \subseteq DOMAIN view.trend
  BY <1>2 DEF DashBusy, DashInv, AnalyticsRight, TrendRight
<1>3. CASE SelectView
  <2>1. PICK requested \in VisibleViews(view.me) :
           Effects([view EXCEPT !.requested = requested, !.trend = NoTrend], TRUE)
    BY <1>3 DEF SelectView
  <2> DEFINE v == [view EXCEPT !.requested = requested, !.trend = NoTrend]
  <2>2. /\ DOMAIN v = AnalyticsFields /\ v.page = "analytics" /\ v.me = view.me
        /\ v.requested = requested /\ TrendFields \subseteq DOMAIN v.trend
    BY <1>2, <1>3 DEF SelectView, AnalyticsFields, NoTrend, TrendFields
  <2> HIDE DEF v
  <2>3. v.me # "admin" => requested = CanonicalView(v.me)
    BY <2>1, <2>2 DEF VisibleViews
  <2>4. ~Unauthorized(v)
    BY <2>2, <2>3 DEF Unauthorized, ActiveView
  <2> QED BY <2>1, <2>2, <2>4, EffectsBusy DEF v
<1>4. CASE SelectStore
  <2>1. PICK s : Effects([view EXCEPT !.store = s], TRUE)
    BY <1>4 DEF SelectStore
  <2> DEFINE v == [view EXCEPT !.store = s]
  <2>2. /\ DOMAIN v = AnalyticsFields /\ v.page = "analytics" /\ v.me = "admin"
        /\ TrendFields \subseteq DOMAIN v.trend
    BY <1>2, <1>4 DEF SelectStore, AnalyticsFields
  <2> HIDE DEF v
  <2>3. ~Unauthorized(v)
    BY <2>2 DEF Unauthorized
  <2> QED BY <2>1, <2>2, <2>3, EffectsBusy DEF v
<1>5. CASE RefreshAnalytics
  BY <1>2, <1>5, EffectsBusy DEF RefreshAnalytics
<1> QED BY <1>1, <1>3, <1>4, <1>5

\* Every step of the dashboards keeps their flags right.
LEMMA DashBusySteps ==
    ASSUME DashBusy, DashboardsNext \/ RequestLost \/ OrphanLost \/ UNCHANGED tab
    PROVE  DashBusy'
<1>1. DashInv' /\ DOMAIN calls = Slots
  BY DashSteps DEF DashBusy, DashInv, ReportsAsked
<1>2. ASSUME view.page = "analytics"
      PROVE  /\ DOMAIN view = AnalyticsFields /\ TrendFields \subseteq DOMAIN view.trend
             /\ view.pending => view.current # None
             /\ view.trend.loading => view.trend.current # None
  BY <1>2 DEF DashBusy, DashInv, AnalyticsRight, TrendRight
<1>3. ASSUME NEW i \in Slots, Finish(i)
      PROVE  \A j \in Slots : calls'[j].op \in ReportOps \cup {"none"}
  BY <1>1, <1>3 DEF Finish, NoCall, DashBusy
<1>4. CASE SelectPeriod
  <2>1. PICK days : /\ Send("trend", [days |-> days])
                    /\ view' = [view EXCEPT !.trend =
                                   TrendStarted(days, @.data, NextSlot(calls))]
    BY <1>4 DEF SelectPeriod
  <2>2. /\ NextSlot(calls) \in Slots
        /\ \A j \in Slots : calls'[j].op \in ReportOps \cup {"none"}
    BY <1>1, <2>1, SendIsFresh DEF DashBusy, ReportOps
  <2>3. view.page = "analytics"
    BY <1>4 DEF SelectPeriod
  <2>4. /\ DOMAIN view' = AnalyticsFields /\ view'.page = "analytics"
        /\ view'.pending = view.pending /\ view'.current = view.current
        /\ view'.trend.current = NextSlot(calls)
    BY <1>2, <2>1, <2>3 DEF AnalyticsFields, TrendStarted
  <2> QED BY <1>1, <1>2, <2>2, <2>3, <2>4, NoneIsNoSlot DEF DashBusy
<1>5. CASE ReloadOverview \/ \E page \in {"overview", "storeHome"} : OpenOverview(page)
  <2>1. PICK arg : Send("overview", arg)
    BY <1>5 DEF ReloadOverview, OpenOverview
  <2>2. /\ NextSlot(calls) \in Slots /\ calls'[NextSlot(calls)].op = "overview"
        /\ \A j \in Slots : calls'[j].op \in ReportOps \cup {"none"}
    BY <1>1, <2>1, SendIsFresh DEF DashBusy, ReportOps
  <2>3. view'.page \in {"overview", "storeHome"} /\ DOMAIN view' = OverviewFields
    BY <1>5 DEF ReloadOverview, OpenOverview, DashBusy, OverviewFields
  <2> QED BY <1>1, <2>2, <2>3 DEF DashBusy
<1>6. ASSUME NEW i \in Slots, MetricsArrive(i) PROVE DashBusy'
  <2>1. view.page = "analytics" /\ calls[i].op = "metrics"
    BY <1>6 DEF MetricsArrive, Returns
  <2> DEFINE v == [view EXCEPT
                     !.snapshot = [key |-> calls[i].arg.key, metrics |-> calls[i].ans],
                     !.current = None, !.pending = FALSE]
  <2>2. /\ DOMAIN v = AnalyticsFields /\ v.page = "analytics" /\ v.trend = view.trend
        /\ ~v.pending
    BY <1>2, <2>1 DEF AnalyticsFields
  <2>3. \/ Finish(i) /\ view' \in {v, view}
        \/ /\ Continue(i, "trend", [days |-> DefaultPeriod])
           /\ view' = [v EXCEPT !.trend = TrendStarted(DefaultPeriod, None, i)]
    BY <1>6 DEF MetricsArrive
  <2> HIDE DEF v
  <2>4. CASE Finish(i) /\ view' \in {v, view}
    BY <1>1, <1>2, <1>3, <2>1, <2>2, <2>4 DEF DashBusy
  <2>5. CASE /\ Continue(i, "trend", [days |-> DefaultPeriod])
             /\ view' = [v EXCEPT !.trend = TrendStarted(DefaultPeriod, None, i)]
    <3>1. /\ DOMAIN view' = AnalyticsFields /\ view'.page = "analytics" /\ ~view'.pending
          /\ view'.trend.current = i
      BY <2>2, <2>5 DEF AnalyticsFields, TrendStarted
    <3>2. \A j \in Slots : calls'[j].op \in ReportOps \cup {"none"}
      BY <1>1, <2>5 DEF Continue, DashBusy, ReportOps
    <3> QED BY <1>1, <3>1, <3>2, NoneIsNoSlot DEF DashBusy
  <2> QED BY <2>3, <2>4, <2>5
<1>7. ASSUME NEW i \in Slots, MetricsThrow(i) \/ StoresSettle(i) PROVE DashBusy'
  <2>1. view.page = "analytics" /\ Finish(i)
    BY <1>7 DEF MetricsThrow, StoresSettle
  <2>2. PICK f, s, sc :
           view' \in {view, [view EXCEPT !.failure = f, !.current = None, !.pending = FALSE],
                      [view EXCEPT !.stores = s, !.storesCurrent = sc]}
    BY <1>7 DEF MetricsThrow, StoresSettle
  <2>3. /\ DOMAIN view' = AnalyticsFields /\ view'.page = "analytics"
        /\ \/ ~view'.pending
           \/ view'.pending = view.pending /\ view'.current = view.current
        /\ view'.trend = view.trend
    BY <1>2, <2>1, <2>2 DEF AnalyticsFields
  <2> QED BY <1>1, <1>2, <1>3, <2>1, <2>3 DEF DashBusy
<1>8. ASSUME NEW i \in Slots, TrendSettles(i) PROVE DashBusy'
  <2>1. view.page = "analytics" /\ Finish(i)
    BY <1>8 DEF TrendSettles
  <2>2. /\ DOMAIN view' = AnalyticsFields /\ view'.page = "analytics"
        /\ view'.pending = view.pending /\ view'.current = view.current
        /\ view'.trend = view.trend \/ ~view'.trend.loading
    <3>1. CASE view.trend.current = i
      <4> DEFINE t == [view.trend EXCEPT
                         !.loading = FALSE, !.current = None,
                         !.failed = Throws(i, "trend"),
                         !.data = IF Returns(i, "trend") THEN calls[i].ans ELSE @]
      <4>1. view' = [view EXCEPT !.trend = t]
        BY <1>2, <1>8, <2>1, <3>1 DEF TrendSettles, IsCurrent, AnalyticsFields
      <4>2. ~t.loading
        BY <1>2, <2>1 DEF TrendFields
      <4> HIDE DEF t
      <4> QED BY <1>2, <2>1, <4>1, <4>2 DEF AnalyticsFields
    <3>2. CASE view.trend.current # i
      <4>1. view' = view
        BY <1>8, <3>2 DEF TrendSettles, IsCurrent
      <4> QED BY <1>2, <2>1, <4>1
    <3> QED BY <3>1, <3>2
  <2> QED BY <1>1, <1>2, <1>3, <2>1, <2>2 DEF DashBusy
<1>9. ASSUME NEW i \in Slots, OverviewSettles(i) PROVE DashBusy'
  <2>1. /\ DOMAIN view' = OverviewFields /\ view'.page \in {"overview", "storeHome"}
        /\ ~view'.loading /\ ~view'.refreshing
    BY <1>9 DEF OverviewSettles, DashBusy, OverviewFields
  <2> QED BY <1>1, <1>3, <1>9, <2>1 DEF OverviewSettles, DashBusy
<1>10. ASSUME UNCHANGED view,
              \A j \in Slots : \/ calls'[j].op = calls[j].op
                               \/ calls[j].phase = "orphan" /\ calls'[j].op = "none"
       PROVE  DashBusy'
  <2>1. \A j \in Slots : calls'[j].op = calls[j].op
    BY <1>10 DEF DashBusy, DashInv, ReportsAsked, ReportAsked
  <2> QED BY <1>1, <1>10, <2>1 DEF DashBusy
<1>11. ASSUME NEW i \in Slots, ReportRead(i) PROVE DashBusy'
  BY <1>1, <1>10, <1>11 DEF ReportRead, Reply
<1>12. CASE RequestLost \/ OrphanLost
  BY <1>1, <1>10, <1>12 DEF RequestLost, OrphanLost, Refuse, Finish, NoCall
<1>13. CASE UNCHANGED tab \/ SalesGoOn
  BY <1>1, <1>13 DEF tab, SalesGoOn, DashBusy
<1> QED BY <1>1, <1>4, <1>5, <1>6, <1>7, <1>8, <1>9, <1>11, <1>12, <1>13, SelectionBusy
        DEF DashboardsNext

\* Reports are only read.
LEMMA DashAtRest ==
    ASSUME area = "dashboards", DashBusy
    PROVE  QuietMeansIdle /\ NothingSentTwice
<1>1. ASSUME calls = NoCalls
      PROVE  NoFlag(view) /\ (view.page = "analytics" => ~view.trend.loading)
  <2>1. \A i \in Slots : calls[i].op = "none"
    BY <1>1 DEF NoCalls, NoCall
  <2>2. CASE view.page = "blank"
    BY <2>2 DEF DashBusy, NoFlag, Flags
  <2>3. CASE view.page = "analytics"
    <3>1. view.current = None /\ view.trend.current = None
      BY <2>1, <2>3 DEF DashBusy, DashInv, AnalyticsRight, AwaitsMetrics, AwaitsTrend
    <3> QED BY <2>3, <3>1 DEF DashBusy, NoFlag, Flags, AnalyticsFields
  <2>4. CASE view.page \in {"overview", "storeHome"}
    BY <2>1, <2>4 DEF DashBusy, NoFlag, Flags, OverviewFields
  <2> QED BY <2>2, <2>3, <2>4 DEF DashBusy, DashInv
<1>2. view.page \in {"blank", "analytics", "overview", "storeHome"}
  BY DEF DashBusy, DashInv
<1>3. ASSUME NEW i \in Slots, NEW j \in Slots, SameAgain(i, j) PROVE FALSE
  BY <1>2, <1>3, SameIsUnderWay DEF DashBusy, ReportOps, SameAgain, UnderWay
<1> QED BY <1>1, <1>2, <1>3 DEF QuietMeansIdle, NoFlag, NothingSentTwice

-----------------------------------------------------------------------------
(* The checkout.                                                           *)

CheckoutFields ==
    {"page", "form", "urlCoupon", "codBlocked", "cart", "applied", "couponBusy",
     "method", "submitting", "submits", "loading"}

\* A form is submitted once at a time.  The request of a form that was left may
\* still be answered, and only answered; it is no form's of the page.
Submissions ==
    \A i \in Slots :
        /\ calls[i].op \in {"none", "loadCart", "price", "checkout", "order"}
        /\ calls[i].op = "checkout" =>
              /\ calls[i].arg.form \in Nat /\ calls[i].arg.form <= server.forms
              /\ calls[i].phase \in {"sent", "failed"} =>
                    view.page = "checkout" /\ calls[i].arg.form = view.form
              /\ (view.page = "checkout" /\ calls[i].arg.form = view.form) =>
                    view.submitting
              /\ \A j \in Slots :
                    (calls[j].op = "checkout" /\ calls[j].arg.form = calls[i].arg.form)
                    => j = i

FormBusy ==
    LET P == Purposes("checkout", calls)
    IN  CASE view.page = "checkout" ->
               /\ DOMAIN view = CheckoutFields /\ view.form \in Nat
               /\ view.form <= server.forms
               /\ view.loading => <<"loadCart", None>> \in P \/ <<"price", "load">> \in P
               /\ view.couponBusy => <<"price", "apply">> \in P
               /\ view.submitting => <<"checkout", view.form>> \in P
          [] view.page = "result" ->
               /\ DOMAIN view = {"page", "form", "order", "state"}
               /\ view.state = "loading" => <<"order", None>> \in P
          [] OTHER -> view = [page |-> "blank"]

CheckoutBusy ==
    /\ SlotsFilled /\ Submissions /\ FormBusy
    /\ DOMAIN server = {"cart", "orders", "forms", "blocked"} /\ server.forms \in Nat

LEMMA CheckoutBusyStarts == ASSUME CheckoutInit PROVE CheckoutBusy
BY QuietPurposes DEF CheckoutInit, CheckoutBusy, Submissions, FormBusy, NoCalls, NoCall

\* No submission is added.
SubmissionsKept ==
    \A i \in Slots :
        /\ calls'[i].op \in {calls[i].op, "none", "loadCart", "price", "order"}
        /\ calls'[i].op = "checkout" =>
              /\ calls[i].op = "checkout" /\ calls'[i].arg = calls[i].arg
              /\ calls'[i].phase \in {"sent", "failed"} =>
                    calls[i].phase \in {"sent", "failed"}

\* A page that is left waits for nothing.
LEMMA OrphanedPurposes ==
    ASSUME NEW a, calls' = Orphaned(calls)
    PROVE  /\ SlotsFilled' /\ Purposes(a, calls') = {}
           /\ \A K : OneOfEach(a, calls', K)
           /\ \A i \in Slots :
                /\ calls'[i].op # "none" =>
                      calls'[i].op = calls[i].op /\ calls'[i].arg = calls[i].arg
                /\ ~UnderWay(calls'[i])
<1>1. SlotsFilled'
  BY DEF Orphaned, SlotsFilled
<1>2. \A i \in Slots :
        /\ calls'[i].op # "none" =>
              calls'[i].op = calls[i].op /\ calls'[i].arg = calls[i].arg
        /\ ~UnderWay(calls'[i])
  BY DEF Orphaned, NoCall, UnderWay
<1> QED BY <1>1, <1>2 DEF Purposes, OneOfEach

LEMMA FinishKeepsSubmissions ==
    ASSUME SlotsFilled, NEW i \in Slots, Finish(i) PROVE SubmissionsKept
BY DEF Finish, NoCall, SlotsFilled, SubmissionsKept

LEMMA AnswerKeepsSubmissions ==
    ASSUME SlotsFilled, NEW i \in Slots, NEW ans, calls[i].phase = "sent",
           Reply(i, ans) \/ Refuse(i)
    PROVE  SubmissionsKept
BY DEF Reply, Refuse, SlotsFilled, SubmissionsKept

LEMMA OtherSendKeepsSubmissions ==
    ASSUME SlotsFilled, NEW op, op \in {"loadCart", "price"}, NEW arg, Send(op, arg)
    PROVE  SubmissionsKept
<1>1. FreeIn(calls) # {} /\ calls' = Sent(calls, op, arg)
  BY SendTakesFree
<1>2. /\ Sent(calls, op, arg)[NextSlot(calls)] = [op |-> op, arg |-> arg, phase |-> "sent"]
      /\ \A j \in Slots \ {NextSlot(calls)} : Sent(calls, op, arg)[j] = calls[j]
  BY <1>1, SentIsThere DEF SlotsFilled
<1> QED BY <1>1, <1>2 DEF SubmissionsKept

\* With no submission added, the submissions are right if the page still shows
\* the same form, or there is none under way.
LEMMA KeptSubmissions ==
    ASSUME Submissions, SubmissionsKept, server.forms \in Nat,
           server'.forms \in Nat /\ server'.forms >= server.forms,
           \/ /\ (view.page = "checkout") = (view'.page = "checkout")
              /\ view.page = "checkout" =>
                    view'.form = view.form /\ (view.submitting => view'.submitting)
           \/ /\ \A i \in Slots : calls'[i].op = "checkout" =>
                    calls'[i].phase \notin {"sent", "failed"}
              /\ view'.page = "checkout" =>
                   \A i \in Slots : calls'[i].op = "checkout" =>
                       calls'[i].arg.form # view'.form
    PROVE  Submissions'
BY DEF Submissions, SubmissionsKept

\* A page that is left has no submission to wait for.
LEMMA LeftSubmissions ==
    ASSUME SlotsFilled, calls' = Orphaned(calls)
    PROVE  SubmissionsKept /\ \A i \in Slots : calls'[i].phase \notin {"sent", "failed"}
BY DEF Orphaned, NoCall, SubmissionsKept

LEMMA CheckoutBusySteps ==
    ASSUME CheckoutBusy, CheckoutNext \/ RequestLost \/ OrphanLost \/ UNCHANGED tab
    PROVE  CheckoutBusy'
<1> DEFINE P == Purposes("checkout", calls)
<1>1. SlotsFilled /\ Submissions /\ server.forms \in Nat
  BY DEF CheckoutBusy
<1>2. ASSUME UNCHANGED server, SubmissionsKept, view'.page = view.page,
             view.page = "checkout" =>
                  view'.form = view.form /\ (view.submitting => view'.submitting)
      PROVE  Submissions'
  BY <1>1, <1>2, KeptSubmissions
<1>3. ASSUME view.page = "checkout"
      PROVE  /\ DOMAIN view = CheckoutFields /\ view.form \in Nat
             /\ view.form <= server.forms
             /\ view.loading => <<"loadCart", None>> \in P \/ <<"price", "load">> \in P
             /\ view.couponBusy => <<"price", "apply">> \in P
             /\ view.submitting => <<"checkout", view.form>> \in P
  BY <1>3 DEF CheckoutBusy, FormBusy
<1>4. CASE OpenCheckout
  <2>1. Begins("checkout", <<"loadCart", None>>)
    <3>1. Purpose("checkout", "loadCart", None) = <<"loadCart", None>>
      BY DEF Purpose, CheckoutPurpose
    <3> QED BY <1>1, <1>4, <3>1, SendBegins DEF OpenCheckout
  <2>2. SubmissionsKept
    BY <1>1, <1>4, OtherSendKeepsSubmissions DEF OpenCheckout
  <2>3. /\ view'.page = "checkout" /\ view'.form = server.forms + 1
        /\ DOMAIN view' = CheckoutFields
        /\ view'.couponBusy = FALSE /\ view'.submitting = FALSE
        /\ DOMAIN server' = DOMAIN server /\ server'.forms = server.forms + 1
    BY <1>4 DEF OpenCheckout, CheckoutBusy, CheckoutFields
  <2>4. Submissions'
    <3>1. \A i \in Slots : calls'[i].op = "checkout" =>
             /\ calls'[i].phase \notin {"sent", "failed"}
             /\ calls'[i].arg.form # view'.form
      BY <1>1, <1>4, <2>2, <2>3 DEF OpenCheckout, SubmissionsKept, Submissions
    <3> QED BY <1>1, <2>2, <2>3, <3>1, KeptSubmissions
  <2> QED BY <1>1, <2>1, <2>3, <2>4 DEF CheckoutBusy, FormBusy, Begins
<1>5. CASE ApplyCodeAtCheckout
  <2>1. PICK arg : Send("price", arg) /\ arg.by = "apply"
    BY <1>5 DEF ApplyCodeAtCheckout
  <2>2. Purpose("checkout", "price", arg) = <<"price", "apply">>
    BY <2>1 DEF Purpose, CheckoutPurpose
  <2>3. Begins("checkout", <<"price", "apply">>) /\ SubmissionsKept
    BY <1>1, <2>1, <2>2, SendBegins, OtherSendKeepsSubmissions
  <2>4. /\ view.page = "checkout" /\ view' = [view EXCEPT !.couponBusy = TRUE]
        /\ UNCHANGED server
    BY <1>5 DEF ApplyCodeAtCheckout, FormShown
  <2>5. Submissions'
    BY <1>2, <1>3, <2>3, <2>4 DEF CheckoutFields
  <2> QED BY <1>3, <2>3, <2>4, <2>5 DEF CheckoutBusy, FormBusy, CheckoutFields, Begins
<1>6. CASE ChooseMethod
  <2>1. SamePurposes("checkout")
    BY <1>1, <1>6, RestKeepsPurpose DEF ChooseMethod
  <2>2. PICK method : view' = [view EXCEPT !.method = method]
    BY <1>6 DEF ChooseMethod
  <2>3. Submissions'
    BY <1>2, <1>3, <1>6, <2>2 DEF ChooseMethod, FormShown, CheckoutFields, SubmissionsKept
  <2> QED BY <1>3, <1>6, <2>1, <2>2, <2>3 DEF ChooseMethod, FormShown, CheckoutBusy, FormBusy,
         CheckoutFields, SamePurposes
<1>7. CASE SubmitOrder
  <2> DEFINE arg == [form |-> view.form, key |-> KeyOfForm(view), method |-> view.method]
  <2>1. Send("checkout", arg) /\ arg.form = view.form
    BY <1>7 DEF SubmitOrder
  <2>2. /\ view.page = "checkout" /\ ~view.submitting /\ UNCHANGED server
        /\ view' = [view EXCEPT !.submitting = TRUE, !.submits = @ + 1]
    BY <1>7 DEF SubmitOrder, FormShown
  <2> HIDE DEF arg
  <2>3. Purpose("checkout", "checkout", arg) = <<"checkout", view.form>>
    BY <2>1 DEF Purpose, CheckoutPurpose
  <2>4. Begins("checkout", <<"checkout", view.form>>)
    BY <1>1, <2>1, <2>3, SendBegins
  <2>5. /\ DOMAIN view' = CheckoutFields /\ view'.page = "checkout"
        /\ view'.form = view.form /\ view'.submitting
        /\ view'.loading = view.loading /\ view'.couponBusy = view.couponBusy
    BY <1>3, <2>2 DEF CheckoutFields
  <2>6. Submissions'
    <3>1. FreeIn(calls) # {} /\ calls' = Sent(calls, "checkout", arg)
      BY <2>1, SendTakesFree
    <3>2. /\ calls'[NextSlot(calls)] = [op |-> "checkout", arg |-> arg, phase |-> "sent"]
          /\ \A j \in Slots \ {NextSlot(calls)} : calls'[j] = calls[j]
      BY <1>1, <3>1, SentIsThere DEF SlotsFilled
    <3>3. \A j \in Slots : calls[j].op = "checkout" => calls[j].arg.form # view.form
      BY <1>1, <2>2 DEF Submissions
    <3> QED BY <1>1, <1>3, <2>1, <2>2, <2>5, <3>2, <3>3 DEF Submissions
  <2> QED BY <1>3, <2>2, <2>4, <2>5, <2>6 DEF CheckoutBusy, FormBusy, Begins
<1>8. CASE LeaveCheckout
  <2>1. Submissions'
    <3>1. \A i \in Slots : calls'[i].op = "checkout" =>
             calls'[i].phase \notin {"sent", "failed"}
      BY <1>1, <1>8, LeftSubmissions DEF LeaveCheckout
    <3> QED BY <1>1, <1>8, <3>1, LeftSubmissions, KeptSubmissions DEF LeaveCheckout
  <2> QED BY <1>8, <2>1, OrphanedPurposes DEF LeaveCheckout, CheckoutBusy, FormBusy
<1>9. ASSUME NEW i \in Slots, view.page = "checkout", Returns(i, "loadCart") \/ Throws(i, "loadCart"),
             UNCHANGED server,
             DOMAIN view' = CheckoutFields, view'.page = "checkout",
             view'.form = view.form, view'.submitting = view.submitting,
             view'.couponBusy = view.couponBusy,
             \/ Finish(i) /\ ~view'.loading
             \/ \E arg : Continue(i, "price", arg) /\ arg.by = "load"
      PROVE  CheckoutBusy'
  <2>1. Purpose("checkout", calls[i].op, calls[i].arg) = <<"loadCart", None>>
    BY <1>9 DEF Returns, Throws, Purpose, CheckoutPurpose
  <2>2. UnderWay(calls[i])
    BY <1>9 DEF Returns, Throws, UnderWay
  <2>3. CASE Finish(i) /\ ~view'.loading
    <3>1. Ends("checkout", <<"loadCart", None>>)
      BY <1>1, <2>1, <2>2, <2>3, FinishEnds
    <3>2. Submissions'
      BY <1>1, <1>2, <1>9, <2>3, FinishKeepsSubmissions
    <3> QED BY <1>3, <1>9, <2>3, <3>1, <3>2 DEF CheckoutBusy, FormBusy, Ends
  <2>4. CASE \E arg : Continue(i, "price", arg) /\ arg.by = "load"
    <3>1. PICK arg : Continue(i, "price", arg) /\ arg.by = "load"
      BY <2>4
    <3>2. Purpose("checkout", "price", arg) = <<"price", "load">>
      BY <3>1 DEF Purpose, CheckoutPurpose
    <3>3. Turns("checkout", <<"loadCart", None>>, <<"price", "load">>)
      BY <1>1, <2>1, <2>2, <3>1, <3>2, ContinueTurns
    <3>4. SubmissionsKept
      BY <1>1, <3>1 DEF Continue, SlotsFilled, SubmissionsKept
    <3>5. Submissions'
      BY <1>2, <1>9, <3>4
    <3> QED BY <1>3, <1>9, <3>3, <3>5 DEF CheckoutBusy, FormBusy, Turns
  <2> QED BY <1>9, <2>3, <2>4
<1>10. ASSUME NEW i \in Slots, CheckoutCartLoads(i) PROVE CheckoutBusy'
  <2>1. /\ view.page = "checkout" /\ UNCHANGED server
        /\ Returns(i, "loadCart") \/ Throws(i, "loadCart")
    BY <1>10 DEF CheckoutCartLoads
  <2>2. /\ DOMAIN view' = CheckoutFields /\ view'.page = "checkout"
        /\ view'.form = view.form /\ view'.submitting = view.submitting
        /\ view'.couponBusy = view.couponBusy
    BY <1>3, <1>10, <2>1 DEF CheckoutCartLoads, CheckoutFields
  <2>3. \/ Finish(i) /\ ~view'.loading
        \/ \E arg : Continue(i, "price", arg) /\ arg.by = "load"
    <3>1. CASE Continue(i, "price", [by |-> "load", code |-> view.urlCoupon])
      BY <3>1
    <3>2. CASE Finish(i) /\ view' = [view EXCEPT !.loading = FALSE]
      BY <1>3, <2>1, <3>2 DEF CheckoutFields
    <3>3. CASE Finish(i) /\ view' = [view EXCEPT !.cart = calls[i].ans, !.loading = FALSE]
      BY <1>3, <2>1, <3>3 DEF CheckoutFields
    <3> QED BY <1>10, <3>1, <3>2, <3>3 DEF CheckoutCartLoads
  <2> QED BY <1>9, <2>1, <2>2, <2>3
<1>11. ASSUME NEW i \in Slots, view.page = "checkout", Finish(i), NEW p,
              p \in {<<"price", "load">>, <<"price", "apply">>, <<"checkout", view.form>>},
              UnderWay(calls[i]), Purpose("checkout", calls[i].op, calls[i].arg) = p,
              UNCHANGED server,
              DOMAIN view' = CheckoutFields, view'.page = "checkout",
              view'.form = view.form,
              view'.loading => view.loading /\ p # <<"price", "load">>,
              view'.couponBusy => view.couponBusy /\ p # <<"price", "apply">>,
              view'.submitting => view.submitting /\ p # <<"checkout", view.form>>,
              Submissions'
       PROVE  CheckoutBusy'
  <2>1. Ends("checkout", p)
    BY <1>1, <1>11, FinishEnds
  <2>2. p # <<"loadCart", None>>
    BY <1>11
  <2> QED BY <1>3, <1>11, <2>1, <2>2 DEF CheckoutBusy, FormBusy, Ends
<1>12. ASSUME NEW i \in Slots, LoadQuoteSettles(i) PROVE CheckoutBusy'
  <2>1. /\ view.page = "checkout" /\ UNCHANGED server /\ Finish(i) /\ UnderWay(calls[i])
        /\ Purpose("checkout", calls[i].op, calls[i].arg) = <<"price", "load">>
    BY <1>12 DEF LoadQuoteSettles, Returns, Throws, UnderWay, Purpose, CheckoutPurpose
  <2>2. /\ DOMAIN view' = CheckoutFields /\ view'.page = "checkout"
        /\ view'.form = view.form /\ view'.submitting = view.submitting
        /\ view'.couponBusy = view.couponBusy /\ ~view'.loading
    BY <1>3, <1>12, <2>1 DEF LoadQuoteSettles, CheckoutFields
  <2>3. Submissions'
    BY <1>1, <1>2, <2>1, <2>2, FinishKeepsSubmissions
  <2> QED BY <1>11, <2>1, <2>2, <2>3
<1>13. ASSUME NEW i \in Slots, CodeAtCheckoutSettles(i) PROVE CheckoutBusy'
  <2>1. /\ view.page = "checkout" /\ UNCHANGED server /\ Finish(i) /\ UnderWay(calls[i])
        /\ Purpose("checkout", calls[i].op, calls[i].arg) = <<"price", "apply">>
    BY <1>13 DEF CodeAtCheckoutSettles, Returns, Throws, UnderWay, Purpose, CheckoutPurpose
  <2>2. /\ DOMAIN view' = CheckoutFields /\ view'.page = "checkout"
        /\ view'.form = view.form /\ view'.submitting = view.submitting
        /\ ~view'.couponBusy /\ view'.loading = view.loading
    BY <1>3, <1>13, <2>1 DEF CodeAtCheckoutSettles, CheckoutFields
  <2>3. Submissions'
    BY <1>1, <1>2, <2>1, <2>2, FinishKeepsSubmissions
  <2> QED BY <1>11, <2>1, <2>2, <2>3
<1>14. ASSUME NEW i \in Slots, OrderFails(i) PROVE CheckoutBusy'
  <2>1. /\ view.page = "checkout" /\ UNCHANGED server /\ Finish(i) /\ UnderWay(calls[i])
        /\ calls[i].op = "checkout" /\ calls[i].arg.form = view.form
    BY <1>1, <1>14 DEF OrderFails, Throws, UnderWay, Submissions
  <2>2. Purpose("checkout", calls[i].op, calls[i].arg) = <<"checkout", view.form>>
    BY <2>1 DEF Purpose, CheckoutPurpose
  <2>3. /\ DOMAIN view' = CheckoutFields /\ view'.page = "checkout"
        /\ view'.form = view.form /\ ~view'.submitting
        /\ view'.couponBusy = view.couponBusy /\ view'.loading = view.loading
    BY <1>3, <1>14, <2>1 DEF OrderFails, CheckoutFields
  <2>4. Submissions'
    <3>1. /\ calls'[i].op = "none"
          /\ \A j \in Slots \ {i} : calls'[j] = calls[j]
      BY <1>1, <2>1 DEF Finish, NoCall, SlotsFilled
    <3>2. \A j \in Slots \ {i} :
            calls[j].op = "checkout" => calls[j].arg.form # view.form
      BY <1>1, <2>1 DEF Submissions
    <3> QED BY <1>1, <2>1, <2>3, <3>1, <3>2 DEF Submissions
  <2> QED BY <1>11, <2>1, <2>2, <2>3, <2>4
<1>15. ASSUME NEW i \in Slots, OrderPlaced(i) PROVE CheckoutBusy'
  <2>1. /\ \A j \in Slots \ {i} : calls'[j] = Orphaned(calls)[j]
        /\ calls'[i].op = "order" /\ UnderWay(calls'[i]) /\ SlotsFilled'
    BY <1>15 DEF OrderPlaced, Orphaned, SlotsFilled, UnderWay
  <2>2. <<"order", None>> \in Purposes("checkout", calls')
    <3>1. Purpose("checkout", calls'[i].op, calls'[i].arg) = <<"order", None>>
      BY <2>1 DEF Purpose, CheckoutPurpose
    <3> QED BY <2>1, <3>1 DEF Purposes
  <2>3. SubmissionsKept /\ \A j \in Slots : calls'[j].op = "checkout" =>
                             calls'[j].phase \notin {"sent", "failed"}
    <3>1. ASSUME NEW j \in Slots \ {i}
          PROVE  \/ calls'[j].op = "none"
                 \/ /\ calls'[j].op = calls[j].op /\ calls'[j].arg = calls[j].arg
                    /\ calls'[j].phase = "orphan"
      <4>1. CASE calls[j].phase = "sent"
        <5>1. calls'[j] = [op |-> calls[j].op, arg |-> calls[j].arg, phase |-> "orphan"]
          BY <2>1, <4>1 DEF Orphaned
        <5> QED BY <5>1
      <4>2. CASE calls[j].phase # "sent"
        <5>1. calls'[j] = NoCall
          BY <2>1, <4>2 DEF Orphaned
        <5> QED BY <5>1 DEF NoCall
      <4> QED BY <4>1, <4>2
    <3> QED BY <2>1, <3>1 DEF SubmissionsKept
  <2>4. /\ view'.page = "result" /\ DOMAIN view' = {"page", "form", "order", "state"}
        /\ UNCHANGED server
    BY <1>15 DEF OrderPlaced
  <2>5. Submissions'
    BY <1>1, <2>3, <2>4, KeptSubmissions
  <2> QED BY <2>1, <2>2, <2>4, <2>5 DEF CheckoutBusy, FormBusy
<1>16. ASSUME NEW i \in Slots, ResultSettles(i) PROVE CheckoutBusy'
  <2>1. /\ view.page = "result" /\ DOMAIN view = {"page", "form", "order", "state"}
        /\ Finish(i) /\ UNCHANGED server
    BY <1>16 DEF ResultSettles, CheckoutBusy, FormBusy
  <2>2. /\ view'.page = "result" /\ DOMAIN view' = {"page", "form", "order", "state"}
        /\ view'.state \in {"shown", "failed"}
    BY <1>16, <2>1 DEF ResultSettles
  <2>3. SlotsFilled'
    BY <1>1, <2>1 DEF Finish, SlotsFilled
  <2>4. Submissions'
    BY <1>1, <1>2, <2>1, <2>2, FinishKeepsSubmissions
  <2> QED BY <2>1, <2>2, <2>3, <2>4 DEF CheckoutBusy, FormBusy
\* A change on the API's side.
<1>17. ASSUME UNCHANGED view, DOMAIN server' = DOMAIN server, server'.forms = server.forms,
              SlotsFilled', SubmissionsKept,
              P \subseteq Purposes("checkout", calls')
       PROVE  CheckoutBusy'
  <2>1. Submissions'
    BY <1>1, <1>17, KeptSubmissions
  <2> QED BY <1>17, <2>1 DEF CheckoutBusy, FormBusy
<1>18. ASSUME NEW i \in Slots, NEW ans, Acted(i, ans), UNCHANGED view,
              DOMAIN server' = DOMAIN server, server'.forms = server.forms
       PROVE  CheckoutBusy'
  <2>1. SamePurposes("checkout")
    BY <1>1, <1>18, ActedKeepsPurpose
  <2>2. SubmissionsKept
    BY <1>1, <1>18, AnswerKeepsSubmissions, FinishKeepsSubmissions DEF Acted
  <2> QED BY <1>17, <1>18, <2>1, <2>2 DEF SamePurposes
<1>19. ASSUME NEW i \in Slots, NEW ans, calls[i].phase = "orphan", Reply(i, ans),
              UNCHANGED view,
              DOMAIN server' = DOMAIN server, server'.forms = server.forms
       PROVE  CheckoutBusy'
  <2>1. /\ calls'[i].op = calls[i].op /\ calls'[i].arg = calls[i].arg
        /\ calls'[i].phase = "answered"
        /\ SlotsFilled' /\ \A j \in Slots \ {i} : calls'[j] = calls[j]
    BY <1>1, <1>19 DEF Reply, SlotsFilled
  <2>2. SubmissionsKept
    BY <2>1 DEF SubmissionsKept
  <2>3. P \subseteq Purposes("checkout", calls')
    BY <1>19, <2>1 DEF Purposes, UnderWay
  <2> QED BY <1>17, <1>19, <2>1, <2>2, <2>3
<1>20. ASSUME NEW i \in Slots, CheckoutServed(i) PROVE CheckoutBusy'
  <2>1. PICK ans : ActedLate(i, ans)
    BY <1>20 DEF CheckoutServed
  <2>2. /\ UNCHANGED view /\ DOMAIN server' = DOMAIN server
        /\ server'.forms = server.forms
    BY <1>20 DEF CheckoutServed, CheckoutBusy
  <2> QED BY <1>18, <1>19, <2>1, <2>2 DEF ActedLate
<1>21. ASSUME NEW i \in Slots, CheckoutRead(i) PROVE CheckoutBusy'
  BY <1>18, <1>21 DEF CheckoutRead, Asked, Acted
<1>22. CASE RequestLost \/ OrphanLost
  <2>1. SamePurposes("checkout")
    BY <1>1, <1>22, LossKeepsPurpose
  <2>2. SubmissionsKept
    BY <1>1, <1>22, AnswerKeepsSubmissions, FinishKeepsSubmissions DEF RequestLost, OrphanLost
  <2> QED BY <1>17, <1>22, <2>1, <2>2 DEF SamePurposes, RequestLost, OrphanLost
<1>23. CASE UNCHANGED tab \/ CartElsewhere \/ BlockElsewhere
  <2>1. /\ UNCHANGED <<view, calls>>
        /\ DOMAIN server' = DOMAIN server /\ server'.forms = server.forms
    BY <1>23 DEF tab, CartElsewhere, BlockElsewhere, CheckoutBusy
  <2>2. SlotsFilled' /\ SubmissionsKept
    BY <1>1, <2>1 DEF SlotsFilled, SubmissionsKept
  <2> QED BY <1>17, <2>1, <2>2
<1> QED BY <1>4, <1>5, <1>6, <1>7, <1>8, <1>10, <1>12, <1>13, <1>14, <1>15, <1>16,
        <1>20, <1>21, <1>22, <1>23 DEF CheckoutNext

\* A form whose answer was lost can be submitted again, but not before that.
LEMMA CheckoutAtRest ==
    ASSUME area = "checkout", CheckoutBusy
    PROVE  QuietMeansIdle /\ NothingSentTwice
<1>1. view.page \in {"checkout", "result", "blank"}
  BY DEF CheckoutBusy, FormBusy
<1>2. ASSUME calls = NoCalls
      PROVE  NoFlag(view) /\ (view.page = "result" => view.state # "loading")
  <2>1. Purposes("checkout", calls) = {}
    BY <1>2, QuietPurposes
  <2> QED BY <1>1, <2>1 DEF CheckoutBusy, FormBusy, NoFlag, Flags, CheckoutFields
<1>3. ASSUME NEW i \in Slots, NEW j \in Slots, i # j, SameAgain(i, j) PROVE FALSE
  BY <1>1, <1>3 DEF SameAgain, CheckoutBusy, Submissions
<1> QED BY <1>1, <1>2, <1>3 DEF QuietMeansIdle, NoFlag, NothingSentTwice

-----------------------------------------------------------------------------
(* The customer's orders.                                                  *)

\* What a page of the customer waits for, and what it asks for once at a time.
Anywhere == {<<"mount", None>>, <<"form", None>>}
OfOrder == {<<"cancel", None>>, <<"complete", None>>} \cup {<<"review", l>> : l \in Lines}
OfReturn == {<<"bar", None>>}

DeedOf == [cancel |-> "cancel", complete |-> "complete", review |-> "review",
           form |-> "return", bar |-> "cancelReturn"]

OrderFields ==
    {"page", "row", "cancelling", "completing", "reviewing", "form", "acts"}

ReturnFields == {"page", "row", "loading", "asking", "cancelling", "acts"}

\* A request is what a handler of the customer's pages sends.
MyAsking(c) ==
    /\ c.op \in {"none", "act", "rows"}
    /\ c.op # "none" => c.arg.for \in DOMAIN DeedOf \cup {"mount"}
    /\ (c.op # "none" /\ c.arg.for = "review") => c.arg.op.what \in Lines
    /\ c.op = "act" => c.arg.for # "mount" /\ c.arg.op.do = DeedOf[c.arg.for]
    /\ c.op = "rows" => c.arg.for # "bar"

MyAskings == \A i \in Slots : MyAsking(calls[i])

\* The flags of the page of an order, while P is asked for.
OrderFlags(v, P) ==
    /\ v.page = "order" /\ DOMAIN v = OrderFields /\ DOMAIN v.reviewing = Lines
    /\ P \subseteq Anywhere \cup OfOrder
    /\ v.cancelling => <<"cancel", None>> \in P
    /\ <<"cancel", None>> \in P => v.cancelling
    /\ v.completing => <<"complete", None>> \in P
    /\ <<"complete", None>> \in P => v.completing
    /\ \A l \in Lines : /\ v.reviewing[l] => <<"review", l>> \in P
                        /\ <<"review", l>> \in P => v.reviewing[l]
    /\ v.form # None =>
          /\ DOMAIN v.form = {"goods", "submitting"}
          /\ v.form.submitting => <<"form", None>> \in P

\* The flags of the other pages.
OtherFlags(v, P) ==
    CASE v.page = "orders" ->
           /\ DOMAIN v = {"page", "row", "loading", "acts"} /\ P \subseteq Anywhere
           /\ v.loading => <<"mount", None>> \in P
      [] v.page = "return" ->
           /\ DOMAIN v = ReturnFields /\ P \subseteq Anywhere \cup OfReturn
           /\ v.loading => <<"mount", None>> \in P
           /\ v.cancelling => <<"bar", None>> \in P
           /\ <<"bar", None>> \in P => v.cancelling
      [] OTHER ->
           v.page = "blank" /\ DOMAIN v = {"page", "acts"} /\ P \subseteq Anywhere

MyBusy ==
    LET P == Purposes("myOrders", calls)
    IN  /\ SlotsFilled /\ MyAskings
        /\ OneOfEach("myOrders", calls, OfOrder \cup OfReturn)
        /\ IF view.page = "order" THEN OrderFlags(view, P) ELSE OtherFlags(view, P)

LEMMA MyBusyStarts == ASSUME MyOrdersInit PROVE MyBusy
<1>1. /\ SlotsFilled /\ Purposes("myOrders", calls) = {}
      /\ OneOfEach("myOrders", calls, OfOrder \cup OfReturn)
  BY QuietPurposes, QuietIsOneOfEach DEF MyOrdersInit
<1>2. MyAskings
  BY DEF MyOrdersInit, NoCalls, NoCall, MyAskings, MyAsking
<1> QED BY <1>1, <1>2 DEF MyOrdersInit, MyBusy, OtherFlags

LEMMA MyPurpose ==
    ASSUME NEW op, op \in {"act", "rows"}, NEW arg
    PROVE  Purpose("myOrders", op, arg) =
               IF arg.for = "review" THEN <<"review", arg.op.what>> ELSE <<arg.for, None>>
BY DEF Purpose, OrderPurpose

\* Of the requests, none is added that a page does not make.
MyAskingsNext ==
    \A j \in Slots :
        \/ calls'[j].op = "none"
        \/ calls'[j].op = calls[j].op /\ calls'[j].arg = calls[j].arg
        \/ MyAsking(calls'[j])

LEMMA MyAskingsKept == ASSUME MyAskings, MyAskingsNext PROVE MyAskings'
BY DEF MyAskings, MyAskingsNext, MyAsking

LEMMA FinishKeepsMine ==
    ASSUME SlotsFilled, NEW i \in Slots, Finish(i) PROVE MyAskingsNext
BY DEF Finish, NoCall, SlotsFilled, MyAskingsNext

LEMMA AnswerKeepsMine ==
    ASSUME SlotsFilled, NEW i \in Slots, NEW ans, Reply(i, ans) \/ Refuse(i)
    PROVE  MyAskingsNext
BY DEF Reply, Refuse, SlotsFilled, MyAskingsNext

LEMMA SendKeepsMine ==
    ASSUME SlotsFilled, NEW op, op \in {"act", "rows"}, NEW arg, Send(op, arg),
           arg.for \in DOMAIN DeedOf \cup {"mount"},
           arg.for = "review" => arg.op.what \in Lines,
           op = "act" => arg.for # "mount" /\ arg.op.do = DeedOf[arg.for],
           op = "rows" => arg.for # "bar"
    PROVE  MyAskingsNext
<1>1. FreeIn(calls) # {} /\ calls' = Sent(calls, op, arg)
  BY SendTakesFree
<1>2. /\ Sent(calls, op, arg)[NextSlot(calls)] =
             [op |-> op, arg |-> arg, phase |-> "sent"]
      /\ \A j \in Slots \ {NextSlot(calls)} : Sent(calls, op, arg)[j] = calls[j]
  BY <1>1, SentIsThere DEF SlotsFilled
<1>3. MyAsking(Sent(calls, op, arg)[NextSlot(calls)])
  BY <1>2 DEF MyAsking
<1> QED BY <1>1, <1>2, <1>3 DEF MyAskingsNext

\* The only request of a page that has just been mounted.
LEMMA LoneRequest ==
    ASSUME NEW a, NEW i \in Slots, UnderWay(calls'[i]),
           \A j \in Slots \ {i} : ~UnderWay(calls'[j]),
           NEW p, Purpose(a, calls'[i].op, calls'[i].arg) = p
    PROVE  Purposes(a, calls') = {p} /\ \A K : OneOfEach(a, calls', K)
BY DEF Purposes, OneOfEach

\* The page of a return or of an order is mounted.
LEMMA MyMounts ==
    ASSUME SlotsFilled,
           \/ /\ calls' = Sent(Orphaned(calls), "rows", [for |-> "mount"])
              /\ \E i \in Slots : Orphaned(calls)[i].op = "none"
           \/ \E i \in Slots :
                 calls' = [Orphaned(calls) EXCEPT ![i] =
                             [op |-> "rows", arg |-> [for |-> "mount"], phase |-> "sent"]]
    PROVE  /\ SlotsFilled' /\ MyAskingsNext
           /\ Purposes("myOrders", calls') = {<<"mount", None>>}
           /\ OneOfEach("myOrders", calls', OfOrder \cup OfReturn)
<1> DEFINE cs == Orphaned(calls)
           c == [op |-> "rows", arg |-> [for |-> "mount"], phase |-> "sent"]
<1>1. /\ DOMAIN cs = Slots
      /\ \A j \in Slots : ~UnderWay(cs[j]) /\ (\/ cs[j].op = "none"
                                              \/ /\ cs[j].op = calls[j].op
                                                 /\ cs[j].arg = calls[j].arg)
  BY DEF Orphaned, NoCall, UnderWay
<1>2. c.op = "rows" /\ c.arg.for = "mount" /\ UnderWay(c)
  BY DEF UnderWay
<1>3. Purpose("myOrders", c.op, c.arg) = <<"mount", None>>
  BY <1>2, MyPurpose
<1>4. MyAsking(c)
  BY <1>2 DEF MyAsking
<1>5. PICK i \in Slots : calls' = [cs EXCEPT ![i] = c]
  <2>1. CASE calls' = Sent(cs, "rows", [for |-> "mount"]) /\ \E i \in Slots : cs[i].op = "none"
    <3>1. NextSlot(cs) \in Slots
      BY <2>1, NextSlotFree DEF FreeIn
    <3> QED BY <2>1, <3>1 DEF Sent
  <2> QED BY <2>1
<1> HIDE DEF c, cs
<1>6. calls'[i] = c /\ (\A j \in Slots \ {i} : calls'[j] = cs[j]) /\ SlotsFilled'
  BY <1>1, <1>5 DEF SlotsFilled
<1>7. MyAskingsNext
  BY <1>1, <1>4, <1>6 DEF MyAskingsNext
<1>8. UnderWay(calls'[i]) /\ \A j \in Slots \ {i} : ~UnderWay(calls'[j])
  BY <1>1, <1>2, <1>6
<1>9. Purpose("myOrders", calls'[i].op, calls'[i].arg) = <<"mount", None>>
  BY <1>3, <1>6
<1> QED BY <1>6, <1>7, <1>8, <1>9, LoneRequest

\* The answer to a request whose page was left makes its handler go on.
LEMMA RevivalBegins ==
    ASSUME SlotsFilled, NEW a, NEW i \in Slots, calls[i].phase = "orphan",
           calls[i].op # "none", NEW ans, Reply(i, ans),
           NEW p, Purpose(a, calls[i].op, calls[i].arg) = p
    PROVE  Begins(a, p)
<1>1. /\ calls'[i].op = calls[i].op /\ calls'[i].arg = calls[i].arg
      /\ ~UnderWay(calls[i]) /\ UnderWay(calls'[i])
      /\ \A j \in Slots \ {i} : calls'[j] = calls[j]
  BY DEF Reply, SlotsFilled, UnderWay
<1>2. SlotsFilled'
  BY DEF Reply, SlotsFilled
<1>3. Purposes(a, calls') = Purposes(a, calls) \cup {p}
  BY <1>1 DEF Purposes
<1>4. ASSUME NEW K, OneOfEach(a, calls, K), p \notin K \cap Purposes(a, calls)
      PROVE  OneOfEach(a, calls', K)
  BY <1>1, <1>4 DEF Purposes, OneOfEach
<1> QED BY <1>2, <1>3, <1>4 DEF Begins

\* The `finally` of a handler takes back the flag that the handler has set.
LEMMA SettledFlags ==
    ASSUME NEW v, NEW P, OrderFlags(v, P), NEW a,
           a.for \in {"mount", "cancel", "complete", "review", "form"},
           a.for = "review" => a.op.what \in Lines,
           NEW p, p = (IF a.for = "review" THEN <<"review", a.op.what>> ELSE <<a.for, None>>),
           NEW Q, Q \subseteq P, P \subseteq Q \cup {p}, p \in OfOrder => p \notin Q
    PROVE  OrderFlags(Settled(v, a), Q)
<1>1. CASE a.for = "mount"
  BY <1>1 DEF Settled, OrderFlags
<1>2. CASE a.for = "cancel"
  <2>1. Settled(v, a) = [v EXCEPT !.cancelling = FALSE] /\ p = <<"cancel", None>>
    BY <1>2 DEF Settled
  <2> QED BY <2>1 DEF OrderFlags, OrderFields, OfOrder
<1>3. CASE a.for = "complete"
  <2>1. Settled(v, a) = [v EXCEPT !.completing = FALSE] /\ p = <<"complete", None>>
    BY <1>3 DEF Settled
  <2> QED BY <2>1 DEF OrderFlags, OrderFields, OfOrder
<1>4. CASE a.for = "review"
  <2>1. /\ Settled(v, a) = [v EXCEPT !.reviewing[a.op.what] = FALSE]
        /\ p = <<"review", a.op.what>>
    BY <1>4 DEF Settled
  <2> QED BY <1>4, <2>1 DEF OrderFlags, OrderFields, OfOrder
<1>5. CASE a.for = "form"
  <2>1. /\ Settled(v, a) = [v EXCEPT !.form = IF @ = None THEN None
                                              ELSE [@ EXCEPT !.submitting = FALSE]]
        /\ p = <<"form", None>>
    BY <1>5 DEF Settled
  <2> DEFINE w == Settled(v, a)
  <2>2. /\ DOMAIN w = OrderFields /\ w.page = "order"
        /\ w.cancelling = v.cancelling /\ w.completing = v.completing
        /\ w.reviewing = v.reviewing
        /\ v.form = None => w.form = None
        /\ v.form # None => w.form = [v.form EXCEPT !.submitting = FALSE]
    BY <2>1 DEF OrderFlags, OrderFields
  <2>3. w.form # None => DOMAIN w.form = {"goods", "submitting"} /\ ~w.form.submitting
    BY <2>2 DEF OrderFlags
  <2> HIDE DEF w
  <2>4. OrderFlags(w, Q)
    BY <2>1, <2>2, <2>3 DEF OrderFlags
  <2> QED BY <2>4 DEF w
<1> QED BY <1>1, <1>2, <1>3, <1>4, <1>5

\* The customer asks for a change of the order.
LEMMA MyAsksBegin ==
    ASSUME MyBusy, NEW do, NEW what, NEW for, for \in DOMAIN DeedOf, do = DeedOf[for],
           for = "review" => what \in Lines,
           Send("act", Act(do, what, for))
    PROVE  /\ MyAskings'
           /\ Begins("myOrders", IF for = "review" THEN <<"review", what>>
                                 ELSE <<for, None>>)
<1> DEFINE arg == Act(do, what, for)
<1>1. /\ Send("act", arg) /\ arg.for = for /\ arg.op.do = DeedOf[arg.for]
      /\ arg.for = "review" => arg.op.what = what
      /\ for # "mount"
  BY DEF Act, Op, DeedOf
<1> HIDE DEF arg
<1>2. Purpose("myOrders", "act", arg) =
          IF for = "review" THEN <<"review", what>> ELSE <<for, None>>
  BY <1>1, MyPurpose
<1>3. MyAskingsNext
  BY <1>1, SendKeepsMine DEF MyBusy
<1> QED BY <1>1, <1>2, <1>3, SendBegins, MyAskingsKept DEF MyBusy

LEMMA MyBusyAsks ==
    ASSUME MyBusy,
           \/ CancelMyOrder \/ CompleteMyOrder \/ SubmitReview \/ SubmitReturn
           \/ CancelReturnRequest
    PROVE  MyBusy'
<1> DEFINE P == Purposes("myOrders", calls)
<1>1. ASSUME NEW p, Begins("myOrders", p), p \in OfOrder \cup OfReturn => p \notin P,
             MyAskings',
             \/ view'.page = "order" /\ OrderFlags(view', P \cup {p})
             \/ view'.page # "order" /\ OtherFlags(view', P \cup {p})
      PROVE  MyBusy'
  BY <1>1 DEF Begins, MyBusy
<1>2. CASE CancelMyOrder
  <2>1. MyAskings' /\ Begins("myOrders", <<"cancel", None>>)
    BY <1>2, MyAsksBegin DEF CancelMyOrder, DeedOf
  <2>2. view.page = "order" /\ OrderFlags(view, P) /\ ~view.cancelling
    BY <1>2 DEF CancelMyOrder, May, MyBusy
  <2>3. /\ view'.page = "order" /\ DOMAIN view' = OrderFields /\ view'.cancelling = TRUE
        /\ \A f \in {"completing", "reviewing", "form"} : view'[f] = view[f]
    BY <1>2, <2>2 DEF CancelMyOrder, Acts, OrderFlags, OrderFields
  <2>4. OrderFlags(view', P \cup {<<"cancel", None>>})
    BY <2>2, <2>3 DEF OrderFlags, OfOrder
  <2> QED BY <1>1, <2>1, <2>2, <2>3, <2>4 DEF OrderFlags
<1>3. CASE CompleteMyOrder
  <2>1. MyAskings' /\ Begins("myOrders", <<"complete", None>>)
    BY <1>3, MyAsksBegin DEF CompleteMyOrder, DeedOf
  <2>2. view.page = "order" /\ OrderFlags(view, P) /\ ~view.completing
    BY <1>3 DEF CompleteMyOrder, May, MyBusy
  <2>3. /\ view'.page = "order" /\ DOMAIN view' = OrderFields /\ view'.completing = TRUE
        /\ \A f \in {"cancelling", "reviewing", "form"} : view'[f] = view[f]
    BY <1>3, <2>2 DEF CompleteMyOrder, Acts, OrderFlags, OrderFields
  <2>4. OrderFlags(view', P \cup {<<"complete", None>>})
    BY <2>2, <2>3 DEF OrderFlags, OfOrder
  <2> QED BY <1>1, <2>1, <2>2, <2>3, <2>4 DEF OrderFlags
<1>4. CASE SubmitReview
  <2>1. PICK l \in Lines : /\ ~view.reviewing[l]
                           /\ Send("act", Act("review", l, "review"))
                           /\ view' = [Acts EXCEPT !.reviewing[l] = TRUE]
    BY <1>4 DEF SubmitReview
  <2>2. MyAskings' /\ Begins("myOrders", <<"review", l>>)
    BY <2>1, MyAsksBegin DEF DeedOf
  <2>3. view.page = "order" /\ OrderFlags(view, P)
    BY <1>4 DEF SubmitReview, May, MyBusy
  <2>4. /\ view'.page = "order" /\ DOMAIN view' = OrderFields
        /\ view'.reviewing = [view.reviewing EXCEPT ![l] = TRUE]
        /\ \A f \in {"cancelling", "completing", "form"} : view'[f] = view[f]
    BY <2>1, <2>3 DEF Acts, OrderFlags, OrderFields
  <2>5. OrderFlags(view', P \cup {<<"review", l>>})
    BY <2>3, <2>4 DEF OrderFlags, OfOrder
  <2> QED BY <1>1, <2>1, <2>2, <2>3, <2>4, <2>5 DEF OrderFlags
<1>5. CASE SubmitReturn
  <2>1. MyAskings' /\ Begins("myOrders", <<"form", None>>)
    BY <1>5, MyAsksBegin DEF SubmitReturn, DeedOf
  <2>2. view.page = "order" /\ OrderFlags(view, P) /\ view.form # None
    BY <1>5 DEF SubmitReturn, May, MyBusy
  <2>3. /\ view'.page = "order" /\ DOMAIN view' = OrderFields
        /\ DOMAIN view'.form = {"goods", "submitting"}
        /\ \A f \in {"cancelling", "completing", "reviewing"} : view'[f] = view[f]
    BY <1>5, <2>2 DEF SubmitReturn, Acts, OrderFlags, OrderFields
  <2>4. OrderFlags(view', P \cup {<<"form", None>>})
    BY <2>2, <2>3 DEF OrderFlags, Anywhere
  <2>5. <<"form", None>> \notin OfOrder \cup OfReturn
    BY DEF OfOrder, OfReturn
  <2> QED BY <1>1, <2>1, <2>3, <2>4, <2>5
<1>6. CASE CancelReturnRequest
  <2>1. MyAskings' /\ Begins("myOrders", <<"bar", None>>)
    BY <1>6, MyAsksBegin DEF CancelReturnRequest, DeedOf
  <2>2. view.page = "return" /\ OtherFlags(view, P) /\ ~view.cancelling
    BY <1>6 DEF CancelReturnRequest, May, MyBusy
  <2>3. /\ view'.page = "return" /\ DOMAIN view' = ReturnFields
        /\ view'.cancelling = TRUE /\ view'.loading = view.loading
    BY <1>6, <2>2 DEF CancelReturnRequest, Acts, OtherFlags, ReturnFields
  <2>4. OtherFlags(view', P \cup {<<"bar", None>>})
    BY <2>2, <2>3 DEF OtherFlags, OfReturn
  <2> QED BY <1>1, <2>1, <2>2, <2>3, <2>4 DEF OtherFlags
<1> QED BY <1>2, <1>3, <1>4, <1>5, <1>6

\* Going from page to page.
LEMMA MyBusyGoes ==
    ASSUME MyBusy,
           OpenOrders \/ GoToOrder \/ GoToReturn \/ \E i \in Slots : ReturnCreated(i)
    PROVE  MyBusy'
<1>1. SlotsFilled /\ MyAskings
  BY DEF MyBusy
<1>2. CASE OpenOrders
  <2>1. Send("rows", [for |-> "mount"]) /\ [for |-> "mount"].for = "mount"
    BY <1>2 DEF OpenOrders
  <2>2. Purpose("myOrders", "rows", [for |-> "mount"]) = <<"mount", None>>
    BY <2>1, MyPurpose
  <2>3. Begins("myOrders", <<"mount", None>>) /\ MyAskings'
    BY <1>1, <2>1, <2>2, SendBegins, SendKeepsMine, MyAskingsKept
  <2>4. OtherFlags(view, Purposes("myOrders", calls)) /\ view.page = "blank"
    BY <1>2 DEF OpenOrders, MyBusy
  <2>5. OtherFlags(view', Purposes("myOrders", calls) \cup {<<"mount", None>>})
        /\ view'.page = "orders"
    BY <1>2, <2>4 DEF OpenOrders, OtherFlags, Anywhere
  <2>6. <<"mount", None>> \notin OfOrder \cup OfReturn
    BY DEF OfOrder, OfReturn
  <2> QED BY <2>3, <2>5, <2>6 DEF MyBusy, Begins
<1>3. CASE GoToOrder \/ GoToReturn \/ \E i \in Slots : ReturnCreated(i)
  <2>1. /\ SlotsFilled' /\ MyAskings'
        /\ Purposes("myOrders", calls') = {<<"mount", None>>}
        /\ OneOfEach("myOrders", calls', OfOrder \cup OfReturn)
    BY <1>1, <1>3, MyMounts, MyAskingsKept DEF GoToOrder, GoToReturn, Mounts, ReturnCreated
  <2>2. CASE view' = OrderMounted
    <3>1. OrderFlags(view', {<<"mount", None>>})
      BY <2>2 DEF OrderMounted, Idle, OrderFlags, OrderFields, Anywhere
    <3> QED BY <2>1, <3>1 DEF MyBusy, OrderFlags
  <2>3. ASSUME NEW acts, view' = ReturnMounted(acts) PROVE MyBusy'
    <3>1. OtherFlags(view', {<<"mount", None>>}) /\ view'.page = "return"
      BY <2>3 DEF ReturnMounted, OtherFlags, ReturnFields, Anywhere
    <3> QED BY <2>1, <3>1 DEF MyBusy
  <2> QED BY <1>3, <2>2, <2>3 DEF GoToOrder, GoToReturn, Mounts, ReturnCreated
<1> QED BY <1>2, <1>3

\* What the customer does without asking for anything.
LEMMA MyBusyForm ==
    ASSUME MyBusy, OpenReturnForm \/ CloseReturnForm \/ ChangeGoods \/ AskToCancel
    PROVE  MyBusy'
<1> DEFINE P == Purposes("myOrders", calls)
<1>1. SamePurposes("myOrders") /\ calls' = calls
  BY RestKeepsPurpose DEF OpenReturnForm, CloseReturnForm, ChangeGoods, AskToCancel, MyBusy
<1>2. MyAskings'
  BY <1>1 DEF MyBusy, MyAskings
<1>3. CASE OpenReturnForm \/ CloseReturnForm \/ ChangeGoods
  <2>1. view.page = "order" /\ OrderFlags(view, P)
    BY <1>3 DEF OpenReturnForm, CloseReturnForm, ChangeGoods, May, MyBusy
  <2>2. /\ view'.page = "order" /\ DOMAIN view' = OrderFields
        /\ \A f \in {"cancelling", "completing", "reviewing"} : view'[f] = view[f]
    BY <1>3, <2>1 DEF OpenReturnForm, CloseReturnForm, ChangeGoods, Acts, OrderFlags,
       OrderFields
  <2>3. view'.form # None =>
           /\ DOMAIN view'.form = {"goods", "submitting"}
           /\ view'.form.submitting =>
                 view.form # None /\ view.form.submitting
    <3>1. CASE OpenReturnForm \/ CloseReturnForm
      BY <2>1, <3>1 DEF OpenReturnForm, CloseReturnForm, FreshForm, OrderFlags, OrderFields
    <3>2. CASE ChangeGoods
      <4>1. PICK l \in Lines :
               \E q \in (0 .. Bought[l]) \ {view.form.goods[l]} :
                   view' = [Acts EXCEPT !.form.goods[l] = q]
        BY <3>2 DEF ChangeGoods
      <4>2. PICK q : view' = [Acts EXCEPT !.form.goods[l] = q]
        BY <4>1
      <4>3. view.form # None
        BY <3>2 DEF ChangeGoods
      <4>4. view'.form = [view.form EXCEPT !.goods[l] = q]
        BY <2>1, <4>2 DEF Acts, OrderFlags, OrderFields
      <4> QED BY <2>1, <4>3, <4>4 DEF OrderFlags
    <3> QED BY <1>3, <3>1, <3>2
  <2>4. OrderFlags(view', P)
    BY <2>1, <2>2, <2>3 DEF OrderFlags
  <2> QED BY <1>1, <1>2, <2>2, <2>4 DEF MyBusy, SamePurposes
<1>4. CASE AskToCancel
  <2>1. view.page = "return" /\ OtherFlags(view, P)
    BY <1>4 DEF AskToCancel, MyBusy
  <2>2. OtherFlags(view', P) /\ view'.page = "return"
    BY <1>4, <2>1 DEF AskToCancel, OtherFlags, ReturnFields
  <2> QED BY <1>1, <1>2, <2>2 DEF MyBusy, SamePurposes
<1> QED BY <1>3, <1>4

\* An answer, or the failure, of request i.
LEMMA MyBusyTakes ==
    ASSUME MyBusy, NEW i \in Slots,
           \/ OrdersListed(i) \/ OrderActSettles(i) \/ OrderLoads(i)
           \/ ReturnLoads(i) \/ ReturnActSettles(i)
    PROVE  MyBusy'
<1> DEFINE P == Purposes("myOrders", calls)
           Q == Purposes("myOrders", calls')
           a == calls[i].arg
           p == IF a.for = "review" THEN <<"review", a.op.what>> ELSE <<a.for, None>>
<1>1. /\ SlotsFilled /\ MyAskings /\ UnderWay(calls[i])
      /\ MyAsking(calls[i]) /\ calls[i].op \in {"act", "rows"}
  BY DEF MyBusy, MyAskings, OrdersListed, OrderActSettles, OrderLoads, ReturnLoads,
     ReturnActSettles, Returns, Throws, UnderWay
<1>2. /\ a.for \in DOMAIN DeedOf \cup {"mount"}
      /\ a.for = "review" => a.op.what \in Lines
  BY <1>1 DEF MyAsking
<1>3. Purpose("myOrders", calls[i].op, a) = p /\ p \in P
  BY <1>1, MyPurpose DEF Purposes
<1>4. ASSUME Finish(i)
      PROVE  /\ SlotsFilled' /\ MyAskings' /\ Q \subseteq P /\ P \subseteq Q \cup {p}
             /\ OneOfEach("myOrders", calls', OfOrder \cup OfReturn)
             /\ p \in OfOrder \cup OfReturn => p \notin Q
  <2>1. Ends("myOrders", p)
    BY <1>1, <1>3, <1>4, FinishEnds
  <2>2. MyAskings'
    BY <1>1, <1>4, FinishKeepsMine, MyAskingsKept
  <2> QED BY <2>1, <2>2 DEF MyBusy, Ends
<1> HIDE DEF P, Q, a, p
<1>5. CASE OrdersListed(i)
  <2>1. view.page = "orders" /\ OtherFlags(view, P) /\ Finish(i)
    BY <1>5 DEF OrdersListed, MyBusy, P
  <2>2. view'.page = "orders" /\ DOMAIN view' = DOMAIN view /\ view'.loading = FALSE
    BY <1>5, <2>1 DEF OrdersListed, OtherFlags
  <2>3. OtherFlags(view', Q)
    BY <1>4, <2>1, <2>2 DEF OtherFlags
  <2> QED BY <1>4, <2>1, <2>2, <2>3 DEF MyBusy, Q
<1>6. CASE ReturnLoads(i)
  <2>1. view.page = "return" /\ OtherFlags(view, P) /\ Finish(i)
    BY <1>6 DEF ReturnLoads, MyBusy, P
  <2>2. calls[i].op = "rows"
    BY <1>6 DEF ReturnLoads, Returns, Throws
  <2>3. p # <<"bar", None>>
    BY <1>1, <2>2 DEF MyAsking, p, a
  <2>4. /\ view'.page = "return" /\ DOMAIN view' = DOMAIN view /\ view'.loading = FALSE
        /\ view'.cancelling = view.cancelling
    BY <1>6, <2>1 DEF ReturnLoads, OtherFlags, ReturnFields
  <2>5. OtherFlags(view', Q)
    BY <1>4, <2>1, <2>3, <2>4 DEF OtherFlags
  <2> QED BY <1>4, <2>1, <2>4, <2>5 DEF MyBusy, Q
<1>7. CASE ReturnActSettles(i)
  <2>1. view.page = "return" /\ OtherFlags(view, P) /\ Finish(i) /\ a.for = "bar"
    BY <1>7 DEF ReturnActSettles, MyBusy, P, a
  <2>2. p = <<"bar", None>>
    BY <2>1 DEF p
  <2>3. /\ view'.page = "return" /\ DOMAIN view' = DOMAIN view /\ view'.cancelling = FALSE
        /\ view'.loading = view.loading
    BY <1>7, <2>1 DEF ReturnActSettles, OtherFlags, ReturnFields
  <2>4. OtherFlags(view', Q)
    BY <1>4, <2>1, <2>2, <2>3 DEF OtherFlags, OfReturn
  <2> QED BY <1>4, <2>1, <2>3, <2>4 DEF MyBusy, Q
\* On the page of an order.
<1>8. ASSUME view.page = "order"
      PROVE  /\ OrderFlags(view, P)
             /\ a.for \in {"mount", "cancel", "complete", "review", "form"}
  <2>1. OrderFlags(view, P)
    BY <1>8 DEF MyBusy, P
  <2>2. a.for # "bar"
    <3>1. <<"bar", None>> \notin Anywhere \cup OfOrder
      BY DEF Anywhere, OfOrder
    <3>2. a.for = "bar" => p = <<"bar", None>>
      BY DEF p
    <3> QED BY <1>3, <2>1, <3>1, <3>2 DEF OrderFlags
  <2> QED BY <1>2, <2>1, <2>2 DEF DeedOf
<1>9. CASE OrderActSettles(i)
  <2>1. view.page = "order" /\ calls[i].op = "act"
    BY <1>9 DEF OrderActSettles, Returns, Throws
  <2>2. CASE Continue(i, "rows", a) /\ view' = view
    <3>1. Turns("myOrders", p, p)
      <4>1. Purpose("myOrders", "rows", a) = p
        BY MyPurpose DEF p
      <4> QED BY <1>1, <1>3, <2>2, <4>1, ContinueTurns DEF a
    <3>2. Q = P /\ SlotsFilled' /\ OneOfEach("myOrders", calls', OfOrder \cup OfReturn)
      BY <3>1 DEF MyBusy, Turns, P, Q
    <3>3. MyAskingsNext
      <4>1. /\ calls'[i] = [op |-> "rows", arg |-> a, phase |-> "sent"]
            /\ \A j \in Slots \ {i} : calls'[j] = calls[j]
        BY <1>1, <2>2 DEF Continue, SlotsFilled
      <4>2. MyAsking(calls'[i])
        BY <1>2, <1>8, <2>1, <4>1 DEF MyAsking
      <4> QED BY <4>1, <4>2 DEF MyAskingsNext
    <3> QED BY <1>1, <2>1, <2>2, <3>2, <3>3, MyAskingsKept DEF MyBusy, P, Q
  <2>3. CASE Finish(i) /\ view' = Settled(view, a)
    <3>1. OrderFlags(view', Q)
      BY <1>2, <1>4, <1>8, <2>1, <2>3, SettledFlags DEF p
    <3> QED BY <1>4, <2>3, <3>1 DEF MyBusy, OrderFlags, Q
  <2> QED BY <1>9, <2>2, <2>3 DEF OrderActSettles, a
<1>10. CASE OrderLoads(i)
  <2> DEFINE v == IF Throws(i, "rows") THEN view
                  ELSE [view EXCEPT !.row = calls[i].ans[MyOrder],
                                    !.form = IF @ = None THEN None ELSE FreshForm]
  <2>1. view.page = "order" /\ Finish(i) /\ view' = Settled(v, a)
    BY <1>10 DEF OrderLoads, a
  <2>2. OrderFlags(v, P)
    BY <1>8, <2>1 DEF OrderFlags, OrderFields, FreshForm
  <2> HIDE DEF v
  <2>3. OrderFlags(view', Q)
    BY <1>2, <1>4, <1>8, <2>1, <2>2, SettledFlags DEF p
  <2> QED BY <1>4, <2>1, <2>3 DEF MyBusy, OrderFlags, Q
<1> QED BY <1>5, <1>6, <1>7, <1>9, <1>10

LEMMA MyBusyServed ==
    ASSUME MyBusy, NEW i \in Slots, ActServed(i, calls[i].arg.for = "form")
    PROVE  MyBusy'
<1>1. SlotsFilled /\ MyAskings /\ calls[i].op = "act" /\ UNCHANGED view
  BY DEF MyBusy, ActServed
<1>2. PICK ans : \/ Acted(i, ans) \/ Rejected(i)
                 \/ calls[i].arg.for = "form" /\ calls[i].phase = "orphan" /\ Reply(i, ans)
  BY DEF ActServed, ActedLate
<1>3. CASE Acted(i, ans) \/ Rejected(i)
  <2>1. SamePurposes("myOrders")
    BY <1>1, <1>3, ActedKeepsPurpose
  <2>2. MyAskings'
    BY <1>1, <1>3, AnswerKeepsMine, FinishKeepsMine, MyAskingsKept DEF Acted, Rejected
  <2> QED BY <1>1, <2>1, <2>2 DEF MyBusy, SamePurposes
<1>4. CASE calls[i].arg.for = "form" /\ calls[i].phase = "orphan" /\ Reply(i, ans)
  <2>1. Purpose("myOrders", calls[i].op, calls[i].arg) = <<"form", None>>
    BY <1>1, <1>4, MyPurpose
  <2>2. Begins("myOrders", <<"form", None>>)
    BY <1>1, <1>4, <2>1, RevivalBegins
  <2>3. MyAskings'
    BY <1>1, <1>4, AnswerKeepsMine, MyAskingsKept
  <2>4. <<"form", None>> \in Anywhere /\ <<"form", None>> \notin OfOrder \cup OfReturn
    BY DEF Anywhere, OfOrder, OfReturn
  <2>5. ASSUME NEW P, OrderFlags(view, P) PROVE OrderFlags(view, P \cup {<<"form", None>>})
    BY <2>4, <2>5 DEF OrderFlags, OfOrder
  <2>6. ASSUME NEW P, OtherFlags(view, P) PROVE OtherFlags(view, P \cup {<<"form", None>>})
    BY <2>4, <2>6 DEF OtherFlags, OfReturn
  <2> QED BY <1>1, <2>2, <2>3, <2>4, <2>5, <2>6 DEF MyBusy, Begins
<1> QED BY <1>2, <1>3, <1>4

LEMMA MyBusySteps ==
    ASSUME MyBusy, MyOrdersNext \/ RequestLost \/ OrphanLost \/ UNCHANGED tab
    PROVE  MyBusy'
<1>1. SlotsFilled /\ MyAskings
  BY DEF MyBusy
<1>2. ASSUME SamePurposes("myOrders"), MyAskingsNext, UNCHANGED view PROVE MyBusy'
  BY <1>1, <1>2, MyAskingsKept DEF MyBusy, SamePurposes
<1>3. ASSUME NEW i \in Slots, OrdersRead(i) PROVE MyBusy'
  BY <1>1, <1>2, <1>3, AnswerKeepsPurpose, AnswerKeepsMine DEF OrdersRead, Asked
<1>4. CASE RequestLost \/ OrphanLost
  BY <1>1, <1>2, <1>4, LossKeepsPurpose, AnswerKeepsMine, FinishKeepsMine
     DEF RequestLost, OrphanLost
<1>5. CASE UNCHANGED <<view, calls>>
  <2>1. MyAskingsNext
    BY <1>5 DEF MyAskingsNext
  <2> QED BY <1>1, <1>2, <1>5, <2>1, RestKeepsPurpose
<1>6. CASE Elsewhere(StaffOps) \/ WindowCloses \/ UNCHANGED tab
  BY <1>5, <1>6 DEF Elsewhere, WindowCloses, tab
<1> QED BY <1>3, <1>4, <1>6, MyBusyAsks, MyBusyGoes, MyBusyForm, MyBusyTakes,
        MyBusyServed DEF MyOrdersNext

\* A change of the order is asked for once at a time; a return is not, as the form
\* of a return says with a new key each time.
LEMMA MyOrdersAtRest ==
    ASSUME area = "myOrders", MyBusy
    PROVE  QuietMeansIdle /\ NothingSentTwice
<1>1. view.page \in {"blank", "orders", "order", "return"}
  BY DEF MyBusy, OtherFlags
<1>2. ASSUME calls = NoCalls
      PROVE  /\ NoFlag(view)
             /\ view.page = "order" =>
                   /\ \A l \in Lines : ~view.reviewing[l]
                   /\ view.form # None => ~view.form.submitting
  <2>1. Purposes("myOrders", calls) = {}
    BY <1>2, QuietPurposes
  <2>2. CASE view.page = "order"
    BY <2>1, <2>2 DEF MyBusy, OrderFlags, NoFlag, Flags, OrderFields
  <2>3. CASE view.page # "order"
    BY <2>1, <2>3 DEF MyBusy, OtherFlags, NoFlag, Flags, ReturnFields
  <2> QED BY <2>2, <2>3
<1>3. ASSUME NEW i \in Slots, NEW j \in Slots, i # j, SameAgain(i, j) PROVE FALSE
  <2>1. /\ MyAsking(calls[i]) /\ MyAsking(calls[j])
        /\ calls[i].op = "act" /\ calls[j].op = "act"
        /\ calls[i].arg.op = calls[j].arg.op /\ calls[i].arg.op.do # "return"
    BY <1>1, <1>3, SameIsUnderWay DEF SameAgain, MyBusy, MyAskings, MyAsking, UnderWay
  <2>2. calls[i].arg.for = calls[j].arg.for /\ calls[i].arg.for # "form"
    BY <2>1 DEF MyAsking, DeedOf
  <2>3. Purpose("myOrders", calls[i].op, calls[i].arg) =
        Purpose("myOrders", calls[j].op, calls[j].arg)
    BY <2>1, <2>2, MyPurpose
  <2>4. Purpose("myOrders", calls[i].op, calls[i].arg) \in OfOrder \cup OfReturn
    BY <2>1, <2>2, MyPurpose DEF MyAsking, DeedOf, OfOrder, OfReturn
  <2>5. OneOfEach("myOrders", calls, OfOrder \cup OfReturn)
    BY DEF MyBusy
  <2> QED BY <1>3, <2>3, <2>4, <2>5, OnlyOneUnderWay
<1> QED BY <1>1, <1>2, <1>3 DEF QuietMeansIdle, NoFlag, NothingSentTwice

-----------------------------------------------------------------------------
(* The orders of the shop and of a store.                                  *)

\* What a desk shows.
DeskShown == {"page", "orders", "loading", "error", "busy", "dialog", "staff", "courier",
              "fetching", "jobs"}

\* The flags of a desk, while it waits for the requests P and the jobs J.  The page
\* of an order makes one job at a time, the lists may make one for each order.
DeskFlags(v, P, J) ==
    /\ v.page \in DeskPages /\ DOMAIN v = DeskShown
    /\ P \subseteq {"rows", "shipment", "act", "staff"}
    /\ v.loading => "rows" \in P
    /\ v.fetching => "staff" \in P
    /\ v.busy # None => "job" \in J
    /\ v.page = "adminOrder" =>
          /\ "job" \in J => v.busy = MyOrder
          /\ v.dialog # None => v.dialog.order = MyOrder

DeskBusy ==
    LET P == Purposes("desk", calls)
        J == Purposes("job", calls)
    IN  /\ SlotsFilled
        /\ IF view.page \in DeskPages THEN DeskFlags(view, P, J)
           ELSE view = [page |-> "blank"] /\ P = {} /\ J = {}
        /\ view.page \notin {"adminOrders", "storeOrders"} => OneOfEach("job", calls, {"job"})

LEMMA DeskPurposes ==
    ASSUME NEW op, NEW arg
    PROVE  /\ Purpose("desk", op, arg) = op
           /\ Purpose("job", op, arg) =
                IF op = "act" \/ (op \in {"rows", "shipment"} /\ arg.after = "act")
                THEN "job" ELSE op
BY DEF Purpose, JobPurpose

LEMMA DeskBusyStarts == ASSUME DeskInit PROVE DeskBusy
BY QuietPurposes, QuietIsOneOfEach DEF DeskInit, DeskBusy, DeskPages

\* A desk that asks for something keeps its flags right.
LEMMA DeskBusyBegins ==
    ASSUME DeskBusy, NEW p, NEW q, Begins("desk", p), Begins("job", q),
           q = "job" /\ view.page = "adminOrder" => "job" \notin Purposes("job", calls),
           view'.page = view.page,
           DeskFlags(view', Purposes("desk", calls) \cup {p}, Purposes("job", calls) \cup {q})
    PROVE  DeskBusy'
<1>1. view'.page \notin {"adminOrders", "storeOrders"} => OneOfEach("job", calls', {"job"})
  BY DEF DeskBusy, Begins, DeskFlags, DeskPages
<1> QED BY <1>1 DEF DeskBusy, Begins, DeskFlags

\* An order of the page is given a job.
LEMMA DeskMutates ==
    ASSUME DeskBusy, view.page \in DeskPages, NEW do, NEW n, NEW what,
           view.page = "adminOrder" => n = MyOrder,
           ~Busy(view, n), Mutate(do, n, what)
    PROVE  DeskBusy'
<1> DEFINE arg == [op |-> Op(do, n, what), for |-> view.page]
<1>1. Send("act", arg) /\ view' = [view EXCEPT !.busy = n, !.jobs = @ + 1]
  BY DEF Mutate
<1> HIDE DEF arg
<1>2. Purpose("desk", "act", arg) = "act" /\ Purpose("job", "act", arg) = "job"
  BY DeskPurposes
<1>3. Begins("desk", "act") /\ Begins("job", "job")
  BY <1>1, <1>2, SendBegins DEF DeskBusy
<1>4. view.page = "adminOrder" => "job" \notin Purposes("job", calls)
  BY DEF DeskBusy, DeskFlags, Busy
<1>5. DeskFlags(view', Purposes("desk", calls) \cup {"act"}, Purposes("job", calls) \cup {"job"})
  BY <1>1 DEF DeskBusy, DeskFlags, DeskShown
<1> QED BY <1>1, <1>3, <1>4, <1>5, DeskBusyBegins DEF DeskBusy, DeskFlags, DeskShown

LEMMA DeskBusyAsks ==
    ASSUME DeskBusy, OpenDesk \/ PressButton \/ SubmitDialog
    PROVE  DeskBusy'
<1>1. CASE OpenDesk
  <2>1. Send("rows", [after |-> "mount"]) /\ [after |-> "mount"].after # "act"
    BY <1>1 DEF OpenDesk
  <2>2. /\ Purpose("desk", "rows", [after |-> "mount"]) = "rows"
        /\ Purpose("job", "rows", [after |-> "mount"]) = "rows"
    BY <2>1, DeskPurposes
  <2>3. Begins("desk", "rows") /\ Begins("job", "rows")
    BY <2>1, <2>2, SendBegins DEF DeskBusy
  <2>4. /\ Purposes("desk", calls) = {} /\ Purposes("job", calls) = {}
        /\ OneOfEach("job", calls, {"job"})
    BY <1>1 DEF OpenDesk, DeskBusy, DeskPages
  <2>5. DeskFlags(view', {"rows"}, {"rows"})
    BY <1>1 DEF OpenDesk, DeskFlags, DeskShown
  <2> QED BY <2>3, <2>4, <2>5 DEF DeskBusy, Begins, DeskFlags
<1>2. CASE PressButton
  <2>1. PICK n \in Rows(view) : /\ ~Busy(view, n)
                                /\ \E do \in Offered(view, n) \ InDialog : Mutate(do, n, None)
    BY <1>2 DEF PressButton
  <2>2. view.page \in DeskPages /\ (view.page = "adminOrder" => n = MyOrder)
    BY <1>2, <2>1 DEF PressButton, Working, Rows, OrdersOn
  <2> QED BY <2>1, <2>2, DeskMutates
<1>3. CASE SubmitDialog
  <2>1. view.page \in DeskPages /\ (view.page = "adminOrder" => view.dialog.order = MyOrder)
    BY <1>3 DEF SubmitDialog, Working, DeskBusy, DeskFlags
  <2> QED BY <1>3, <2>1, DeskMutates DEF SubmitDialog
<1> QED BY <1>1, <1>2, <1>3

\* The dialogs.
LEMMA DeskBusyDialogs ==
    ASSUME DeskBusy, OpenDialog \/ OpenDispatch \/ ChooseCourier \/ CloseDialog
    PROVE  DeskBusy'
<1> DEFINE P == Purposes("desk", calls)
           J == Purposes("job", calls)
<1>1. DeskFlags(view, P, J) /\ view.page \in DeskPages
  BY DEF OpenDialog, OpenDispatch, ChooseCourier, CloseDialog, DeskBusy
<1>2. /\ view'.page = view.page /\ DOMAIN view' = DeskShown
      /\ view'.loading = view.loading /\ view'.busy = view.busy
  BY <1>1 DEF OpenDialog, OpenDispatch, ChooseCourier, CloseDialog, DeskFlags, DeskShown
<1>3. (view'.page = "adminOrder" /\ view'.dialog # None) => view'.dialog.order = MyOrder
  <2>1. CASE OpenDialog
    <3>1. PICK n \in Rows(view) :
             \E do : view' = [view EXCEPT !.dialog = [do |-> do, order |-> n]]
      BY <2>1 DEF OpenDialog
    <3> QED BY <1>1, <1>2, <3>1 DEF Rows, OrdersOn, DeskFlags, DeskShown
  <2>2. CASE OpenDispatch
    <3>1. PICK n \in Rows(view) :
             \/ view' = [view EXCEPT !.dialog = [do |-> "dispatch", order |-> n]]
             \/ view' = [view EXCEPT !.fetching = TRUE,
                                     !.dialog = [do |-> "dispatch", order |-> n]]
      BY <2>2 DEF OpenDispatch
    <3>2. view'.dialog = [do |-> "dispatch", order |-> n]
      BY <1>1, <3>1 DEF DeskFlags, DeskShown
    <3> QED BY <1>2, <3>1, <3>2 DEF Rows, OrdersOn
  <2>3. CASE ChooseCourier \/ CloseDialog
    BY <1>1, <2>3 DEF ChooseCourier, CloseDialog, DeskFlags, DeskShown
  <2> QED BY <2>1, <2>2, <2>3
<1>4. CASE UNCHANGED calls /\ view'.fetching = view.fetching
  <2>1. SamePurposes("desk") /\ SamePurposes("job")
    BY <1>4, RestKeepsPurpose DEF DeskBusy
  <2>2. DeskFlags(view', P, J)
    BY <1>1, <1>2, <1>3, <1>4 DEF DeskFlags
  <2> QED BY <1>1, <1>2, <2>1, <2>2 DEF DeskBusy, SamePurposes
<1>5. CASE Send("staff", None)
  <2>1. Purpose("desk", "staff", None) = "staff" /\ Purpose("job", "staff", None) = "staff"
    BY DeskPurposes
  <2>2. Begins("desk", "staff") /\ Begins("job", "staff")
    BY <1>5, <2>1, SendBegins DEF DeskBusy
  <2>3. DeskFlags(view', P \cup {"staff"}, J \cup {"staff"})
    BY <1>1, <1>2, <1>3 DEF DeskFlags
  <2> QED BY <1>2, <2>2, <2>3, DeskBusyBegins
<1>6. \/ UNCHANGED calls /\ view'.fetching = view.fetching
      \/ Send("staff", None)
  BY <1>1 DEF OpenDialog, OpenDispatch, ChooseCourier, CloseDialog, DeskFlags, DeskShown
<1> QED BY <1>4, <1>5, <1>6

\* The handler of request i has run.
LEMMA DeskBusyTakes ==
    ASSUME DeskBusy, NEW i \in Slots,
           StaffArrives(i) \/ DeskActSettles(i) \/ DeskLoads(i) \/ ShipmentSettles(i)
    PROVE  DeskBusy'
<1> DEFINE P == Purposes("desk", calls)
           J == Purposes("job", calls)
           op == calls[i].op
           job == Purpose("job", op, calls[i].arg)
<1>1. DeskFlags(view, P, J) /\ view.page \in DeskPages /\ SlotsFilled
  BY DEF StaffArrives, DeskActSettles, DeskLoads, ShipmentSettles, DeskBusy
<1>2. UnderWay(calls[i]) /\ op \in {"rows", "shipment", "act", "staff"}
  BY DEF StaffArrives, DeskActSettles, DeskLoads, ShipmentSettles, Returns, Throws,
     UnderWay
<1>3. Purpose("desk", op, calls[i].arg) = op
  BY DeskPurposes
<1>4. job = IF op = "act" \/ (op \in {"rows", "shipment"} /\ calls[i].arg.after = "act")
            THEN "job" ELSE op
  BY DeskPurposes
<1> HIDE DEF op, job
\* It goes on to nothing else.
<1>5. ASSUME Finish(i), view'.page = view.page, DOMAIN view' = DeskShown,
             view'.loading => view.loading /\ op # "rows",
             view'.fetching => view.fetching /\ op # "staff",
             view'.busy = (IF job = "job" THEN None ELSE view.busy),
             view'.dialog = view.dialog
      PROVE  DeskBusy'
  <2>1. Ends("desk", op)
    BY <1>1, <1>2, <1>3, <1>5, FinishEnds DEF op
  <2>2. Ends("job", job)
    BY <1>1, <1>2, <1>5, FinishEnds DEF op, job
  <2>3. view'.page \notin {"adminOrders", "storeOrders"} => OneOfEach("job", calls', {"job"})
    BY <1>5, <2>2 DEF DeskBusy, Ends
  <2>4. (view.page = "adminOrder" /\ job = "job") => "job" \notin Purposes("job", calls')
    BY <2>2 DEF DeskBusy, Ends
  <2>5. DeskFlags(view', Purposes("desk", calls'), Purposes("job", calls'))
    BY <1>1, <1>5, <2>1, <2>2, <2>4 DEF DeskFlags, Ends
  <2> QED BY <2>1, <2>3, <2>5 DEF DeskBusy, DeskFlags, Ends
\* It goes on, with the same job if it is one.
<1>6. ASSUME NEW next, next \in {"rows", "shipment"}, NEW arg, Continue(i, next, arg),
             NEW q, Purpose("job", next, arg) = q, (q = "job") = (job = "job"),
             view'.page = view.page, DOMAIN view' = DeskShown,
             view'.loading => (view.loading /\ op # "rows") \/ next = "rows",
             view'.fetching => view.fetching /\ op # "staff",
             view'.busy = view.busy,
             view'.dialog \in {None, view.dialog}
      PROVE  DeskBusy'
  <2>1. Purpose("desk", next, arg) = next
    BY DeskPurposes
  <2>2. Turns("desk", op, next)
    BY <1>1, <1>2, <1>3, <1>6, <2>1, ContinueTurns DEF op
  <2>3. Turns("job", job, q)
    BY <1>1, <1>2, <1>6, ContinueTurns DEF op, job
  <2>4. view'.page \notin {"adminOrders", "storeOrders"} => OneOfEach("job", calls', {"job"})
    BY <1>6, <2>3 DEF DeskBusy, Turns
  <2>5. "job" \in J <=> "job" \in Purposes("job", calls')
    BY <1>6, <2>3 DEF Turns
  <2>6. DeskFlags(view', Purposes("desk", calls'), Purposes("job", calls'))
    BY <1>1, <1>6, <2>2, <2>5 DEF DeskFlags, Turns
  <2> QED BY <2>2, <2>4, <2>6 DEF DeskBusy, DeskFlags, Turns
<1>7. CASE StaffArrives(i)
  <2>1. op = "staff" /\ job # "job" /\ Finish(i)
    BY <1>4, <1>7 DEF StaffArrives, Returns, Throws, op
  <2>2. /\ view'.page = view.page /\ DOMAIN view' = DeskShown
        /\ view'.loading = view.loading /\ view'.fetching = FALSE
        /\ view'.busy = view.busy /\ view'.dialog = view.dialog
    BY <1>1, <1>7 DEF StaffArrives, DeskFlags, DeskShown
  <2> QED BY <1>5, <2>1, <2>2
<1>8. CASE DeskActSettles(i)
  <2>1. op = "act" /\ job = "job"
    BY <1>4, <1>8 DEF DeskActSettles, Returns, Throws, op
  <2>2. CASE Returns(i, "act")
    <3>1. Continue(i, "rows", [after |-> "act"]) /\ [after |-> "act"].after = "act"
      BY <1>8, <2>2 DEF DeskActSettles, Throws, Returns
    <3>2. Purpose("job", "rows", [after |-> "act"]) = "job"
      BY <3>1, DeskPurposes
    <3>3. /\ view'.page = view.page /\ DOMAIN view' = DeskShown
          /\ view'.fetching = view.fetching
          /\ view'.busy = view.busy /\ view'.dialog \in {None, view.dialog}
      BY <1>1, <1>8, <2>2 DEF DeskActSettles, Throws, Returns, DeskFlags, DeskShown
    <3> QED BY <1>6, <2>1, <3>1, <3>2, <3>3
  <2>3. CASE Throws(i, "act")
    <3>1. Finish(i) /\ view' = [view EXCEPT !.busy = None]
      BY <1>8, <2>3 DEF DeskActSettles, Throws, Returns, NotBusy
    <3>2. /\ view'.page = view.page /\ DOMAIN view' = DeskShown
          /\ view'.loading = view.loading /\ view'.fetching = view.fetching
          /\ view'.busy = None /\ view'.dialog = view.dialog
      BY <1>1, <3>1 DEF DeskFlags, DeskShown
    <3> QED BY <1>5, <2>1, <3>1, <3>2
  <2> QED BY <1>8, <2>2, <2>3 DEF DeskActSettles
<1>9. CASE DeskLoads(i)
  <2> DEFINE shown == [view EXCEPT
                         !.orders = IF Returns(i, "rows") THEN calls[i].ans ELSE @,
                         !.loading = FALSE,
                         !.error = Throws(i, "rows") /\ view.page = "adminOrder"]
             over == IF calls[i].arg.after = "act" THEN NotBusy(shown) ELSE shown
  <2>1. op = "rows"
    BY <1>9 DEF DeskLoads, Returns, Throws, op
  <2>2. /\ DOMAIN shown = DeskShown /\ shown.page = view.page /\ shown.loading = FALSE
        /\ shown.fetching = view.fetching /\ shown.busy = view.busy
        /\ shown.dialog = view.dialog
    BY <1>1 DEF DeskFlags, DeskShown
  <2>3. \/ Continue(i, "shipment", calls[i].arg) /\ view' = shown
        \/ Finish(i) /\ view' = over
    BY <1>9 DEF DeskLoads
  <2> HIDE DEF shown
  <2>4. CASE Continue(i, "shipment", calls[i].arg) /\ view' = shown
    <3> DEFINE q == Purpose("job", "shipment", calls[i].arg)
    <3>1. (q = "job") = (job = "job")
      BY <1>4, <2>1, DeskPurposes
    <3> HIDE DEF q
    <3> QED BY <1>6, <2>1, <2>2, <2>4, <3>1 DEF q
  <2>5. CASE Finish(i) /\ view' = over
    <3>1. /\ DOMAIN over = DeskShown /\ over.page = view.page /\ over.loading = FALSE
          /\ over.fetching = view.fetching /\ over.dialog = view.dialog
          /\ over.busy = IF job = "job" THEN None ELSE view.busy
      BY <1>4, <2>1, <2>2 DEF NotBusy, DeskShown
    <3> QED BY <1>5, <2>1, <2>5, <3>1
  <2> QED BY <2>3, <2>4, <2>5
<1>10. CASE ShipmentSettles(i)
  <2>1. op = "shipment" /\ Finish(i)
    BY <1>10 DEF ShipmentSettles, Returns, Throws, op
  <2>2. view' = IF job = "job" THEN [view EXCEPT !.busy = None] ELSE view
    BY <1>4, <1>10, <2>1 DEF ShipmentSettles, NotBusy
  <2>3. /\ view'.page = view.page /\ DOMAIN view' = DeskShown
        /\ view'.loading = view.loading /\ view'.fetching = view.fetching
        /\ view'.busy = (IF job = "job" THEN None ELSE view.busy)
        /\ view'.dialog = view.dialog
    BY <1>1, <2>2 DEF DeskFlags, DeskShown
  <2> QED BY <1>5, <2>1, <2>3
<1> QED BY <1>7, <1>8, <1>9, <1>10

LEMMA DeskBusySteps ==
    ASSUME DeskBusy, DeskNext \/ RequestLost \/ OrphanLost \/ UNCHANGED tab
    PROVE  DeskBusy'
<1>1. SlotsFilled
  BY DEF DeskBusy
<1>2. ASSUME SamePurposes("desk"), SamePurposes("job"), UNCHANGED view PROVE DeskBusy'
  BY <1>2 DEF DeskBusy, SamePurposes
<1>3. ASSUME NEW i \in Slots, DeskRead(i) PROVE DeskBusy'
  BY <1>1, <1>2, <1>3, AnswerKeepsPurpose DEF DeskRead, Asked
<1>4. ASSUME NEW i \in Slots, ActServed(i, FALSE) \/ OrdersRead(i) PROVE DeskBusy'
  BY <1>1, <1>2, <1>4, ServiceKeepsPurpose
<1>5. CASE \/ RequestLost \/ OrphanLost \/ UNCHANGED tab
           \/ Elsewhere(OthersOps) \/ CourierLeaves
  <2>1. RequestLost \/ OrphanLost \/ UNCHANGED tab \/ UNCHANGED <<view, calls>>
    BY <1>5 DEF Elsewhere, CourierLeaves
  <2> QED BY <1>1, <1>2, <2>1, AroundKeepsPurpose
<1> QED BY <1>3, <1>4, <1>5, DeskBusyAsks, DeskBusyDialogs, DeskBusyTakes DEF DeskNext

\* The page of an order makes one change at a time.
LEMMA DeskAtRest ==
    ASSUME area = "desk", DeskBusy
    PROVE  QuietMeansIdle /\ NothingSentTwice
<1>1. view.page \in DeskPages \cup {"blank"}
  BY DEF DeskBusy
<1>2. ASSUME calls = NoCalls PROVE NoFlag(view)
  <2>1. Purposes("desk", calls) = {} /\ Purposes("job", calls) = {}
    BY <1>2, QuietPurposes
  <2> QED BY <2>1 DEF DeskBusy, DeskFlags, NoFlag, Flags, DeskShown
<1>3. ASSUME NEW i \in Slots, NEW j \in Slots, i # j, SameAgain(i, j) PROVE FALSE
  <2>1. /\ UnderWay(calls[i]) /\ UnderWay(calls[j]) /\ calls[i].op = calls[j].op
        /\ calls[i].op \in Purposes("desk", calls)
    BY <1>3, SameIsUnderWay, DeskPurposes
  <2>2. calls[i].op = "act" /\ view.page = "adminOrder"
    BY <1>3, <2>1 DEF DeskBusy, DeskFlags, DeskPages, SameAgain
  <2>3. /\ Purpose("job", calls[i].op, calls[i].arg) = "job"
        /\ Purpose("job", calls[j].op, calls[j].arg) = "job"
    BY <2>1, <2>2, DeskPurposes
  <2>4. OneOfEach("job", calls, {"job"})
    BY <2>2 DEF DeskBusy
  <2> QED BY <1>3, <2>3, <2>4, OnlyOneUnderWay
<1> QED BY <1>1, <1>2, <1>3 DEF QuietMeansIdle, NoFlag, NothingSentTwice, DeskPages

-----------------------------------------------------------------------------
(* Every page.                                                             *)

\* The invariant of the area that the tab is in.
AreaBusy ==
    /\ area \in AreaNames
    /\ area = "dashboards" => DashBusy
    /\ area = "navigation" => NavigationBusy
    /\ area = "cart" => CartBusy
    /\ area = "checkout" => CheckoutBusy
    /\ area = "catalogue" => CatalogueBusy
    /\ area = "myOrders" => MyBusy
    /\ area = "desk" => DeskBusy
    /\ area = "returnDesk" => ReturnDeskBusy
    /\ area = "receiving" => ReceivingBusy
    /\ area = "till" => TillBusy
    /\ area = "pagedLists" => PagedBusy
    /\ area = "switchLists" => SwitchesBusy

\* A tab starts as its area does.
LEMMA AreaStarts == ASSUME Init PROVE AreaBusy
<1>1. area \in AreaNames
  BY AreasNamed DEF Init
<1>2. area = "dashboards" => DashBusy
  BY DashBusyStarts DEF Init
<1>3. area = "navigation" => NavigationBusy
  BY NavigationBusyStarts DEF Init
<1>4. area = "cart" => CartBusy
  BY CartBusyStarts DEF Init
<1>5. area = "checkout" => CheckoutBusy
  BY CheckoutBusyStarts DEF Init
<1>6. area = "catalogue" => CatalogueBusy
  BY CatalogueBusyStarts DEF Init
<1>7. area = "myOrders" => MyBusy
  BY MyBusyStarts DEF Init
<1>8. area = "desk" => DeskBusy
  BY DeskBusyStarts DEF Init
<1>9. area = "returnDesk" => ReturnDeskBusy
  BY ReturnDeskBusyStarts DEF Init
<1>10. area = "receiving" => ReceivingBusy
  BY ReceivingBusyStarts DEF Init
<1>11. area = "till" => TillBusy
  BY TillBusyStarts DEF Init
<1>12. area = "pagedLists" => PagedBusy
  BY PagedBusyStarts DEF Init
<1>13. area = "switchLists" => SwitchesBusy
  BY SwitchesBusyStarts DEF Init
<1> QED BY <1>1, <1>2, <1>3, <1>4, <1>5, <1>6, <1>7, <1>8, <1>9, <1>10, <1>11, <1>12, <1>13 DEF AreaBusy

\* A step is one of the area that the tab is in, or a request is lost.
LEMMA AreaStep ==
    ASSUME [Next]_tab
    PROVE  /\ area' = area
           /\ \/ RequestLost \/ OrphanLost \/ UNCHANGED tab
              \/ area = "dashboards" /\ DashboardsNext
              \/ area = "navigation" /\ NavigationNext
              \/ area = "cart" /\ CartNext
              \/ area = "checkout" /\ CheckoutNext
              \/ area = "catalogue" /\ CatalogueNext
              \/ area = "myOrders" /\ MyOrdersNext
              \/ area = "desk" /\ DeskNext
              \/ area = "returnDesk" /\ ReturnDeskNext
              \/ area = "receiving" /\ ReceivingNext
              \/ area = "till" /\ TillNext
              \/ area = "pagedLists" /\ PagedNext
              \/ area = "switchLists" /\ SwitchNext
BY DEF Next, In, RequestLost, OrphanLost, Resting, tab

LEMMA AreaSteps == ASSUME AreaBusy, [Next]_tab PROVE AreaBusy'
<1>1. area' = area /\ area \in AreaNames
  BY AreaStep DEF AreaBusy
<1>2. CASE area = "dashboards"
  BY <1>1, <1>2, AreaStep, DashBusySteps DEF AreaBusy
<1>3. CASE area = "navigation"
  BY <1>1, <1>3, AreaStep, NavigationBusySteps DEF AreaBusy
<1>4. CASE area = "cart"
  BY <1>1, <1>4, AreaStep, CartBusySteps DEF AreaBusy
<1>5. CASE area = "checkout"
  BY <1>1, <1>5, AreaStep, CheckoutBusySteps DEF AreaBusy
<1>6. CASE area = "catalogue"
  BY <1>1, <1>6, AreaStep, CatalogueBusySteps DEF AreaBusy
<1>7. CASE area = "myOrders"
  BY <1>1, <1>7, AreaStep, MyBusySteps DEF AreaBusy
<1>8. CASE area = "desk"
  BY <1>1, <1>8, AreaStep, DeskBusySteps DEF AreaBusy
<1>9. CASE area = "returnDesk"
  BY <1>1, <1>9, AreaStep, ReturnDeskBusySteps DEF AreaBusy
<1>10. CASE area = "receiving"
  BY <1>1, <1>10, AreaStep, ReceivingBusySteps DEF AreaBusy
<1>11. CASE area = "till"
  BY <1>1, <1>11, AreaStep, TillBusySteps DEF AreaBusy
<1>12. CASE area = "pagedLists"
  BY <1>1, <1>12, AreaStep, PagedBusySteps DEF AreaBusy
<1>13. CASE area = "switchLists"
  BY <1>1, <1>13, AreaStep, SwitchesBusySteps DEF AreaBusy
<1> QED BY <1>1, <1>2, <1>3, <1>4, <1>5, <1>6, <1>7, <1>8, <1>9, <1>10, <1>11, <1>12, <1>13 DEF AreaNames

LEMMA AreaAtRest == ASSUME AreaBusy PROVE QuietMeansIdle /\ NothingSentTwice
<1>1. CASE area = "dashboards"
  BY <1>1, DashAtRest DEF AreaBusy
<1>2. CASE area = "navigation"
  BY <1>2, NavigationAtRest DEF AreaBusy
<1>3. CASE area = "cart"
  BY <1>3, CartAtRest DEF AreaBusy
<1>4. CASE area = "checkout"
  BY <1>4, CheckoutAtRest DEF AreaBusy
<1>5. CASE area = "catalogue"
  BY <1>5, CatalogueAtRest DEF AreaBusy
<1>6. CASE area = "myOrders"
  BY <1>6, MyOrdersAtRest DEF AreaBusy
<1>7. CASE area = "desk"
  BY <1>7, DeskAtRest DEF AreaBusy
<1>8. CASE area = "returnDesk"
  BY <1>8, ReturnDeskAtRest DEF AreaBusy
<1>9. CASE area = "receiving"
  BY <1>9, ReceivingAtRest DEF AreaBusy
<1>10. CASE area = "till"
  BY <1>10, TillAtRest DEF AreaBusy
<1>11. CASE area = "pagedLists"
  BY <1>11, PagedAtRest DEF AreaBusy
<1>12. CASE area = "switchLists"
  BY <1>12, SwitchesAtRest DEF AreaBusy
<1> QED BY <1>1, <1>2, <1>3, <1>4, <1>5, <1>6, <1>7, <1>8, <1>9, <1>10, <1>11, <1>12 DEF AreaBusy, AreaNames

\* No page of the storefront stays busy: with no request under way no spinner
\* turns and no button is disabled, whichever answers were lost, late or out of
\* order.  Each `finally` takes back what its handler set.
THEOREM QuietAlwaysIdle == Spec => []QuietMeansIdle
<1>1. Init => AreaBusy
  BY AreaStarts
<1>2. AreaBusy /\ [Next]_tab => AreaBusy'
  BY AreaSteps
<1>3. AreaBusy => QuietMeansIdle
  BY AreaAtRest
<1> QED BY <1>1, <1>2, <1>3, PTL DEF Spec

\* No page asks for a change that it has under way: a disabled button is not
\* enabled by the answer to another request, nor by a reload.
THEOREM NothingEverSentTwice == Spec => []NothingSentTwice
<1>1. Init => AreaBusy
  BY AreaStarts
<1>2. AreaBusy /\ [Next]_tab => AreaBusy'
  BY AreaSteps
<1>3. AreaBusy => NothingSentTwice
  BY AreaAtRest
<1> QED BY <1>1, <1>2, <1>3, PTL DEF Spec

=============================================================================
