----------------------------- MODULE ReturnDesk -----------------------------
(***************************************************************************)
(* The page where the staff decides on a return request                    *)
(* (app/admin/returns/[returnCode]): review, receipt of the goods and      *)
(* inspection with its verdicts.  A second staff member, or the customer,  *)
(* may be working on the same request.                                     *)
(***************************************************************************)
EXTENDS OrderService

CONSTANT MaxDecisions   \* bound on what the staff member decides

\* The lines of a request.
LinesOf(r) == {l \in Lines : r.goods[l] > 0}

Verdicts(r) == {f \in [Lines -> {"passed", "failed", "pending"}] :
                   \A l \in Lines : f[l] = "pending" <=> l \notin LinesOf(r)}

DeskShows(status) ==
    /\ view.page = "returnDesk"
    /\ ~view.loading /\ ~view.error /\ view.ret # None
    /\ view.ret.status = status

\* A button of the page, which is under the dialog while that is open.
Decides(status) ==
    /\ DeskShows(status)
    /\ ~view.deciding /\ view.decisions < MaxDecisions

-----------------------------------------------------------------------------
OpenReturnDesk ==
    /\ view.page = "blank"
    /\ Send("rows", [after |-> "mount"])
    /\ view' = [page |-> "returnDesk", ret |-> None, loading |-> TRUE,
                error |-> FALSE, deciding |-> FALSE, marks |-> [l \in Lines |-> "passed"],
                rejecting |-> FALSE, decisions |-> 0]
    /\ UNCHANGED <<area, server>>

Decide(do, what) ==
    /\ Send("act", [op |-> Op(do, MyOrder, what)])
    /\ view' = [view EXCEPT !.deciding = TRUE, !.decisions = @ + 1]
    /\ UNCHANGED <<area, server>>

\* handleApprove, handleReceive
Approve == Decides("pending_review") /\ ~view.rejecting /\ Decide("approve", None)
Receive == Decides("approved") /\ Decide("receive", None)

\* The dialog that asks for the reason, and handleReject.
AskReason ==
    /\ DeskShows("pending_review") /\ ~view.deciding
    /\ view' = [view EXCEPT !.rejecting = ~@]
    /\ UNCHANGED <<area, calls, server>>

Reject == Decides("pending_review") /\ view.rejecting /\ Decide("reject", None)

\* The two buttons of a line, which stay enabled while the page is busy.
Mark ==
    /\ DeskShows("goods_received")
    /\ \E l \in LinesOf(view.ret), verdict \in {"passed", "failed"} :
          /\ view.marks[l] # verdict
          /\ view' = [view EXCEPT !.marks[l] = verdict]
    /\ UNCHANGED <<area, calls, server>>

\* Mutant: only what is marked as failed is sent.
PayloadOfFailed(v) ==
    [l \in Lines |-> IF l \in LinesOf(v.ret) /\ v.marks[l] = "failed"
                     THEN "failed" ELSE "pending"]

\* A verdict for each line of the request.
Payload(v) ==
    [l \in Lines |-> IF l \in LinesOf(v.ret) THEN v.marks[l] ELSE "pending"]

\* handleInspectAndResolve
Inspect == Decides("goods_received") /\ Decide("inspect", Payload(view))

\* A decision was taken: its dialog is closed and the request loaded again.
Decided(i) ==
    /\ view.page = "returnDesk"
    /\ Returns(i, "act")
    /\ Continue(i, "rows", [after |-> "act"])
    /\ view' = [view EXCEPT
                  !.loading = TRUE, !.error = FALSE,
                  !.rejecting = @ /\ calls[i].arg.op.do # "reject"]
    /\ UNCHANGED <<area, server>>

DecisionFails(i) ==
    /\ view.page = "returnDesk"
    /\ Throws(i, "act")
    /\ Finish(i)
    /\ view' = [view EXCEPT !.deciding = FALSE]
    /\ UNCHANGED <<area, server>>

\* load, which marks the lines anew; then the handler that waits for it.
DeskReturnLoads(i) ==
    /\ view.page = "returnDesk"
    /\ \/ /\ Returns(i, "rows")
          /\ LET r == calls[i].ans[MyOrder].ret
             IN  view' = [view EXCEPT
                            !.ret = r, !.loading = FALSE, !.deciding = FALSE,
                            !.marks = [l \in Lines |->
                                IF r.verdict[l] = "failed" THEN "failed"
                                ELSE "passed"]]
       \/ /\ Throws(i, "rows")
          /\ view' = [view EXCEPT !.loading = FALSE, !.error = TRUE, !.deciding = FALSE]
    /\ Finish(i)
    /\ UNCHANGED <<area, server>>

\* The customer and the other members of the staff meanwhile.
OthersDecide ==
    LET r == server.orders[MyOrder].ret
    IN  {Op(do, MyOrder, None) :
            do \in {"cancelReturn", "approve", "reject", "receive"}}
        \cup {Op("inspect", MyOrder, f) : f \in Verdicts(r)}

ReturnDeskInit ==
    /\ view = [page |-> "blank"]
    /\ calls = NoCalls
    /\ \E goods \in [Lines -> 0 .. 1] :
          /\ \E l \in Lines : goods[l] > 0
          /\ \A l \in Lines : goods[l] <= Bought[l]
          /\ server = [orders |-> [n \in OrderNumbers |->
                          Requested(NewOrder("delivered"), goods)]]

ReturnDeskNext ==
    \/ OpenReturnDesk \/ Approve \/ Receive \/ AskReason \/ Reject \/ Mark
    \/ Inspect
    \/ \E i \in Slots :
          \/ Decided(i) \/ DecisionFails(i) \/ DeskReturnLoads(i)
          \/ ActServed(i, FALSE) \/ OrdersRead(i)
    \/ Elsewhere(OthersDecide)

-----------------------------------------------------------------------------
(* Properties.                                                             *)

\* A return is completed with a verdict for every line that came back, and a
\* page that shows it as completed shows the verdicts that were recorded,
\* whoever inspected it first and whatever was marked in the meantime.
VerdictsComplete ==
    area = "returnDesk" =>
        LET r == server.orders[MyOrder].ret
        IN  /\ r.status = "completed" => r.verdict \in Verdicts(r)
            /\ DeskShows("completed") =>
                  r.status = "completed" /\ view.ret.verdict = r.verdict
=============================================================================
