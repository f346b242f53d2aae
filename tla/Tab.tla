-------------------------------- MODULE Tab --------------------------------
(***************************************************************************)
(* A browser tab of the storefront (apps/storefront): the page it shows,   *)
(* its requests in flight, and what the API would answer.                  *)
(*                                                                         *)
(* A handler of a page runs without interruption up to an `await`.  There  *)
(* it leaves a request in a slot of `calls`; the API handles the request   *)
(* and answers, requests overtake each other freely, and the continuation  *)
(* of the handler runs when the answer is taken out of the slot.  A        *)
(* request may fail before or after the API acted on it.                   *)
(*                                                                         *)
(* A page is in a module of its own and starts in the states it is mounted *)
(* in.  `area` says which page, or group of pages that lead to each other, *)
(* the tab is in; pages of two areas share no state.                       *)
(***************************************************************************)
EXTENDS Naturals, FiniteSets

CONSTANTS
    Slots,      \* 1 .. n: bound on the requests in flight at a time
    None        \* null and undefined

ASSUME SlotsFinite == Slots \subseteq Nat /\ IsFiniteSet(Slots)

\* Pages ask for up to two things when they are mounted.
ASSUME TwoSlots == \E i, j \in Slots : i # j

\* null is no AbortController, no flag of a closure: it is no request.
ASSUME NoneIsNoSlot == None \notin Slots

VARIABLES
    area,       \* where the tab is
    view,       \* React state of the mounted page, a record with field page
    calls,      \* per slot, a request in flight
    server      \* what the API would answer: the rows that the page reads

tab == <<area, view, calls, server>>

NoCall == [op |-> "none", phase |-> "idle"]
NoCalls == [i \in Slots |-> NoCall]

Free(i) == calls[i].op = "none"
Room(n) == n <= Cardinality({i \in Slots : Free(i)})
InFlight(op) == {i \in Slots : calls[i].op = op}

\* The slot of the next request of cs.
NextSlot(cs) ==
    CHOOSE i \in Slots :
        cs[i].op = "none" /\ \A j \in Slots : cs[j].op = "none" => i <= j

\* apiFetch up to its fetch.
Sent(cs, op, arg) ==
    [cs EXCEPT ![NextSlot(cs)] = [op |-> op, arg |-> arg, phase |-> "sent"]]

Send(op, arg) == Room(1) /\ calls' = Sent(calls, op, arg)

\* The continuation of a handler has run and sends nothing more.
Finish(i) == calls' = [calls EXCEPT ![i] = NoCall]

\* The continuation of a handler has run and sends its next request.
Continue(i, op, arg) ==
    calls' = [calls EXCEPT ![i] = [op |-> op, arg |-> arg, phase |-> "sent"]]

\* The API's side: a request is there, is answered, or fails (ApiError).
Asked(i, op) == calls[i].op = op /\ calls[i].phase = "sent"

Reply(i, ans) ==
    calls' = [calls EXCEPT ![i] =
                 [op |-> @.op, arg |-> @.arg, phase |-> "answered", ans |-> ans]]

Refuse(i) ==
    calls' = [calls EXCEPT ![i] =
                 [op |-> @.op, arg |-> @.arg, phase |-> "failed"]]

\* The page's side: `await` returns, or throws.
Returns(i, op) == calls[i].op = op /\ calls[i].phase = "answered"
Throws(i, op) == calls[i].op = op /\ calls[i].phase = "failed"

\* Any request may fail without effect: no network, no session, an outage.
RequestLost ==
    /\ \E i \in Slots : calls[i].phase = "sent" /\ Refuse(i)
    /\ UNCHANGED <<area, view, server>>

\* A page is left.  Its continuations do not run any more, but what it asked
\* for may still be done.
Orphaned(cs) ==
    [i \in Slots |->
        IF cs[i].phase = "sent"
        THEN [op |-> cs[i].op, arg |-> cs[i].arg, phase |-> "orphan"] ELSE NoCall]

OrphanLost ==
    /\ \E i \in Slots : calls[i].phase = "orphan" /\ Finish(i)
    /\ UNCHANGED <<area, view, server>>

\* The API acts on request i and i is answered with ans, or the answer is lost.
Acted(i, ans) ==
    \/ calls[i].phase = "sent" /\ (Reply(i, ans) \/ Refuse(i))
    \/ calls[i].phase = "orphan" /\ Finish(i)

\* The same where the handler may go on after its page was left: it still
\* navigates, while the state it sets is gone.
ActedLate(i, ans) == Acted(i, ans) \/ (calls[i].phase = "orphan" /\ Reply(i, ans))

\* The API refuses request i.
Rejected(i) ==
    \/ calls[i].phase = "sent" /\ Refuse(i)
    \/ calls[i].phase = "orphan" /\ Finish(i)
=============================================================================
