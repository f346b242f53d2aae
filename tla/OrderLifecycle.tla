--------------------------- MODULE OrderLifecycle ---------------------------
(***************************************************************************)
(* What the database allows an order to do: the CHECK valid_transition of  *)
(* table order_status_history in database/schema.sql, which every handler  *)
(* that writes orders.status also writes a row of.  A handler whose step   *)
(* is not one of these would fail on commit.  "none" is the NULL           *)
(* from_status of an order's first row.                                    *)
(***************************************************************************)
CONSTANT Orders

VARIABLE status

AllStatuses == {"none", "pending_payment", "paid", "payment_failed",
                "confirmed", "shipping", "delivered", "completed",
                "cancelled", "failed_delivery", "returned"}

ValidTransition ==
    ({"none"} \X {"pending_payment", "paid", "payment_failed", "confirmed",
                  "completed"})
    \cup ({"pending_payment"} \X {"paid", "payment_failed", "cancelled"})
    \cup ({"paid"} \X {"confirmed", "cancelled", "shipping"})
    \cup ({"confirmed"} \X {"shipping", "completed", "cancelled",
                            "failed_delivery"})
    \cup ({"shipping"} \X {"delivered", "failed_delivery", "returned"})
    \cup ({"delivered"} \X {"completed", "returned"})
    \cup ({"completed"} \X {"returned"})

Init == status = [o \in Orders |-> "none"]

Transition(o, to) ==
    /\ <<status[o], to>> \in ValidTransition
    /\ status' = [status EXCEPT ![o] = to]

Next == \E o \in Orders, to \in AllStatuses : Transition(o, to)

Spec == Init /\ [][Next]_status
=============================================================================
