---------------------------- MODULE MCStorefront ----------------------------
(***************************************************************************)
(* Instances of Storefront for TLC.                                        *)
(***************************************************************************)
EXTENDS Storefront

AllAreas == {"dashboards", "navigation", "cart", "checkout", "catalogue", "myOrders",
             "desk", "returnDesk", "receiving", "till", "pagedLists", "switchLists"}

\* Each staff role on its own, and a customer and a member of the staff who
\* use the same browser.
SomeHouseholds ==
    {{role} : role \in StaffRoles} \cup {{"customer", "operations_manager"}}

ShirtsAndCap == [x \in Items |-> IF x = "cap" THEN "caps" ELSE "shirts"]

\* Stock of red/S, red/M, blue/S and blue/M.
Shape(rs, rm, bs, bm) ==
    [v \in {"red", "blue"} \X {"S", "M"} |->
        CASE v = <<"red", "S">> -> rs
          [] v = <<"red", "M">> -> rm
          [] v = <<"blue", "S">> -> bs
          [] OTHER -> bm]

SomeStock == {Shape(2, 1, 0, 1), Shape(0, 0, 1, 2)}

OneOfEach == [l \in Lines |-> 1]

PaidOrDelivered == {NewOrder("paid"), NewOrder("delivered")}

EmptyOrOne == {[qty |-> 0, cost |-> 0], [qty |-> 1, cost |-> 4]}

TwoSizes == <<"S", "M">>
=============================================================================
