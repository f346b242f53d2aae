------------------------------- MODULE MCShop -------------------------------
(***************************************************************************)
(* Small instances of Shop for TLC.  The rows are model values and a unit  *)
(* of money stands for any amount; the settings keep their shape: a        *)
(* basket of two units ships free, a basket of one does not.               *)
(***************************************************************************)
EXTENDS Shop, TLC

CONSTANTS o1, o2, r1, r2, c1, c2, v1, v2, k1, k2, s1, d1

MCSymmetry ==
    Permutations(Orders) \cup Permutations(ReturnIds)
        \cup Permutations(Customers) \cup Permutations(Variants)

\* Baskets and lots.
OneOrTwo == {[v \in Variants |-> n] : n \in {1, 2}}
TwoUnits == {[v \in Variants |-> 2]}
OneOfAny == {[v \in Variants |-> 1]}
SomeOfEach == [Variants -> {0, 1}] \ {NoUnits}

\* The stock each location starts with.
ThreeEverywhere == [l \in Locations |-> [v \in Variants |-> 3]]
FourEverywhere == [l \in Locations |-> [v \in Variants |-> 4]]

\* Coupons: half of the subtotal; and one that may be used once, next to one
\* that each customer may use once.
NoRules == [k \in {} |-> {}]
HalfOff ==
    [k \in Coupons |-> [kind |-> "percentage", value |-> 50, minimum |-> 0,
                        limit |-> 1, perCustomer |-> Null]]
OneUseAndOneEach ==
    k1 :> [kind |-> "percentage", value |-> 50, minimum |-> 0,
           limit |-> 1, perCustomer |-> Null]
    @@ k2 :> [kind |-> "fixed_amount", value |-> 4, minimum |-> 4,
              limit |-> Null, perCustomer |-> 1]

\* Failed deliveries that customers had before.
NoBooms == [c \in Customers |-> 0]
TwoBooms == [c \in Customers |-> 2]
=============================================================================
