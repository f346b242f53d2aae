-------------------------------- MODULE Sums --------------------------------
(***************************************************************************)
(* The SUM(...) aggregates of the shop's SQL and of its Python, as sizes   *)
(* of sets.                                                                *)
(*                                                                         *)
(* SumFunction of the community module Functions computes the same         *)
(* numbers by folding, but what a fold returns can only be proved by an    *)
(* induction the prover cannot instantiate.  Counting one pair <<x, i>>    *)
(* for every unit of f[x] makes a sum a cardinality, so that               *)
(* FiniteSetTheorems gives its laws (module SumsProofs).                   *)
(***************************************************************************)
EXTENDS Integers, FiniteSets

\* One pair <<x, i>> for each of the f[x] units that x contributes.
Units(f) == UNION { {x} \X (1 .. f[x]) : x \in DOMAIN f }

\* The sum of f[x] over the domain of f, a function into Nat.
Total(f) == Cardinality(Units(f))

\* The smaller of two numbers: Python's min(a, b).
Lesser(a, b) == IF a <= b THEN a ELSE b

\* The larger of two numbers.
Greater(a, b) == IF a <= b THEN b ELSE a
=============================================================================
