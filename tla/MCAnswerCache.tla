--------------------------- MODULE MCAnswerCache ---------------------------
(***************************************************************************)
(* Instances of AnswerCache for TLC: topics and fault budgets by name.      *)
(***************************************************************************)
EXTENDS AnswerCache, TLC

CONSTANT t1

Writes(n) == [t \in Tenants |-> IF t = t1 THEN n ELSE 0]
OneWrite  == Writes(1)

OneTopic == [q \in Queries |-> "topic"]

Once(F) == [f \in Faults |-> IF f \in F THEN 1 ELSE 0]

AllFaults == Once(Faults)

ServingSymmetry == Permutations(Requests) \cup Permutations(Filters)
=============================================================================
