--------------------------- MODULE MCNormalizer ---------------------------
(***************************************************************************)
(* Instances of Normalizer for TLC: fault budgets by name.                  *)
(***************************************************************************)
EXTENDS Normalizer

Once(F) == [f \in Faults |-> IF f \in F THEN 1 ELSE 0]

AllFaults    == Once(Faults)
ProduceFault == Once({"produce"})
=============================================================================
