----------------------------- MODULE MCIndexer -----------------------------
(***************************************************************************)
(* Instances of Indexer for TLC: tenants and fault budgets by name.         *)
(***************************************************************************)
EXTENDS Indexer, TLC

CONSTANTS t1

OneTenant == [d \in Docs |-> t1]

ProcSymmetry == Permutations(Procs)

Once(F) == [f \in Faults |-> IF f \in F THEN 1 ELSE 0]

NoFaults    == Once({})
CallFaults  == Once({"bulk", "embed", "qdrant", "commit", "redis", "dup"})
GroupFaults == Once({"crash", "rebalance", "qdrant"})
LiveFaults  == Once({"bulk", "qdrant", "crash", "poison", "dlq"})
EmbedFault  == Once({"embed"})
=============================================================================
