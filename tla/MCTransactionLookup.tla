------------------------- MODULE MCTransactionLookup -------------------------
(* Model-checking instance of TransactionLookup. Neither shards nor SCRs are  *)
(* told apart by it, and only safety is checked.                             *)
EXTENDS TransactionLookup, TLC

Symmetry == Permutations(Shards) \cup Permutations(SCRs)
=============================================================================
