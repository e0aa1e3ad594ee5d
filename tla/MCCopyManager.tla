----------------------------- MODULE MCCopyManager -----------------------------
EXTENDS CopyManager, TLC

Symmetry == Permutations(OperationIds) \union Permutations(Sessions)

===============================================================================
