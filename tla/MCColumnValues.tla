---------------------------- MODULE MCColumnValues ----------------------------
EXTENDS ColumnValues, TLC

Symmetry == Permutations(Sessions) \union Permutations(Operations)
===============================================================================
