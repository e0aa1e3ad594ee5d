-------------------------- MODULE MCDocumentRegistry --------------------------
EXTENDS DocumentRegistry, TLC

\* Threads, paths and page keys are interchangeable.
Symmetry == Permutations(Threads) \union Permutations(Paths) \union Permutations(Keys)
===============================================================================
