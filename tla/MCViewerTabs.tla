----------------------------- MODULE MCViewerTabs ------------------------------
EXTENDS ViewerTabs, TLC

CONSTANTS drop1, drop2, dialog

\* The same file is dropped twice and opened by the dialog.
OneFile == [r \in Requests |-> {1}]

Symmetry == Permutations({drop1, drop2})
===============================================================================
