----------------------------- MODULE MCOpenPaths ------------------------------
EXTENDS OpenPaths

\* Both batches name p1 before p2, the order in which a file dialog lists them;
\* one repeats a path and the other has a path that does not exist.
SameOrder == [b \in Batches |-> IF b = "dialog" THEN <<1, 2, 1>>
                                ELSE IF b = "drop" THEN <<BadPath, 1, 2>> ELSE <<3>>]

\* The same two files, dropped in the opposite order.
OppositeOrder == [b \in Batches |-> IF b = "dialog" THEN <<1, 2>> ELSE <<2, 1>>]

\* A repeated request id: the third call is a retry of the first.
Ids == [b \in Batches |-> IF b = "drop" THEN 2 ELSE 1]
===============================================================================
