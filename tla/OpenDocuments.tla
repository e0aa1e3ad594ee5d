----------------------------- MODULE OpenDocuments -----------------------------
(***************************************************************************)
(* What the document registry promises its callers, as one atomic map:     *)
(* opening, replacing and closing happen at one instant each, whatever     *)
(* critical sections and waits the registry needs for them.                *)
(***************************************************************************)
EXTENDS Integers

CONSTANTS
  Documents, Sessions, Files,
  Fits(_)              \* whether so many documents may be open

VARIABLES
  open,                \* the open documents: their file and their generation
  closed               \* the documents that were closed

\* A file is open at most once and they fit; ids are never used again.
Open(d, f, s) ==
  /\ d \notin DOMAIN open \union closed
  /\ \A e \in DOMAIN open : open[e].file # f /\ open[e].session # s
  /\ Fits(DOMAIN open \union {d})
  /\ open' = [e \in DOMAIN open \union {d} |->
                IF e = d THEN [file |-> f, session |-> s] ELSE open[e]]
  /\ UNCHANGED closed

\* The generations of a document only grow, and name no other document.
Replace(d, s) ==
  /\ d \in DOMAIN open
  /\ s > open[d].session
  /\ \A e \in DOMAIN open : open[e].session # s
  /\ open' = [open EXCEPT ![d].session = s]
  /\ UNCHANGED closed

Close(d) ==
  /\ d \in DOMAIN open
  /\ open' = [e \in DOMAIN open \ {d} |-> open[e]]
  /\ closed' = closed \union {d}

Init == open = [d \in {} |-> {}] /\ closed = {}

Next ==
  \E d \in Documents :
    \/ \E s \in Sessions : Replace(d, s) \/ \E f \in Files : Open(d, f, s)
    \/ Close(d)

Spec == Init /\ [][Next]_<<open, closed>>

===============================================================================
