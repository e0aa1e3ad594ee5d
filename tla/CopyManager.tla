------------------------------ MODULE CopyManager ------------------------------
(***************************************************************************)
(* Copying a selection to the clipboard (src-tauri/src/copy/mod.rs).       *)
(*                                                                         *)
(* A copy operation is an entry of the registry and a thread (run_copy,    *)
(* execute_copy) that reads the rows in batches into a staging file and    *)
(* then writes the clipboard once, under the commit gate.  Cancellation    *)
(* sets a flag the thread looks at between its steps; it takes the commit  *)
(* gate too, so that it cannot come between the last look at the flag and  *)
(* the write.                                                              *)
(*                                                                         *)
(* The registry mutex is held for one action at a time and has no variable *)
(* of its own.  A session is a (document, session) pair of the code.       *)
(***************************************************************************)
EXTENDS Integers, Sequences, SequencesExt, FiniteSets

CONSTANTS
  OperationIds,        \* operation ids the client chooses
  Sessions,            \* document sessions copied from
  None,                \* no operation
  HistoryCapacity,     \* COPY_HISTORY_CAPACITY (5)
  MaxBatches,          \* batches of rows a selection takes, at most
  MaxStarts            \* bound on the operations started

\* A SourceCopyReader reads the document, a QueryCopyReader one of its queries.
Readers == {"source", "query"}
Requests == [session : Sessions, reader : Readers, batches : 0..MaxBatches]

\* What a command drops: every copy of a session, or those of its queries.
Drops == [session : Sessions, query_only : BOOLEAN]

Terminal == {"Complete", "Failed", "Cancelled"}

ASSUME CopyAssumption ==
  /\ None \notin OperationIds /\ None \notin Requests /\ None \notin Drops
  /\ None \notin Terminal
  /\ HistoryCapacity \in Nat /\ MaxBatches \in Nat \ {0} /\ MaxStarts \in Nat

VARIABLES
  state,               \* status.state of each operation, "absent" without entry
  request,             \* session, reader and batches left of each operation
  cancel,              \* the cancel flag of each operation
  current, previous,   \* attempts of each session, newest first in `previous`
  pc,                  \* control point of the operation's thread
  outcome,             \* result of execute_copy
  commit_gate,         \* operation whose thread holds the gate, or None
  stale,               \* running operations whose source or query is gone
  dropped,             \* those of them that a close or a new query dropped
  written,             \* operations whose text reached the clipboard
  dropping,            \* the command between its cancel_session and its drop
  starts

vars == <<state, request, cancel, current, previous, pc, outcome, commit_gate,
          stale, dropped, written, dropping, starts>>
registry == <<state, cancel, current, previous>>
readers == <<stale, dropped, dropping>>

States == {"absent", "Queued", "Running", "Cancelling", "Committing"} \union Terminal
ControlPoints == {"none", "spawned", "read", "flush", "gated", "write", "finish"}

TypeOK ==
  /\ state \in [OperationIds -> States]
  /\ request \in [OperationIds -> Requests \union {None}]
  /\ cancel \in [OperationIds -> BOOLEAN]
  /\ current \in [Sessions -> OperationIds \union {None}]
  /\ previous \in [Sessions -> Seq(OperationIds)]
  /\ pc \in [OperationIds -> ControlPoints]
  /\ outcome \in [OperationIds -> Terminal \union {None}]
  /\ commit_gate \in OperationIds \union {None}
  /\ stale \in SUBSET OperationIds /\ dropped \in SUBSET stale
  /\ dropping \in Drops \union {None}
  /\ written \in SUBSET OperationIds
  /\ starts \in 0..MaxStarts

Init ==
  /\ state = [o \in OperationIds |-> "absent"]
  /\ request = [o \in OperationIds |-> None]
  /\ cancel = [o \in OperationIds |-> FALSE]
  /\ current = [s \in Sessions |-> None]
  /\ previous = [s \in Sessions |-> <<>>]
  /\ pc = [o \in OperationIds |-> "none"]
  /\ outcome = [o \in OperationIds |-> None]
  /\ commit_gate = None
  /\ stale = {} /\ dropped = {} /\ dropping = None
  /\ written = {} /\ starts = 0

-----------------------------------------------------------------------------
(* start_with_display_formats *)

ActiveIn(s) == current[s] # None /\ state[current[s]] \notin Terminal \union {"absent"}

\* The attempts of a session before its current one, newest first.
History(s) == (IF current[s] = None THEN <<>> ELSE <<current[s]>>) \o previous[s]

Kept(s) == SubSeq(History(s), 1, IF Len(History(s)) > HistoryCapacity
                                 THEN HistoryCapacity ELSE Len(History(s)))

Expired(s) == Range(History(s)) \ Range(Kept(s))

\* An entry for a new operation; the thread is spawned unless the selection is
\* over the cell limit.
Start(o, r, withinLimit) ==
  LET s == r.session IN
  /\ starts < MaxStarts /\ starts' = starts + 1
  /\ dropping = None
  /\ r.batches >= 1
  /\ state[o] = "absent" /\ ~ActiveIn(s)
  /\ current' = [current EXCEPT ![s] = o]
  /\ previous' = [previous EXCEPT ![s] = Kept(s)]
  /\ state' = [i \in OperationIds |->
       IF i = o THEN IF withinLimit THEN "Queued" ELSE "Failed"
       ELSE IF i \in Expired(s) THEN "absent" ELSE state[i]]
  /\ request' = [i \in OperationIds |->
       IF i = o THEN r ELSE IF i \in Expired(s) THEN None ELSE request[i]]
  /\ cancel' = [i \in OperationIds |-> cancel[i] /\ i \notin Expired(s) \union {o}]
  /\ outcome' = [i \in OperationIds |->
       IF i \in Expired(s) \union {o} THEN None ELSE outcome[i]]
  /\ pc' = [pc EXCEPT ![o] = IF withinLimit THEN "spawned" ELSE "none"]
  /\ written' = written \ (Expired(s) \union {o})
  /\ UNCHANGED <<commit_gate, readers>>

-----------------------------------------------------------------------------
(* cancel, cancel_session, cancel_all *)

\* Every one of these operations that has not begun to commit is cancelled.
CancelThese(ops) ==
  LET hit == {o \in ops : state[o] \in {"Queued", "Running"}} IN
  /\ cancel' = [o \in OperationIds |-> cancel[o] \/ o \in hit]
  /\ state' = [o \in OperationIds |-> IF o \in hit THEN "Cancelling" ELSE state[o]]

\* The three commands take the commit gate, then the registry.
Cancelling(ops) ==
  /\ commit_gate = None
  /\ CancelThese(ops)
  /\ UNCHANGED <<request, current, previous, pc, outcome, commit_gate, stale,
                 dropped, written, starts>>

Cancel(o) ==
  /\ state[o] # "absent" /\ dropping = None
  /\ Cancelling({o}) /\ UNCHANGED dropping

CancelAll ==
  /\ Cancelling({o \in OperationIds : state[o] # "absent"})
  /\ UNCHANGED dropping

\* The copies of a session, or those of its queries only.
CopiesOf(d) ==
  {o \in OperationIds :
    /\ state[o] # "absent" /\ request[o].session = d.session
    /\ d.query_only => request[o].reader = "query"}

\* The copies whose thread may still read.
Running(ops) == {o \in ops : pc[o] \notin {"none", "finish"}}

\* Fault: what the copies read goes before they are cancelled.
DropFirst(d) ==
  /\ dropping = None /\ dropping' = None
  /\ stale' = stale \union Running(CopiesOf(d))
  /\ dropped' = dropped \union Running(CopiesOf(d))
  /\ UNCHANGED <<registry, request, pc, outcome, commit_gate, written, starts>>

\* close and execute_query first cancel the copies that read what they drop.
\* Both run on the main thread, like start_copy and cancel_copy.
CancelSession(d) ==
  /\ dropping = None /\ dropping' = d
  /\ Cancelling(CopiesOf(d))

\* Then the queries, and for close the document, go.
Drop ==
  /\ dropping # None /\ dropping' = None
  /\ stale' = stale \union Running(CopiesOf(dropping))
  /\ dropped' = dropped \union Running(CopiesOf(dropping))
  /\ UNCHANGED <<registry, request, pc, outcome, commit_gate, written, starts>>

\* configure_csv and apply_csv_profile replace the source and cancel nothing; a
\* close that names the session before this one closes the document the same way.
Replace(s) ==
  /\ dropping = None
  /\ Running(CopiesOf([session |-> s, query_only |-> FALSE])) # {}
  /\ stale' = stale \union Running(CopiesOf([session |-> s, query_only |-> FALSE]))
  /\ UNCHANGED <<registry, request, pc, outcome, commit_gate, dropped, dropping,
                 written, starts>>

-----------------------------------------------------------------------------
(* run_copy and execute_copy, on the operation's thread *)

At(o, point) == pc[o] = point

Goto(o, point) == pc' = [pc EXCEPT ![o] = point]

\* Fault: a copy that is cancelled at the gate keeps it.
KeepsGate(o, result) ==
  /\ Goto(o, "finish")
  /\ outcome' = [outcome EXCEPT ![o] = result]
  /\ IF result = "Cancelled" \/ commit_gate # o
     THEN UNCHANGED commit_gate ELSE commit_gate' = None

\* execute_copy returns; its staging file and the gate go with it.
Returns(o, result) ==
  /\ Goto(o, "finish")
  /\ outcome' = [outcome EXCEPT ![o] = result]
  /\ commit_gate' = IF commit_gate = o THEN None ELSE commit_gate

\* The state is set whatever it was: a cancellation that came before is not
\* shown any more, and its flag stays.
BeginCopy(o) ==
  /\ At(o, "spawned")
  /\ state' = [state EXCEPT ![o] = "Running"]
  /\ Goto(o, "read")
  /\ UNCHANGED <<request, cancel, current, previous, outcome, commit_gate,
                 readers, written, starts>>

\* Fault: the error of a cancelled copy has no reason.
ForgetReason(o) ==
  /\ pc[o] \in {"read", "flush", "gated"} /\ cancel[o]
  /\ Goto(o, "finish")
  /\ UNCHANGED <<registry, request, outcome, commit_gate, readers, written, starts>>

\* The flag is looked at before each batch, before the gate and inside it.
SeeCancel(o) ==
  /\ pc[o] \in {"read", "flush", "gated"} /\ cancel[o]
  /\ Returns(o, "Cancelled")
  /\ UNCHANGED <<registry, request, readers, written, starts>>

\* A batch of rows goes to the staging file.
ReadBatch(o) ==
  /\ At(o, "read") /\ ~cancel[o] /\ o \notin stale
  /\ request' = [request EXCEPT ![o].batches = @ - 1]
  /\ Goto(o, IF request[o].batches = 1 THEN "flush" ELSE "read")
  /\ UNCHANGED <<registry, outcome, commit_gate, readers, written, starts>>

\* Staging, reading, serializing or flushing fails, or a limit is exceeded; a
\* stale reader always fails.  A reader may report a cancellation of its own.
CopyFails(o) ==
  /\ pc[o] \in {"read", "flush"}
  /\ \E result \in {"Failed", "Cancelled"} : Returns(o, result)
  /\ UNCHANGED <<registry, request, readers, written, starts>>

\* The flag may be set while the thread waits for the gate.
TakeGate(o) ==
  /\ At(o, "flush")
  /\ commit_gate = None
  /\ commit_gate' = o
  /\ Goto(o, "gated")
  /\ UNCHANGED <<registry, request, outcome, readers, written, starts>>

\* Fault: the flag is not looked at inside the gate.
CommitUnchecked(o) ==
  /\ At(o, "gated")
  /\ IF o \in stale
     THEN Returns(o, "Failed") /\ UNCHANGED state
     ELSE /\ Goto(o, "write") /\ state' = [state EXCEPT ![o] = "Committing"]
          /\ UNCHANGED <<outcome, commit_gate>>
  /\ UNCHANGED <<request, cancel, current, previous, readers, written, starts>>

\* validate_current and, when it passes, the last status before the write.
ValidateAndCommit(o) ==
  /\ At(o, "gated") /\ ~cancel[o]
  /\ IF o \in stale
     THEN Returns(o, "Failed") /\ UNCHANGED state
     ELSE /\ Goto(o, "write") /\ state' = [state EXCEPT ![o] = "Committing"]
          /\ UNCHANGED <<outcome, commit_gate>>
  /\ UNCHANGED <<request, cancel, current, previous, readers, written, starts>>

\* Fault: the error of the clipboard is dropped.
WriteUnchecked(o) ==
  /\ At(o, "write")
  /\ Returns(o, "Complete")
  /\ \/ written' = written \union {o}
     \/ UNCHANGED written
  /\ UNCHANGED <<registry, request, readers, starts>>

WriteClipboard(o) ==
  /\ At(o, "write")
  /\ \/ Returns(o, "Complete") /\ written' = written \union {o}
     \/ Returns(o, "Failed") /\ UNCHANGED written
  /\ UNCHANGED <<registry, request, readers, starts>>

\* run_copy: the terminal state, unless the entry is gone.  What the thread had
\* goes with it.
EndCopy(o) ==
  /\ At(o, "finish")
  /\ state' = IF state[o] = "absent" THEN state
              ELSE [state EXCEPT ![o] = outcome[o]]
  /\ Goto(o, "none")
  /\ request' = [request EXCEPT ![o].batches = 0]
  /\ outcome' = [outcome EXCEPT ![o] = None]
  /\ stale' = stale \ {o} /\ dropped' = dropped \ {o}
  /\ UNCHANGED <<cancel, current, previous, commit_gate, dropping, written,
                 starts>>

-----------------------------------------------------------------------------

Step(o) ==
  \/ BeginCopy(o) \/ SeeCancel(o) \/ ReadBatch(o) \/ TakeGate(o)
  \/ ValidateAndCommit(o) \/ WriteClipboard(o) \/ EndCopy(o)

Next ==
  \/ \E o \in OperationIds :
       \/ Step(o) \/ CopyFails(o) \/ Cancel(o)
       \/ \E r \in Requests, withinLimit \in BOOLEAN : Start(o, r, withinLimit)
  \/ \E d \in Drops : CancelSession(d)
  \/ \E s \in Sessions : Replace(s)
  \/ Drop \/ CancelAll

\* The thread of a copy is scheduled.  It is never helped by a failure of its
\* own, unless what it reads is gone.
Fairness ==
  \A o \in OperationIds :
    WF_vars(Step(o) \/ (At(o, "read") /\ o \in stale /\ CopyFails(o)))

Spec == Init /\ [][Next]_vars
FairSpec == Spec /\ Fairness

-----------------------------------------------------------------------------
(* Properties *)

\* Once cancel, cancel_session or cancel_all has marked a copy, its text never
\* reaches the clipboard and it never ends Complete, wherever its thread was; a
\* copy that shows Cancelling is marked.
CancelHonoured ==
  \A o \in OperationIds :
    /\ cancel[o] =>
         o \notin written /\ outcome[o] # "Complete" /\ state[o] # "Committing"
    /\ state[o] = "Cancelling" => cancel[o]

\* Nothing is copied from a session after close has closed it, nor from a query
\* after execute_query has replaced it: the copies are cancelled under the gate
\* before what they read goes.
DroppedNeverWritten == [][dropped \intersect written' \subseteq written]_vars

\* Complete means that the clipboard has the text, Failed and Cancelled that it
\* does not: the clipboard is written once, wholly, or not at all.
OutcomeMatchesClipboard ==
  \A o \in OperationIds :
    /\ state[o] = "Complete" => o \in written
    /\ state[o] \in {"Failed", "Cancelled"} => o \notin written

\* A thread runs for an entry that is not terminal and is the current attempt
\* of its session: a session has one copy at a time, and an id that has left
\* the history and is used again never meets its old thread.
ThreadsRegistered ==
  \A o \in OperationIds : pc[o] # "none" =>
    /\ state[o] \notin Terminal \union {"absent"}
    /\ current[request[o].session] = o

\* Every copy ends, whatever the other copies and the cancellations do with the
\* gate it waits for.
CopiesEnd ==
  \A o \in OperationIds : pc[o] # "none" ~> pc[o] = "none"

-----------------------------------------------------------------------------
(* The inductive invariant behind the properties (CopyManagerProofs) *)

\* The attempts of a session are entries of that session.
HistoryOwned ==
  \A s \in Sessions : \A o \in Range(History(s)) :
    state[o] # "absent" /\ request[o] # None /\ request[o].session = s

\* What each control point of a thread says of its entry, its outcome and the gate.
ThreadsAgree ==
  \A o \in OperationIds :
    /\ pc[o] \in {"gated", "write"} <=> commit_gate = o
    /\ pc[o] \in {"spawned", "read", "flush", "gated"} =>
         state[o] \in {"Queued", "Running", "Cancelling"} /\ outcome[o] = None
    /\ pc[o] = "write" => state[o] = "Committing" /\ ~cancel[o] /\ outcome[o] = None
    /\ pc[o] = "finish" => outcome[o] \in Terminal
    /\ pc[o] = "none" => outcome[o] = None /\ o \notin dropped
    /\ outcome[o] = "Complete" => state[o] = "Committing" /\ o \in written
    /\ state[o] = "Committing" => ~cancel[o] /\ pc[o] \in {"write", "finish"}
    /\ state[o] = "Cancelling" => cancel[o]
    /\ pc[o] # "none" => request[o] # None
    /\ pc[o] \in {"spawned", "read"} => request[o].batches # 0

\* A text on the clipboard belongs to a copy that ended, or is about to end, Complete.
WrittenCompletes ==
  \A o \in written :
    ~cancel[o] /\ (state[o] = "Complete" \/ outcome[o] = "Complete")

\* What a command is about to drop, or has dropped, is cancelled or over.
DroppedCancelled ==
  \A o \in OperationIds :
    \/ o \in dropped
    \/ /\ dropping # None /\ request[o] # None
       /\ request[o].session = dropping.session
       /\ dropping.query_only => request[o].reader = "query"
    => cancel[o] \/ pc[o] \in {"none", "finish"}

CopyInvariant ==
  /\ TypeOK /\ ThreadsRegistered /\ HistoryOwned /\ ThreadsAgree
  /\ WrittenCompletes /\ DroppedCancelled /\ OutcomeMatchesClipboard /\ CancelHonoured

===============================================================================
