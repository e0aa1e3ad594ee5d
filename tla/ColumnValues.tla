----------------------------- MODULE ColumnValues -----------------------------
(***************************************************************************)
(* The distinct values of a column (src-tauri/src/query/column_values.rs)  *)
(* beside the queries of the same service: both are invalidated by the     *)
(* epoch of their session, share the permits of the limiter and end with   *)
(* drop_session.                                                           *)
(*                                                                         *)
(* An operation belongs to one panel.  Its worker builds a snapshot of the *)
(* whole file or of a query result; the snapshot and the final status are  *)
(* written under the commit gate of the operation, which cancel_task takes *)
(* too, and which a copy of the values holds from its last look at the     *)
(* operation until it has written the clipboard.                           *)
(*                                                                         *)
(* start, cancel, release and the polling of the status are commands of    *)
(* the main thread; copies run on threads of their own.  Ids of operations *)
(* are random: none is used twice.                                         *)
(***************************************************************************)
EXTENDS QueryTasks

CONSTANTS
  Operations,          \* ids of column-values operations
  MaxSnapshots,        \* MAX_SNAPSHOTS (16)
  MaxCommands          \* bound on the executions, operations and drops together

ASSUME ColumnAssumption == 0 \notin Operations /\ MaxSnapshots \in Nat \ {0} /\ MaxCommands \in Nat

VARIABLES
  column,              \* session, epoch counter and generation of each operation
  column_state,        \* its status
  cancelled,           \* operations whose flag is set
  snapshots,           \* those whose snapshot is stored
  panels,              \* those in the registry
  column_pc,           \* control point of each worker
  starting,            \* the operation start_column_values is at, or None
  closing,             \* the session drop_session is at, its operations to cancel
  copying              \* operations whose copy is about to write, inside the gate

columns == <<column, column_state, cancelled, snapshots, panels, column_pc, starting, closing,
             copying>>
service == <<vars, columns>>

NoColumn == [session |-> None, epoch |-> None, generation |-> 0]
NotClosing == [session |-> None, left |-> {}]

ServiceInit ==
  /\ Init
  /\ column = [o \in Operations |-> NoColumn]
  /\ column_state = [o \in Operations |-> "none"]
  /\ cancelled = {} /\ snapshots = {} /\ panels = {}
  /\ column_pc = [o \in Operations |-> "none"]
  /\ starting = None /\ closing = NotClosing
  /\ copying = {}

\* The main thread takes its next command.
MainThreadFree == At("idle") /\ cancelling = None /\ starting = None

CommandsLeft ==
  Cardinality(Started) + Cardinality({o \in Operations : column[o] # NoColumn}) + drops < MaxCommands

\* check_task: the operation was cancelled, a newer query has begun or its session
\* was dropped.
Outdated(o) == epoch_value[column[o].epoch] # column[o].generation
Revoked(o) == o \in cancelled \/ Outdated(o)

\* Workers that have not ended, registered or not.
Live == {o \in Operations : column_pc[o] \in {"queued", "admitted", "building"}}

\* Builds that hold a permit of the limiter.
Building(pcs) == {o \in Operations : pcs[o] \in {"admitted", "building"}}

-----------------------------------------------------------------------------
(* start_column_values *)

\* The operation takes the epoch of the result it groups, or the current one of the
\* session when it groups the whole file.
StartColumnValues(o, s) ==
  /\ MainThreadFree /\ CommandsLeft
  /\ column[o] = NoColumn
  /\ \/ \E t \in results \intersect Of(s) :
          /\ column' = [column EXCEPT ![o] = task[t]]
          /\ UNCHANGED epochs
     \/ /\ UseCounter(s)
        /\ column' = [column EXCEPT ![o] =
                        [session |-> s, epoch |-> CounterOf(s),
                         generation |-> epoch_value[CounterOf(s)]]]
        /\ UNCHANGED epoch_value
  /\ starting' = o
  /\ UNCHANGED <<task, cancel, maps, worker, commands, removed>>
  /\ UNCHANGED <<column_state, cancelled, snapshots, panels, column_pc, closing, copying>>

\* fault: counts the panels, not the workers that still run.
RoomForPanel(kept) == Cardinality(kept) < MaxSnapshots

\* A worker that was cancelled keeps its slot until it has ended.
RoomForWorker(kept) ==
  Cardinality(kept) < MaxSnapshots /\ Cardinality(Live) < MaxSnapshots

\* Cancelled and failed operations leave the registry, also when the call fails then.
RegisterColumn ==
  LET o == starting
      kept == {u \in panels : column_state[u] \notin {"Cancelled", "Failed"}}
  IN
  /\ o # None /\ starting' = None
  /\ IF RoomForWorker(kept)
     THEN /\ panels' = kept \union {o}
          /\ column_state' = [column_state EXCEPT ![o] = "Queued"]
          /\ column_pc' = [column_pc EXCEPT ![o] = "queued"]
     ELSE panels' = kept /\ UNCHANGED <<column_state, column_pc>>
  /\ UNCHANGED <<vars, column, cancelled, snapshots, closing, copying>>

-----------------------------------------------------------------------------
(* build_column_values and the end of the worker *)

WorkerGoto(o, from, to) ==
  /\ column_pc[o] = from
  /\ column_pc' = [column_pc EXCEPT ![o] = to]
  /\ UNCHANGED <<vars, column, cancelled, panels, starting, closing, copying>>

PermitFree == Cardinality(permits) + Cardinality(Building(column_pc)) < MaxQueries

\* A permit, and the first look at the operation.
AdmitColumn(o) ==
  /\ WorkerGoto(o, "queued", "admitted")
  /\ PermitFree /\ ~ Revoked(o)
  /\ UNCHANGED <<column_state, snapshots>>

\* The state becomes Running, also when it was cancelled since.
RunColumn(o) ==
  /\ WorkerGoto(o, "admitted", "building")
  /\ column_state' = [column_state EXCEPT ![o] = "Running"]
  /\ UNCHANGED snapshots

\* fault: what has been built is stored without another look.
StoreBuilt(o) ==
  /\ WorkerGoto(o, "building", "ended")
  /\ snapshots' = snapshots \union {o}
  /\ column_state' = [column_state EXCEPT ![o] = "Ready"]

\* The build is done and its permit given back; under the gate, which no copy can hold
\* yet, the operation is looked at once more.
StoreSnapshot(o) ==
  /\ WorkerGoto(o, "building", "ended")
  /\ IF Revoked(o)
     THEN column_state' = [column_state EXCEPT ![o] = "Cancelled"] /\ UNCHANGED snapshots
     ELSE /\ snapshots' = snapshots \union {o}
          /\ column_state' = [column_state EXCEPT ![o] = "Ready"]

\* A worker that waits for its permit looks only at its flag.  Or the build ends with an
\* error or an interrupt.
EndFailed(o) ==
  /\ \/ /\ WorkerGoto(o, "queued", "ended")
        /\ \/ o \in cancelled
           \/ Outdated(o) /\ PermitFree
     \/ WorkerGoto(o, "building", "ended")
  /\ column_state' = [column_state EXCEPT ![o] = IF Revoked(o) THEN "Cancelled" ELSE "Failed"]
  /\ UNCHANGED snapshots

-----------------------------------------------------------------------------
(* cancel_task and its callers *)

\* No copy holds the gate.
GateFree(o) == o \notin copying

\* The flag, the status and the snapshot, all under the gate.
CancelTask(o) ==
  /\ GateFree(o)
  /\ cancelled' = cancelled \union {o}
  /\ column_state' = [column_state EXCEPT ![o] = "Cancelled"]
  /\ snapshots' = snapshots \ {o}
  /\ UNCHANGED <<vars, column, column_pc, starting, copying>>

\* cancel_column_values, or the status of an operation that is outdated.
CancelColumnValues(o) ==
  /\ MainThreadFree /\ o \in panels
  /\ CancelTask(o)
  /\ UNCHANGED <<panels, closing>>

ReleaseColumnValues(o) ==
  /\ MainThreadFree /\ o \in panels
  /\ CancelTask(o)
  /\ panels' = panels \ {o}
  /\ UNCHANGED closing

\* drop_session cancels the operations it finds, one after the other, before it goes
\* on to the queries.
CloseColumns(s) ==
  /\ DropAt("idle") /\ drops < MaxDrops /\ CommandsLeft /\ closing = NotClosing
  /\ closing' = [session |-> s, left |-> {o \in panels : column[o].session = s}]
  /\ UNCHANGED <<vars, column, column_state, cancelled, snapshots, panels, column_pc, starting,
                 copying>>

CloseColumn(o) ==
  /\ o \in closing.left
  /\ CancelTask(o)
  /\ closing' = [closing EXCEPT !.left = @ \ {o}]
  /\ UNCHANGED panels

CloseQueries ==
  /\ closing.session # None /\ closing.left = {}
  /\ DropSession(closing.session)
  /\ closing' = NotClosing
  /\ UNCHANGED <<column, column_state, cancelled, snapshots, panels, column_pc, starting, copying>>

-----------------------------------------------------------------------------
(* The copy of an operation's values *)

\* ColumnValuesClipboard, inside the gate of the copy manager: the gate of the
\* operation and validate_current.  The reader has kept the snapshot since copy_reader,
\* which asked for the same and for a snapshot that an operation keeps until it is revoked.
CommitColumnCopy(o) ==
  /\ o \in (panels \intersect snapshots) \ copying /\ ~ Revoked(o)
  /\ copying' = copying \union {o}
  /\ UNCHANGED <<vars, column, column_state, cancelled, snapshots, panels, column_pc, starting,
                 closing>>

\* The clipboard is written or refuses, and the gate is left.
EndColumnCopy(o) ==
  /\ o \in copying
  /\ copying' = copying \ {o}
  /\ UNCHANGED <<vars, column, column_state, cancelled, snapshots, panels, column_pc, starting,
                 closing>>

-----------------------------------------------------------------------------
WorkerNext(o) ==
  \/ AdmitColumn(o) \/ RunColumn(o) \/ StoreSnapshot(o) \/ EndFailed(o)

CommandNext(o) ==
  \/ \E s \in Sessions : StartColumnValues(o, s)
  \/ CancelColumnValues(o) \/ ReleaseColumnValues(o) \/ CloseColumn(o)

CopyNext(o) == CommitColumnCopy(o) \/ EndColumnCopy(o)

ColumnNext ==
  \/ \E o \in Operations : WorkerNext(o) \/ CommandNext(o) \/ CopyNext(o)
  \/ RegisterColumn
  \/ \E s \in Sessions : CloseColumns(s)
  \/ CloseQueries

\* The queries, with the permits that the builds of column values leave.
QueryNext ==
  /\ \/ Proceed
     \/ MainThreadFree /\ \E t \in Tasks : Cancel(t)
     \/ MainThreadFree /\ CommandsLeft /\ \E s \in Sessions : Execute(s)
  /\ permits' \subseteq permits \/ Cardinality(permits') + Cardinality(Building(column_pc)) <= MaxQueries
  /\ UNCHANGED columns

ServiceNext == ColumnNext \/ QueryNext

ServiceSpec == ServiceInit /\ [][ServiceNext]_service

-----------------------------------------------------------------------------
(* Properties *)

ServiceTypeOK ==
  /\ TypeOK
  /\ column \in [Operations -> [session : Sessions \union {None}, epoch : Epochs,
                                generation : 0..(MaxExecutes + MaxDrops)]]
  /\ column_state \in [Operations -> {"none", "Queued", "Running", "Ready", "Failed", "Cancelled"}]
  /\ cancelled \subseteq Operations /\ snapshots \subseteq Operations
  /\ panels \subseteq Operations /\ Cardinality(panels) <= MaxSnapshots
  /\ column_pc \in [Operations -> {"none", "queued", "admitted", "building", "ended"}]
  /\ starting \in Operations \union {None}
  /\ closing \in [session : Sessions \union {None}, left : SUBSET Operations]
  /\ copying \subseteq Operations
  /\ Cardinality(permits) + Cardinality(Building(column_pc)) <= MaxQueries

\* Once cancel_task has returned, by a cancellation, a release or the drop of the session,
\* the operation keeps no snapshot, is not shown as ready and none of its copies is about to
\* write, wherever its worker and its copy were.
CancelledGivesUp ==
  \A o \in cancelled :
    o \notin snapshots /\ column_state[o] # "Ready" /\ o \notin copying

\* No more workers are alive than MAX_SNAPSHOTS, those cancelled or released included
\* ("취소 요청 후 실제 종료까지 포함해", docs/PROJECT_SPEC.md), and an operation that a panel polls as
\* queued or running has one of them.
WorkersAccounted ==
  /\ Cardinality(Live) <= MaxSnapshots
  /\ \A o \in Operations : column_state[o] \in {"Queued", "Running"} => o \in Live

-----------------------------------------------------------------------------
(* The inductive invariant behind these properties (ColumnValuesProofs) *)

ServiceInvariant ==
  /\ QueryInvariant /\ ServiceTypeOK
  /\ IsFiniteSet(Live) /\ IsFiniteSet(panels)
  /\ starting # None => column[starting] # NoColumn /\ column_pc[starting] = "none"
  /\ \A o \in Operations : column[o] = NoColumn => column_pc[o] = "none"
  /\ CancelledGivesUp /\ WorkersAccounted

===============================================================================
