------------------------------ MODULE QueryTasks ------------------------------
(***************************************************************************)
(* Queries over open documents (src-tauri/src/query/engine.rs,             *)
(* QueryService::execute, cancel, drop_session and run_query).             *)
(*                                                                         *)
(* `execute` supersedes the queries of its session and starts a worker;    *)
(* the worker waits for a permit, builds a result and publishes it unless  *)
(* its cancel flag is set or the epoch of its session has moved.  The      *)
(* maps tasks, statuses, results and query_epochs have a mutex each; an    *)
(* action is one critical section.                                         *)
(*                                                                         *)
(* execute_query and cancel_query run on the main thread, one at a time.   *)
(* drop_session runs there too (close, configure_csv) or on another thread *)
(* (apply_csv_profile), one at a time under the mutex query_service.       *)
(*                                                                         *)
(* A task is the number of the execution that made it: the client never    *)
(* uses a task id or a query id twice.                                     *)
(***************************************************************************)
EXTENDS Integers, FiniteSets

CONSTANTS
  Sessions,            \* document sessions queried
  MaxExecutes,         \* bound on the executions
  MaxEpochs,           \* bound on the epoch counters
  MaxDrops,            \* bound on the drops of a session
  MaxCancels,          \* bound on the cancel commands
  MaxQueryTasks,       \* MAX_QUERY_TASKS (128), tasks and statuses
  MaxQueryResults,     \* MAX_QUERY_RESULTS (64)
  MaxQueries           \* MAX_CONCURRENT_QUERIES (2)

ASSUME QueryAssumption ==
  /\ 0 \notin Sessions
  /\ MaxExecutes \in Nat /\ MaxEpochs \in Nat /\ MaxDrops \in Nat /\ MaxCancels \in Nat
  /\ MaxQueryTasks \in Nat \ {0} /\ MaxQueryResults \in Nat \ {0}
  /\ MaxQueries \in Nat \ {0}

VARIABLES
  query_epochs,        \* the epoch counter in the map for each session
  counters,            \* how many were made
  epoch_value,         \* value of each epoch counter, also of removed ones
  task,                \* session, epoch counter and generation of each task
  state,               \* status.state of each task
  cancel,              \* the cancel flags
  tasks, statuses, results,   \* tasks in each of the three maps
  permits,             \* workers that hold a permit of the limiter
  pc,                  \* control point of each worker
  execute,             \* the execution in progress
  cancelling,          \* the task a cancel command is at, or None
  drop,                \* the drop_session in progress
  removed,             \* results removed to make room or with their session
  dropped,             \* tasks started before a drop_session that returned Ok
  drops, cancels       \* drops and cancel commands begun

None == 0
Tasks == 1..MaxExecutes

\* The counters are numbered as they are made.
Epochs == 0..MaxEpochs

Active == {"Queued", "Running", "Cancelling"}
Terminal == {"Complete", "Failed", "Cancelled"}

epochs == <<query_epochs, counters, epoch_value>>
maps == <<tasks, statuses, results>>
worker == <<state, permits, pc>>
commands == <<execute, cancelling, drop, dropped, drops, cancels>>
vars == <<epochs, task, cancel, maps, worker, commands,
          removed>>

NoTask == [session |-> None, epoch |-> None, generation |-> 0]
Idle == [session |-> None, task |-> None, point |-> "idle"]
NoDrop == [session |-> None, doomed |-> {}, point |-> "idle"]

TypeOK ==
  /\ query_epochs \in [Sessions -> Epochs]
  /\ counters \in Epochs
  /\ epoch_value \in [1..MaxEpochs -> 0..(MaxExecutes + MaxDrops)]
  /\ task \in [Tasks -> [session : Sessions \union {None}, epoch : Epochs,
                         generation : 0..(MaxExecutes + MaxDrops)]]
  /\ state \in [Tasks -> {"none"} \union Active \union Terminal]
  /\ cancel \in [Tasks -> BOOLEAN]
  /\ tasks \in SUBSET Tasks /\ Cardinality(tasks) <= MaxQueryTasks
  /\ statuses \in SUBSET Tasks /\ Cardinality(statuses) <= MaxQueryTasks
  /\ results \in SUBSET Tasks /\ Cardinality(results) <= MaxQueryResults
  /\ permits \in SUBSET Tasks /\ Cardinality(permits) <= MaxQueries
  /\ pc \in [Tasks -> {"none", "prepare", "build", "finish",
                       "leave", "ended"}]
  /\ execute \in [session : Sessions \union {None}, task : Tasks \union {None},
                  point : {"idle", "bump", "cancel", "clear", "insert"}]
  /\ cancelling \in Tasks \union {None}
  /\ drop \in [session : Sessions \union {None}, doomed : SUBSET Tasks,
               point : {"idle", "cancel", "clear", "wait", "clear again"}]
  /\ removed \in SUBSET Tasks /\ dropped \in SUBSET Tasks
  /\ drops \in 0..MaxDrops
  /\ cancels \in 0..MaxCancels

Init ==
  /\ query_epochs = [s \in Sessions |-> None]
  /\ counters = 0 /\ epoch_value = [e \in 1..MaxEpochs |-> 0]
  /\ task = [t \in Tasks |-> NoTask]
  /\ state = [t \in Tasks |-> "none"]
  /\ cancel = [t \in Tasks |-> FALSE]
  /\ tasks = {} /\ statuses = {} /\ results = {} /\ permits = {}
  /\ pc = [t \in Tasks |-> "none"]
  /\ execute = Idle /\ cancelling = None /\ drop = NoDrop
  /\ removed = {} /\ dropped = {} /\ drops = 0 /\ cancels = 0

-----------------------------------------------------------------------------
(* drop_session_results: the tasks, then the results and the statuses.  A worker
   changes the results or the statuses, never both, in one section, so the two
   that clear them are one step here. *)

Of(s) == {t \in Tasks : task[t].session = s}

\* Nobody looks at the flag of a query that is over: it is kept lowered.  The
\* interrupt that goes with the flag only shortens a build.
Raise(ts) ==
  LET hit == {t \in ts : pc[t] \in {"prepare", "build"}}
  IN  cancel' = [t \in Tasks |-> cancel[t] \/ t \in hit]
CancelTasksOf(s) == Raise(tasks \intersect Of(s))

ClearAllResults(s) ==  \* fault: whatever their session
  results' = {} /\ statuses' = statuses \ Of(s)
ClearResults(s) == results' = results \ Of(s) /\ statuses' = statuses \ Of(s)

-----------------------------------------------------------------------------
(* execute *)

Started == {t \in Tasks : task[t].session # None}

At(point) == execute.point = point
ExecuteGoto(point) == execute' = [execute EXCEPT !.point = point]

\* The counter of the session, made on its first use.
CounterOf(s) == IF query_epochs[s] = None THEN counters + 1 ELSE query_epochs[s]

UseCounter(s) ==
  /\ CounterOf(s) <= MaxEpochs
  /\ query_epochs' = [query_epochs EXCEPT ![s] = CounterOf(s)]
  /\ counters' = IF query_epochs[s] = None THEN counters + 1 ELSE counters

Execute(s) ==
  LET t == Cardinality(Started) + 1
      e == CounterOf(s)
  IN
  /\ At("idle") /\ cancelling = None
  /\ t <= MaxExecutes
  /\ UseCounter(s)
  /\ task' = [task EXCEPT ![t] = [session |-> s, epoch |-> e, generation |-> 0]]
  /\ execute' = [session |-> s, task |-> t, point |-> "bump"]
  /\ UNCHANGED <<epoch_value, cancel, maps, worker, cancelling, drop, dropped,
                 drops, removed, cancels>>

ExecuteBump ==
  LET e == task[execute.task].epoch IN
  /\ At("bump")
  /\ epoch_value' = [epoch_value EXCEPT ![e] = @ + 1]
  /\ task' = [task EXCEPT ![execute.task].generation = epoch_value[e] + 1]
  /\ ExecuteGoto("cancel")
  /\ UNCHANGED <<query_epochs, counters, cancel, maps, worker, cancelling, drop, dropped,
                 drops, removed, cancels>>

ExecuteCancel ==
  /\ At("cancel")
  /\ CancelTasksOf(execute.session)
  /\ ExecuteGoto("clear")
  /\ UNCHANGED <<epochs, task, maps, worker, cancelling,
                 drop, dropped, drops, removed, cancels>>

ExecuteClear ==
  /\ At("clear")
  /\ ClearResults(execute.session)
  /\ ExecuteGoto("insert")
  /\ UNCHANGED <<epochs, task, cancel, tasks, worker,
                 cancelling, drop, dropped, drops, removed, cancels>>

AlmostFull(kept) == Cardinality(kept) > MaxQueryTasks  \* fault: off by one
Full(kept) == Cardinality(kept) >= MaxQueryTasks

\* Tasks that are over leave the map, whether or not their worker has finished
\* with them.  At the limit the call fails, with what it superseded gone.
ExecuteInsert ==
  LET t == execute.task
      kept == {u \in tasks : state[u] \in Active}
  IN
  /\ At("insert")
  /\ execute' = Idle
  /\ \/ /\ Full(kept) /\ tasks' = kept
        /\ UNCHANGED <<state, pc>>
     \/ /\ ~Full(kept) /\ tasks' = kept \union {t}
        /\ state' = [state EXCEPT ![t] = "Queued"]
        /\ pc' = [pc EXCEPT ![t] = "prepare"]
  /\ UNCHANGED <<epochs, task, cancel, statuses, results,
                 permits, cancelling, drop, dropped, drops, removed, cancels>>

-----------------------------------------------------------------------------
(* cancel *)

Cancellable == {"Queued", "Running"}

\* First the status, under its mutex.
Cancel(t) ==
  /\ At("idle") /\ cancelling = None
  /\ cancels < MaxCancels /\ cancels' = cancels + 1
  /\ t \in tasks
  /\ cancelling' = t
  /\ state' = IF state[t] \in Cancellable
              THEN [state EXCEPT ![t] = "Cancelling"] ELSE state
  /\ UNCHANGED <<epochs, task, cancel, maps, permits, pc,
                 execute, drop, dropped, drops, removed>>

\* Then the flag; the task may have gone on in between.
CancelFlag ==
  /\ cancelling # None /\ cancelling' = None
  /\ Raise({cancelling})
  /\ UNCHANGED <<epochs, task, maps, worker, execute, drop,
                 dropped, drops, removed, cancels>>

-----------------------------------------------------------------------------
(* drop_session *)

DropAt(point) == drop.point = point
DropGoto(point) == drop' = [drop EXCEPT !.point = point]

\* The counter leaves the map and moves, under the mutex of the map.
DropSession(s) ==
  LET e == query_epochs[s] IN
  /\ DropAt("idle")
  /\ drops < MaxDrops /\ drops' = drops + 1
  /\ query_epochs' = [query_epochs EXCEPT ![s] = None]
  /\ epoch_value' = IF e = None THEN epoch_value
                    ELSE [epoch_value EXCEPT ![e] = @ + 1]
  /\ drop' = [session |-> s, point |-> "cancel",
              doomed |-> {t \in Of(s) : pc[t] # "none"}]
  /\ UNCHANGED <<counters, task, cancel, maps, worker, execute, cancelling, dropped,
                 removed, cancels>>

DropCancel ==
  /\ DropAt("cancel")
  /\ CancelTasksOf(drop.session)
  /\ DropGoto("clear")
  /\ UNCHANGED <<epochs, task, maps, worker, execute,
                 cancelling, dropped, drops, removed, cancels>>

\* The results of the session are lost, unless they were superseded anyway.
DropClear ==
  /\ DropAt("clear") /\ DropGoto("wait")
  /\ ClearResults(drop.session)
  /\ removed' = removed \union (results \intersect Of(drop.session))
  /\ UNCHANGED <<epochs, task, cancel, tasks, worker,
                 execute, cancelling, dropped, drops, cancels>>

NotQuiet == TRUE  \* fault: the workers are not waited for
Quiet == tasks \intersect Of(drop.session) = {}

DropWaits ==
  /\ DropAt("wait")
  /\ Quiet
  /\ DropGoto("clear again")
  /\ UNCHANGED <<epochs, task, cancel, maps, worker, execute,
                 cancelling, dropped, drops, removed, cancels>>

\* Three seconds have passed, here or on the worker of the CSV preparation.
DropTimesOut ==
  /\ DropAt("wait")
  /\ drop' = NoDrop
  /\ UNCHANGED <<epochs, task, cancel, maps, worker, execute,
                 cancelling, dropped, drops, removed, cancels>>

DropReturns ==
  /\ DropAt("clear again")
  /\ ClearResults(drop.session)
  /\ removed' = removed \union (results \intersect Of(drop.session))
  /\ dropped' = dropped \union drop.doomed
  /\ drop' = NoDrop
  /\ UNCHANGED <<epochs, task, cancel, tasks, worker,
                 execute, cancelling, drops, cancels>>

-----------------------------------------------------------------------------
(* run_query and finish_task, on the worker of task t *)

Stale(t) ==
  task[t].epoch # None /\ epoch_value[task[t].epoch] # task[t].generation

Goto(t, point) == pc' = [pc EXCEPT ![t] = point]
Ends(t, outcome) ==
  /\ Goto(t, "finish")
  /\ state' = [state EXCEPT ![t] = outcome]
  /\ cancel' = [cancel EXCEPT ![t] = FALSE]

\* source_after_csv_preparation may wait for the preparation of a CSV document
\* and looks at the flag and the epoch meanwhile; acquire_query_permit looks at
\* the flag whenever it wakes.
PrepareFails(t) ==
  /\ pc[t] = "prepare"
  /\ \/ (cancel[t] \/ Stale(t)) /\ Ends(t, "Cancelled")
     \/ ~cancel[t] /\ ~Stale(t) /\ Ends(t, "Failed")
  /\ UNCHANGED <<epochs, task, maps, permits, commands,
                 removed>>

\* The source is there and so is a permit: until then a worker that waits for
\* either does nothing that could be told apart.  The state becomes Running
\* whatever it was.
AcquirePermit(t) ==
  /\ pc[t] = "prepare"
  /\ ~cancel[t] /\ Cardinality(permits) < MaxQueries
  /\ permits' = permits \union {t}
  /\ Goto(t, "build") /\ state' = [state EXCEPT ![t] = "Running"]
  /\ UNCHANGED <<epochs, task, cancel, maps, commands,
                 removed>>

\* build_result ends with an error or an interrupt.
BuildFails(t) ==
  /\ pc[t] = "build"
  /\ \/ (cancel[t] \/ Stale(t)) /\ Ends(t, "Cancelled")
     \/ ~cancel[t] /\ Ends(t, "Failed")
  /\ UNCHANGED <<epochs, task, maps, permits, commands,
                 removed>>

\* An arbitrary result makes room at the limit.
Room == IF Cardinality(results) >= MaxQueryResults
        THEN {results \ {t} : t \in results} ELSE {results}

NotCancelled(t) == ~cancel[t]  \* fault: the epoch is not compared
MayPublish(t) == ~cancel[t] /\ ~Stale(t)

\* build_result ends with a result.  A first look at the flag, without a lock,
\* decides nothing that this one under the mutex of the results does not.
Publish(t) ==
  /\ pc[t] = "build"
  /\ \/ /\ ~MayPublish(t) /\ Ends(t, "Cancelled")
        /\ UNCHANGED <<results, removed>>
     \/ /\ MayPublish(t) /\ Ends(t, "Complete")
        /\ \E kept \in Room :
             /\ results' = kept \union {t}
             /\ removed' = removed \union (results \ kept)
  /\ UNCHANGED <<epochs, task, tasks, statuses, permits,
                 commands>>

\* finish_task: an arbitrary status makes room at the limit.
FinishTask(t) ==
  /\ pc[t] = "finish" /\ Goto(t, "leave")
  /\ \E kept \in IF Cardinality(statuses) >= MaxQueryTasks
                 THEN {statuses \ {u} : u \in statuses} ELSE {statuses} :
       statuses' = kept \union {t}
  /\ UNCHANGED <<epochs, task, cancel, tasks, results, state,
                 permits, commands, removed>>

\* The worker ends and its permit is dropped.
Leave(t) ==
  /\ pc[t] = "leave" /\ Goto(t, "ended")
  /\ tasks' = tasks \ {t}
  /\ permits' = permits \ {t}
  /\ UNCHANGED <<epochs, task, cancel, statuses, results,
                 state, commands, removed>>

-----------------------------------------------------------------------------

Step(t) ==
  \/ PrepareFails(t) \/ AcquirePermit(t) \/ BuildFails(t) \/ Publish(t)
  \/ FinishTask(t) \/ Leave(t)

\* What goes on by itself once the commands have begun.
Proceed ==
  \/ \E t \in Tasks : Step(t)
  \/ ExecuteBump \/ ExecuteCancel \/ ExecuteClear \/ ExecuteInsert
  \/ CancelFlag
  \/ DropCancel \/ DropClear \/ DropWaits \/ DropTimesOut \/ DropReturns

Next ==
  \/ Proceed
  \/ \E t \in Tasks : Cancel(t)
  \/ \E s \in Sessions : Execute(s) \/ DropSession(s)

Spec == Init /\ [][Next]_vars

-----------------------------------------------------------------------------
(* Properties *)

\* A newer query of the session has begun, or the session was dropped.
Superseded(t) ==
  Stale(t) \/ \E u \in Started : u > t /\ task[u].session = task[t].session

\* Between the moment it supersedes the queries of s and the moment it has
\* cleared their results.
Clearing(s) ==
  \/ execute.session = s /\ execute.point \in {"bump", "cancel", "clear"}
  \/ drop.session = s /\ drop.point \in {"cancel", "clear"}

\* What a session can read is the result of its newest query and never one that
\* a newer query or a drop has superseded, however late its worker publishes.
\* Neither the cancel flag nor the epoch is enough for that by itself.
ResultsCurrent ==
  \A t \in results : Superseded(t) => Clearing(task[t].session)

\* A query that is Complete can be read until a newer one supersedes it, its
\* session is dropped or it makes room for another.
CompleteReadable ==
  \A t \in Tasks : state[t] = "Complete" =>
    t \in results \/ Superseded(t) \/ t \in removed

\* When drop_session returns Ok, no worker of a query started before it uses the
\* source or the database any more, although a task can leave the map of tasks
\* before its worker has ended.
DropQuiesces ==
  \A t \in dropped : pc[t] \in {"finish", "leave", "ended"} /\ t \notin results

-----------------------------------------------------------------------------
(* The inductive invariant behind these properties (ColumnValuesProofs) *)

Finished(t) == pc[t] \in {"finish", "leave", "ended"}

\* Executions are numbered as they start, and the one in progress is the newest.
ExecutionsOrdered ==
  /\ \A t \in Started : 1..t \subseteq Started
  /\ ~At("idle") =>
       /\ execute.task \in Started /\ pc[execute.task] = "none"
       /\ task[execute.task].session = execute.session
       /\ \A t \in Started : t <= execute.task

\* A counter serves one session, and so do the tasks that took it.
EpochsOwned ==
  /\ \A t \in Started : task[t].epoch \in 1..counters
  /\ \A s \in Sessions : query_epochs[s] <= counters
  /\ \A t, u \in Started :
       task[t].epoch = task[u].epoch => task[t].session = task[u].session
  /\ \A s \in Sessions, t \in Started :
       query_epochs[s] = task[t].epoch => task[t].session = s
  /\ \A r, s \in Sessions : query_epochs[r] = query_epochs[s] => r = s \/ query_epochs[s] = None

\* A counter moves once for every execution and drop that has moved it, and never back
\* to a generation that a task has taken.
EpochsCount ==
  LET moves == Cardinality(Started) + drops IN
  /\ \A e \in 1..MaxEpochs :
       epoch_value[e] <= moves /\ (At("bump") => epoch_value[e] < moves)
  /\ \A t \in Started :
       task[t].generation <= epoch_value[task[t].epoch] \/ (At("bump") /\ execute.task = t)

\* A worker that may still publish is in the map of tasks, so that every newer execution
\* of its session finds it there, and only finished ones have results.
WorkersFound ==
  \A t \in Tasks :
    /\ pc[t] \in {"prepare", "build"} => t \in tasks /\ state[t] \in Active
    /\ pc[t] = "none" => state[t] = "none"
    /\ pc[t] # "none" => t \in Started
    /\ t \in results => Finished(t)
    /\ \A u \in Started :
         pc[t] \in {"prepare", "build"} /\ u > t /\ task[u].session = task[t].session
           => cancel[t] \/ (execute.task = u /\ execute.point \in {"bump", "cancel"})

\* What a drop has found is of its session, and finished when it goes on.
DoomedAgree ==
  \A t \in drop.doomed :
    /\ pc[t] # "none" /\ task[t].session = drop.session
    /\ DropAt("clear again") => Finished(t)

QueryInvariant ==
  /\ TypeOK /\ ExecutionsOrdered /\ EpochsOwned /\ EpochsCount /\ WorkersFound /\ DoomedAgree
  /\ ResultsCurrent /\ CompleteReadable /\ DropQuiesces

===============================================================================
