-------------------------- MODULE ColumnValuesProofs --------------------------
(***************************************************************************)
(* The properties of the queries and of the column values beside them,     *)
(* for any sessions, operations, limits and numbers of commands.           *)
(***************************************************************************)
EXTENDS ColumnValues, FiniteSetTheorems, TLAPS

-----------------------------------------------------------------------------
(* Counting tasks *)

LEMMA TasksFinite ==
  ASSUME NEW S \in SUBSET Tasks
  PROVE  IsFiniteSet(S) /\ Cardinality(S) \in Nat /\ Cardinality(S) <= MaxExecutes
<1>1. MaxExecutes \in Nat
  BY QueryAssumption
<1>2. IsFiniteSet(Tasks) /\ Cardinality(Tasks) = MaxExecutes
  BY <1>1, FS_Interval DEF Tasks
<1>3. QED
  BY <1>1, <1>2, FS_Subset, FS_CardinalityType

\* The executions that have started are the first ones.
LEMMA StartedFirst ==
  ASSUME \A t \in Started : 1..t \subseteq Started
  PROVE  Started = 1..Cardinality(Started) /\ Cardinality(Started) \in 0..MaxExecutes
<1>1. Started \in SUBSET Tasks
  BY DEF Started
<1>2. /\ IsFiniteSet(Started) /\ Cardinality(Started) \in Nat
      /\ Cardinality(Started) <= MaxExecutes /\ MaxExecutes \in Nat
  BY <1>1, TasksFinite, QueryAssumption
<1>3. ASSUME NEW t \in Started PROVE t \in 1..Cardinality(Started)
  <2>1. t \in Nat \ {0}
    BY <1>1, <1>2 DEF Tasks
  <2>2. 1..t \in SUBSET Started
    OBVIOUS
  <2>3. Cardinality(1..t) <= Cardinality(Started)
    BY <1>2, <2>2, FS_Subset
  <2>4. Cardinality(1..t) = t
    BY <2>1, FS_Interval
  <2>5. QED
    BY <1>2, <2>1, <2>3, <2>4
<1>4. Started \in SUBSET (1..Cardinality(Started))
  BY <1>3
<1>5. IsFiniteSet(1..Cardinality(Started))
      /\ Cardinality(1..Cardinality(Started)) = Cardinality(Started)
  BY <1>2, FS_Interval
<1>6. QED
  BY <1>2, <1>4, <1>5, FS_Subset

-----------------------------------------------------------------------------
(* Which steps change what *)

LEMMA Changes ==
  ASSUME [Next]_vars
  PROVE  /\ \/ UNCHANGED <<query_epochs, counters>>
            \/ \E s \in Sessions : Execute(s) \/ DropSession(s)
         /\ \/ epoch_value' = epoch_value
            \/ ExecuteBump \/ \E s \in Sessions : DropSession(s)
         /\ task' = task \/ ExecuteBump \/ \E s \in Sessions : Execute(s)
         /\ tasks' = tasks \/ ExecuteInsert \/ \E t \in Tasks : Leave(t)
         /\ \/ statuses' = statuses \/ ExecuteClear \/ DropClear \/ DropReturns
            \/ \E t \in Tasks : FinishTask(t)
         /\ \/ results' = results \/ ExecuteClear \/ DropClear \/ DropReturns
            \/ \E t \in Tasks : Publish(t)
         /\ permits' = permits \/ \E t \in Tasks : AcquirePermit(t) \/ Leave(t)
         /\ pc' = pc \/ ExecuteInsert \/ \E t \in Tasks : Step(t)
         /\ state' = state \/ ExecuteInsert \/ \E t \in Tasks : Step(t) \/ Cancel(t)
         /\ \/ cancel' = cancel \/ ExecuteCancel \/ DropCancel \/ CancelFlag
            \/ \E t \in Tasks : Step(t)
         /\ \/ execute' = execute \/ ExecuteBump \/ ExecuteCancel \/ ExecuteClear
            \/ ExecuteInsert \/ \E s \in Sessions : Execute(s)
         /\ cancelling' = cancelling \/ CancelFlag \/ \E t \in Tasks : Cancel(t)
         /\ \/ drop' = drop \/ DropCancel \/ DropClear \/ DropWaits \/ DropTimesOut
            \/ DropReturns \/ \E s \in Sessions : DropSession(s)
         /\ dropped' = dropped \/ DropReturns
         /\ \/ removed' = removed \/ DropClear \/ DropReturns
            \/ \E t \in Tasks : Publish(t)
         /\ drops' = drops \/ \E s \in Sessions : DropSession(s)
         /\ cancels' = cancels \/ \E t \in Tasks : Cancel(t)
BY DEF Next, Proceed, Step, vars, epochs, maps, worker, commands,
  Execute, UseCounter, ExecuteBump, ExecuteCancel, ExecuteClear, ExecuteInsert, Cancel,
  CancelFlag, DropSession, DropCancel, DropClear, DropWaits, DropTimesOut, DropReturns,
  PrepareFails, AcquirePermit, BuildFails, Publish, FinishTask, Leave

-----------------------------------------------------------------------------
(* Types *)

Moves == 0..(MaxExecutes + MaxDrops)
TaskRecords == [session : Sessions \union {None}, epoch : Epochs, generation : Moves]

LEMMA Numbers ==
  /\ MaxExecutes \in Nat /\ MaxEpochs \in Nat /\ MaxDrops \in Nat /\ MaxCancels \in Nat
  /\ MaxQueryTasks \in Nat \ {0} /\ MaxQueryResults \in Nat \ {0} /\ MaxQueries \in Nat \ {0}
  /\ None \notin Sessions /\ None \notin Tasks
BY QueryAssumption DEF Tasks, None

LEMMA CounterRange ==
  ASSUME TypeOK, NEW s \in Sessions, UseCounter(s)
  PROVE  /\ CounterOf(s) \in 1..MaxEpochs /\ counters' \in Epochs
         /\ query_epochs' \in [Sessions -> Epochs]
<1>1. /\ counters \in 0..MaxEpochs /\ query_epochs[s] \in 0..MaxEpochs
      /\ query_epochs \in [Sessions -> Epochs]
  BY DEF TypeOK, Epochs
<1>2. CounterOf(s) \in 1..MaxEpochs
  BY <1>1, Numbers DEF UseCounter, CounterOf, None
<1>3. counters' \in Epochs
  BY <1>1, <1>2, Numbers DEF UseCounter, CounterOf, None, Epochs
<1>4. CounterOf(s) \in Epochs
  BY <1>2, Numbers DEF Epochs
<1>5. QED
  BY <1>1, <1>2, <1>3, <1>4 DEF UseCounter

\* The task that Execute starts.
LEMMA ExecuteTask ==
  ASSUME TypeOK, ExecutionsOrdered, NEW s \in Sessions, Execute(s)
  PROVE  /\ Started = 1..Cardinality(Started) /\ Cardinality(Started) \in Nat
         /\ execute'.task = Cardinality(Started) + 1
         /\ execute'.task \in Tasks /\ execute'.task \notin Started
         /\ execute' = [session |-> s, task |-> execute'.task, point |-> "bump"]
         /\ task' = [task EXCEPT ![execute'.task] =
                       [session |-> s, epoch |-> CounterOf(s), generation |-> 0]]
<1>1. Started = 1..Cardinality(Started) /\ Cardinality(Started) \in 0..MaxExecutes
  BY StartedFirst DEF ExecutionsOrdered
<1>2. QED
  BY <1>1, Numbers DEF Execute, Tasks

LEMMA TaskTyped ==
  ASSUME QueryInvariant, [Next]_vars
  PROVE  /\ task' \in [Tasks -> TaskRecords] /\ epoch_value' \in [1..MaxEpochs -> Moves]
         /\ query_epochs' \in [Sessions -> Epochs] /\ counters' \in Epochs
         /\ drops' \in 0..MaxDrops /\ cancels' \in 0..MaxCancels
<1>1. TypeOK /\ ExecutionsOrdered /\ EpochsOwned /\ EpochsCount
  BY DEF QueryInvariant
<1>2. task \in [Tasks -> TaskRecords] /\ epoch_value \in [1..MaxEpochs -> Moves]
  BY <1>1 DEF TypeOK, TaskRecords, Moves
<1>3. Cardinality(Started) \in 0..MaxExecutes /\ drops \in 0..MaxDrops
  BY <1>1, StartedFirst DEF ExecutionsOrdered, TypeOK
<1>4. query_epochs' \in [Sessions -> Epochs] /\ counters' \in Epochs
  <2>1. CASE UNCHANGED <<query_epochs, counters>>
    BY <1>1, <2>1 DEF TypeOK
  <2>2. CASE \E s \in Sessions : Execute(s)
    BY <1>1, <2>2, CounterRange DEF Execute
  <2>3. CASE \E s \in Sessions : DropSession(s)
    <3>1. None \in Epochs
      BY Numbers DEF Epochs, None
    <3>2. QED
      <4>1. PICK s \in Sessions : DropSession(s)
        BY <2>3
      <4>2. counters' = counters /\ query_epochs' = [query_epochs EXCEPT ![s] = None]
        BY <4>1 DEF DropSession
      <4>3. QED
        BY <1>1, <3>1, <4>2 DEF TypeOK
  <2>4. QED
    BY <2>1, <2>2, <2>3, Changes
<1>5. ASSUME ExecuteBump
      PROVE  /\ execute.task \in Tasks /\ task[execute.task].epoch \in 1..MaxEpochs
             /\ epoch_value[task[execute.task].epoch] + 1 \in Moves
  <2>1. execute.task \in Started /\ Started \subseteq Tasks
    BY <1>1, <1>5 DEF ExecuteBump, At, ExecutionsOrdered, Started
  <2>2. task[execute.task].epoch \in 1..MaxEpochs
    <3>1. task[execute.task].epoch \in 1..counters /\ counters \in 0..MaxEpochs
      BY <1>1, <2>1 DEF EpochsOwned, TypeOK, Epochs
    <3>2. QED
      BY <3>1, Numbers
  <2>3. epoch_value[task[execute.task].epoch] < Cardinality(Started) + drops
    BY <1>1, <1>5, <2>2 DEF EpochsCount, ExecuteBump
  <2>4. epoch_value[task[execute.task].epoch] \in Nat
    BY <1>2, <2>2, Numbers DEF Moves
  <2>5. QED
    BY <1>3, <2>1, <2>2, <2>3, <2>4, Numbers DEF Moves
<1>6. task' \in [Tasks -> TaskRecords]
  <2>1. CASE ExecuteBump
    <3>1. [task[execute.task] EXCEPT !.generation = epoch_value[task[execute.task].epoch] + 1]
            \in TaskRecords
      BY <1>2, <1>5, <2>1 DEF TaskRecords
    <3>2. task' = [task EXCEPT ![execute.task] =
                     [task[execute.task] EXCEPT
                        !.generation = epoch_value[task[execute.task].epoch] + 1]]
      BY <2>1 DEF ExecuteBump
    <3>3. QED
      BY <1>2, <3>1, <3>2
  <2>2. CASE \E s \in Sessions : Execute(s)
    <3>1. PICK s \in Sessions : Execute(s)
      BY <2>2
    <3>2. CounterOf(s) \in Epochs
      BY <1>1, <3>1, CounterRange, Numbers DEF Execute, Epochs
    <3>3. [session |-> s, epoch |-> CounterOf(s), generation |-> 0] \in TaskRecords
      BY <3>2, Numbers DEF TaskRecords, Moves
    <3>4. QED
      BY <1>1, <1>2, <3>1, <3>3, ExecuteTask
  <2>3. QED
    BY <1>2, <2>1, <2>2, Changes
<1>7. epoch_value' \in [1..MaxEpochs -> Moves]
  <2>1. CASE ExecuteBump
    BY <1>2, <1>5, <2>1 DEF ExecuteBump
  <2>2. CASE \E s \in Sessions : DropSession(s)
    <3>1. PICK s \in Sessions : DropSession(s)
      BY <2>2
    <3>2. CASE query_epochs[s] = None
      BY <1>2, <3>1, <3>2 DEF DropSession
    <3>3. CASE query_epochs[s] # None
      <4>1. query_epochs[s] \in 1..MaxEpochs
        <5>1. query_epochs[s] \in 0..MaxEpochs
          BY <1>1 DEF TypeOK, Epochs
        <5>2. QED
          BY <3>3, <5>1, Numbers DEF None
      <4>2. epoch_value[query_epochs[s]] <= Cardinality(Started) + drops /\ drops < MaxDrops
        BY <1>1, <3>1, <4>1 DEF EpochsCount, DropSession
      <4>3. epoch_value[query_epochs[s]] \in Nat
        BY <1>2, <4>1, Numbers DEF Moves
      <4>4. epoch_value[query_epochs[s]] + 1 \in Moves
        BY <1>3, <4>2, <4>3, Numbers DEF Moves
      <4>5. QED
        BY <1>2, <3>1, <3>3, <4>1, <4>4 DEF DropSession
    <3>4. QED
      BY <3>2, <3>3
  <2>3. QED
    BY <1>2, <2>1, <2>2, Changes
<1>8. drops' \in 0..MaxDrops /\ cancels' \in 0..MaxCancels
  <2>1. drops' = drops \/ (drops < MaxDrops /\ drops' = drops + 1)
    <3>1. drops' = drops \/ \E s \in Sessions : DropSession(s)
      BY Changes
    <3>2. QED
      <4>1. ASSUME NEW s \in Sessions, DropSession(s)
            PROVE  drops < MaxDrops /\ drops' = drops + 1
        BY <4>1 DEF DropSession
      <4>2. QED
        BY <3>1, <4>1
  <2>2. cancels' = cancels \/ (cancels < MaxCancels /\ cancels' = cancels + 1)
    <3>1. cancels' = cancels \/ \E t \in Tasks : Cancel(t)
      BY Changes
    <3>2. QED
      <4>1. ASSUME NEW t \in Tasks, Cancel(t)
            PROVE  cancels < MaxCancels /\ cancels' = cancels + 1
        BY <4>1 DEF Cancel
      <4>2. QED
        BY <3>1, <4>1
  <2>3. drops \in 0..MaxDrops /\ cancels \in 0..MaxCancels
    BY <1>1 DEF TypeOK
  <2>4. QED
    BY <2>1, <2>2, <2>3, Numbers
<1>9. QED
  BY <1>4, <1>6, <1>7, <1>8

LEMMA CommandsTyped ==
  ASSUME QueryInvariant, [Next]_vars
  PROVE  /\ execute' \in [session : Sessions \union {None}, task : Tasks \union {None},
                          point : {"idle", "bump", "cancel", "clear", "insert"}]
         /\ cancelling' \in Tasks \union {None}
         /\ drop' \in [session : Sessions \union {None}, doomed : SUBSET Tasks,
                       point : {"idle", "cancel", "clear", "wait", "clear again"}]
         /\ removed' \in SUBSET Tasks /\ dropped' \in SUBSET Tasks
<1>1. TypeOK /\ ExecutionsOrdered
  BY DEF QueryInvariant
<1>2. execute' \in [session : Sessions \union {None}, task : Tasks \union {None},
                    point : {"idle", "bump", "cancel", "clear", "insert"}]
  <2>1. CASE \E s \in Sessions : Execute(s)
    <3>1. PICK s \in Sessions : Execute(s)
      BY <2>1
    <3>2. execute' = [session |-> s, task |-> execute'.task, point |-> "bump"]
            /\ execute'.task \in Tasks
      BY <1>1, <3>1, ExecuteTask
    <3>3. QED
      BY <3>2
  <2>2. CASE ExecuteBump \/ ExecuteCancel \/ ExecuteClear
    BY <1>1, <2>2 DEF TypeOK, ExecuteBump, ExecuteCancel, ExecuteClear, ExecuteGoto
  <2>3. CASE ExecuteInsert
    BY <2>3 DEF ExecuteInsert, Idle
  <2>4. QED
    BY <1>1, <2>1, <2>2, <2>3, Changes DEF TypeOK
<1>3. cancelling' \in Tasks \union {None}
  <2>1. cancelling' = cancelling \/ CancelFlag \/ \E t \in Tasks : Cancel(t)
    BY Changes
  <2>2. QED
    <3>1. CancelFlag => cancelling' = None
      BY DEF CancelFlag
    <3>2. \A t \in Tasks : Cancel(t) => cancelling' = t
      BY DEF Cancel
    <3>3. cancelling \in Tasks \union {None}
      BY <1>1 DEF TypeOK
    <3>4. QED
      BY <2>1, <3>1, <3>2, <3>3
<1>4. drop' \in [session : Sessions \union {None}, doomed : SUBSET Tasks,
                 point : {"idle", "cancel", "clear", "wait", "clear again"}]
  <2>1. CASE DropCancel \/ DropClear \/ DropWaits
    BY <1>1, <2>1 DEF TypeOK, DropCancel, DropClear, DropWaits, DropGoto
  <2>2. CASE DropTimesOut \/ DropReturns
    <3>1. drop' = NoDrop
      BY <2>2 DEF DropTimesOut, DropReturns
    <3>2. QED
      BY <3>1 DEF NoDrop
  <2>3. CASE \E s \in Sessions : DropSession(s)
    BY <2>3 DEF DropSession, Of
  <2>4. QED
    BY <1>1, <2>1, <2>2, <2>3, Changes DEF TypeOK
<1>5. removed' \in SUBSET Tasks
  BY <1>1, Changes DEF TypeOK, DropClear, DropReturns, Publish
<1>6. dropped' \in SUBSET Tasks
  BY <1>1, Changes DEF TypeOK, DropReturns
<1>7. QED
  BY <1>2, <1>3, <1>4, <1>5, <1>6

LEMMA WorkersTyped ==
  ASSUME QueryInvariant, [Next]_vars
  PROVE  /\ state' \in [Tasks -> {"none"} \union Active \union Terminal]
         /\ cancel' \in [Tasks -> BOOLEAN]
         /\ pc' \in [Tasks -> {"none", "prepare", "build", "finish", "leave", "ended"}]
<1>1. TypeOK
  BY DEF QueryInvariant
<1>2. state' \in [Tasks -> {"none"} \union Active \union Terminal]
  <2>1. CASE ExecuteInsert
    BY <1>1, <2>1 DEF TypeOK, ExecuteInsert, Active, Terminal
  <2>2. CASE \E t \in Tasks : Step(t) \/ Cancel(t)
    BY <1>1, <2>2 DEF TypeOK, Step, Cancel, PrepareFails, AcquirePermit, BuildFails, Publish,
       FinishTask, Leave, Ends, Active, Terminal
  <2>3. QED
    BY <1>1, <2>1, <2>2, Changes DEF TypeOK
<1>3. cancel' \in [Tasks -> BOOLEAN]
  <2>1. CASE ExecuteCancel \/ DropCancel \/ CancelFlag
    BY <2>1 DEF ExecuteCancel, DropCancel, CancelFlag, CancelTasksOf, Raise
  <2>2. CASE \E t \in Tasks : Step(t)
    BY <1>1, <2>2 DEF TypeOK, Step, PrepareFails, AcquirePermit, BuildFails, Publish,
       FinishTask, Leave, Ends
  <2>3. QED
    BY <1>1, <2>1, <2>2, Changes DEF TypeOK
<1>4. pc' \in [Tasks -> {"none", "prepare", "build", "finish", "leave", "ended"}]
  <2>1. CASE ExecuteInsert
    BY <1>1, <2>1 DEF TypeOK, ExecuteInsert
  <2>2. CASE \E t \in Tasks : Step(t)
    BY <1>1, <2>2 DEF TypeOK, Step, PrepareFails, AcquirePermit, BuildFails, Publish,
       FinishTask, Leave, Ends, Goto
  <2>3. QED
    BY <1>1, <2>1, <2>2, Changes DEF TypeOK
<1>5. QED
  BY <1>2, <1>3, <1>4

\* The limits of the maps and of the permits.
LEMMA MapsTyped ==
  ASSUME QueryInvariant, [Next]_vars
  PROVE  /\ tasks' \in SUBSET Tasks /\ Cardinality(tasks') <= MaxQueryTasks
         /\ statuses' \in SUBSET Tasks /\ Cardinality(statuses') <= MaxQueryTasks
         /\ results' \in SUBSET Tasks /\ Cardinality(results') <= MaxQueryResults
         /\ permits' \in SUBSET Tasks /\ Cardinality(permits') <= MaxQueries
<1>1. TypeOK /\ ExecutionsOrdered
  BY DEF QueryInvariant
<1>2. ASSUME NEW S \in SUBSET Tasks, NEW n \in Nat, Cardinality(S) <= n,
             NEW T \in SUBSET S
      PROVE  T \in SUBSET Tasks /\ Cardinality(T) <= n
  BY <1>2, TasksFinite, FS_Subset
<1>3. ASSUME NEW S \in SUBSET Tasks, NEW n \in Nat, Cardinality(S) < n, NEW t \in Tasks
      PROVE  S \union {t} \in SUBSET Tasks /\ Cardinality(S \union {t}) <= n
  BY <1>3, TasksFinite, FS_AddElement
<1>4. ASSUME NEW S \in SUBSET Tasks, NEW n \in Nat \ {0}, Cardinality(S) <= n,
             NEW T, T \in IF Cardinality(S) >= n THEN {S \ {t} : t \in S} ELSE {S}
      PROVE  T \in SUBSET Tasks /\ Cardinality(T) < n
  <2>1. Cardinality(S) \in Nat
    BY TasksFinite
  <2>2. CASE Cardinality(S) >= n
    <3>1. PICK t \in S : T = S \ {t}
      BY <1>4, <2>2
    <3>2. Cardinality(T) = Cardinality(S) - 1
      BY <3>1, TasksFinite, FS_RemoveElement
    <3>3. QED
      BY <1>4, <2>1, <3>1, <3>2
  <2>3. QED
    BY <1>4, <2>1, <2>2
<1>5. tasks' \in SUBSET Tasks /\ Cardinality(tasks') <= MaxQueryTasks
  <2>1. CASE ExecuteInsert
    <3>1. PICK kept \in SUBSET tasks :
            \/ tasks' = kept
            \/ ~Full(kept) /\ tasks' = kept \union {execute.task}
      BY <2>1 DEF ExecuteInsert
    <3>2. execute.task \in Tasks
      BY <1>1, <2>1 DEF ExecuteInsert, At, ExecutionsOrdered, Started
    <3>3. kept \in SUBSET Tasks /\ Cardinality(kept) <= MaxQueryTasks
      BY <1>1, <1>2, <3>1, Numbers DEF TypeOK
    <3>4. Cardinality(kept) \in Nat
      BY <3>3, TasksFinite
    <3>5. ~Full(kept) => Cardinality(kept) < MaxQueryTasks
      BY <3>4, Numbers DEF Full
    <3>6. QED
      BY <1>3, <3>1, <3>2, <3>3, <3>5, Numbers
  <2>2. CASE \E t \in Tasks : Leave(t)
    BY <1>1, <1>2, <2>2, Numbers DEF TypeOK, Leave
  <2>3. QED
    BY <1>1, <2>1, <2>2, Changes DEF TypeOK
<1>6. statuses' \in SUBSET Tasks /\ Cardinality(statuses') <= MaxQueryTasks
  <2>1. CASE ExecuteClear \/ DropClear \/ DropReturns
    BY <1>1, <1>2, <2>1, Numbers DEF TypeOK, ExecuteClear, DropClear, DropReturns, ClearResults
  <2>2. CASE \E t \in Tasks : FinishTask(t)
    <3>1. PICK t \in Tasks : FinishTask(t)
      BY <2>2
    <3>2. PICK kept : /\ kept \in IF Cardinality(statuses) >= MaxQueryTasks
                                  THEN {statuses \ {u} : u \in statuses} ELSE {statuses}
                      /\ statuses' = kept \union {t}
      BY <3>1 DEF FinishTask
    <3>3. kept \in SUBSET Tasks /\ Cardinality(kept) < MaxQueryTasks
      BY <1>1, <1>4, <3>2, Numbers DEF TypeOK
    <3>4. QED
      BY <1>3, <3>2, <3>3, Numbers
  <2>3. QED
    BY <1>1, <2>1, <2>2, Changes DEF TypeOK
<1>7. results' \in SUBSET Tasks /\ Cardinality(results') <= MaxQueryResults
  <2>1. CASE ExecuteClear \/ DropClear \/ DropReturns
    BY <1>1, <1>2, <2>1, Numbers DEF TypeOK, ExecuteClear, DropClear, DropReturns, ClearResults
  <2>2. CASE \E t \in Tasks : Publish(t)
    <3>1. PICK t \in Tasks : Publish(t)
      BY <2>2
    <3>2. CASE results' # results
      <4>1. PICK kept \in Room : results' = kept \union {t}
        BY <3>1, <3>2 DEF Publish
      <4>2. kept \in SUBSET Tasks /\ Cardinality(kept) < MaxQueryResults
        BY <1>1, <1>4, <4>1, Numbers DEF TypeOK, Room
      <4>3. QED
        BY <1>3, <4>1, <4>2, Numbers
    <3>3. QED
      BY <1>1, <3>2 DEF TypeOK
  <2>3. QED
    BY <1>1, <2>1, <2>2, Changes DEF TypeOK
<1>8. permits' \in SUBSET Tasks /\ Cardinality(permits') <= MaxQueries
  <2>1. CASE \E t \in Tasks : AcquirePermit(t)
    BY <1>1, <1>3, <2>1, Numbers DEF TypeOK, AcquirePermit
  <2>2. CASE \E t \in Tasks : Leave(t)
    BY <1>1, <1>2, <2>2, Numbers DEF TypeOK, Leave
  <2>3. QED
    BY <1>1, <2>1, <2>2, Changes DEF TypeOK
<1>9. QED
  BY <1>5, <1>6, <1>7, <1>8

LEMMA QueriesTyped ==
  ASSUME QueryInvariant, [Next]_vars
  PROVE  TypeOK'
BY TaskTyped, CommandsTyped, WorkersTyped, MapsTyped DEF TypeOK, TaskRecords, Moves

-----------------------------------------------------------------------------
(* What a step keeps *)

\* Tasks that have started keep their session and their counter.
LEMMA TasksForward ==
  ASSUME QueryInvariant, [Next]_vars
  PROVE  /\ Started \subseteq Started' /\ Started' \subseteq Tasks
         /\ \A t \in Started :
              /\ task'[t].session = task[t].session /\ task'[t].epoch = task[t].epoch
              /\ task'[t].generation = task[t].generation \/ (ExecuteBump /\ t = execute.task)
         /\ \A t \in Started' \ Started :
              \E s \in Sessions : Execute(s) /\ t = execute'.task /\ task'[t].session = s
<1>1. /\ TypeOK /\ ExecutionsOrdered
      /\ task \in [Tasks -> TaskRecords] /\ Started \subseteq Tasks /\ Started' \subseteq Tasks
  BY DEF QueryInvariant, TypeOK, TaskRecords, Moves, Started
<1>2. CASE task' = task
  BY <1>1, <1>2 DEF Started
<1>3. CASE ExecuteBump
  <2>1. execute.task \in Tasks
    BY <1>1, <1>3 DEF ExecuteBump, At, ExecutionsOrdered
  <2>2. PICK r : /\ r = [task[execute.task] EXCEPT
                           !.generation = epoch_value[task[execute.task].epoch] + 1]
                 /\ task' = [task EXCEPT ![execute.task] = r]
    BY <1>3 DEF ExecuteBump
  <2>3. r.session = task[execute.task].session /\ r.epoch = task[execute.task].epoch
    BY <1>1, <2>1, <2>2 DEF TaskRecords
  <2>4. \A t \in Tasks : task'[t].session = task[t].session /\ task'[t].epoch = task[t].epoch
    BY <1>1, <2>1, <2>2, <2>3
  <2>5. \A t \in Tasks : t # execute.task => task'[t] = task[t]
    BY <1>1, <2>2
  <2>6. Started' = Started
    BY <2>4 DEF Started
  <2>7. QED
    BY <1>1, <1>3, <2>4, <2>5, <2>6
<1>4. ASSUME NEW s \in Sessions, Execute(s)
      PROVE  /\ Started \subseteq Started'
             /\ \A t \in Started : task'[t] = task[t]
             /\ \A t \in Started' \ Started : t = execute'.task /\ task'[t].session = s
  <2>1. PICK n, r : /\ n = execute'.task /\ n \in Tasks /\ n \notin Started
                    /\ r = [session |-> s, epoch |-> CounterOf(s), generation |-> 0]
                    /\ task' = [task EXCEPT ![n] = r]
    BY <1>1, <1>4, ExecuteTask
  <2>2. task'[n] = r /\ r.session = s /\ \A t \in Tasks : t # n => task'[t] = task[t]
    BY <1>1, <2>1
  <2>3. QED
    BY <1>1, <2>1, <2>2 DEF Started
<1>5. QED
  BY <1>1, <1>2, <1>3, <1>4, Changes

\* One step of a worker.
LEMMA WorkerStep ==
  ASSUME TypeOK, NEW t \in Tasks, Step(t)
  PROVE  /\ \A u \in Tasks \ {t} :
              pc'[u] = pc[u] /\ state'[u] = state[u] /\ cancel'[u] = cancel[u]
         /\ pc[t] \in {"prepare", "build", "finish", "leave"}
         /\ \/ /\ pc[t] = "prepare" /\ pc'[t] = "build" /\ state'[t] = "Running"
               /\ cancel' = cancel /\ tasks' = tasks
            \/ /\ pc[t] \in {"prepare", "build"} /\ Finished(t)' /\ tasks' = tasks
               /\ \/ state'[t] \in {"Cancelled", "Failed"}
                  \/ Publish(t) /\ MayPublish(t) /\ t \in results'
            \/ /\ Finished(t) /\ Finished(t)' /\ state' = state /\ cancel' = cancel
               /\ tasks' = tasks \/ tasks' = tasks \ {t}
<1>1. pc \in [Tasks -> {"none", "prepare", "build", "finish", "leave", "ended"}]
      /\ state \in [Tasks -> {"none"} \union Active \union Terminal]
      /\ cancel \in [Tasks -> BOOLEAN]
  BY DEF TypeOK
<1>2. ASSUME NEW outcome, Ends(t, outcome)
      PROVE  /\ pc'[t] = "finish" /\ state'[t] = outcome
             /\ \A u \in Tasks \ {t} :
                  pc'[u] = pc[u] /\ state'[u] = state[u] /\ cancel'[u] = cancel[u]
  BY <1>1, <1>2 DEF Ends, Goto
<1>3. CASE PrepareFails(t) \/ BuildFails(t)
  BY <1>2, <1>3 DEF PrepareFails, BuildFails, maps, Finished
<1>4. CASE AcquirePermit(t)
  BY <1>1, <1>4 DEF AcquirePermit, Goto, maps
<1>5. CASE Publish(t)
  <2>1. pc[t] = "build" /\ tasks' = tasks
    BY <1>5 DEF Publish
  <2>2. CASE Ends(t, "Cancelled")
    BY <1>2, <2>1, <2>2 DEF Finished
  <2>3. CASE MayPublish(t) /\ Ends(t, "Complete") /\ t \in results'
    BY <1>2, <1>5, <2>1, <2>3 DEF Finished
  <2>4. QED
    BY <1>5, <2>2, <2>3 DEF Publish
<1>6. CASE FinishTask(t)
  BY <1>1, <1>6 DEF FinishTask, Goto, Finished
<1>7. CASE Leave(t)
  BY <1>1, <1>7 DEF Leave, Goto, Finished
<1>8. QED
  BY <1>3, <1>4, <1>5, <1>6, <1>7 DEF Step

\* Workers go on and never back, and results come from them.
LEMMA WorkersForward ==
  ASSUME QueryInvariant, [Next]_vars
  PROVE  /\ \A t \in Tasks : Finished(t) => Finished(t)'
         /\ \A t \in Tasks : pc[t] # "none" => pc'[t] # "none"
         /\ \A t \in Tasks :
              pc'[t] # "none" => pc[t] # "none" \/ (ExecuteInsert /\ t = execute.task)
         /\ \A t \in results' :
              t \in results \/ (pc[t] = "build" /\ Publish(t) /\ MayPublish(t) /\ Finished(t)')
<1>1. TypeOK
  BY DEF QueryInvariant
<1>2. pc \in [Tasks -> {"none", "prepare", "build", "finish", "leave", "ended"}]
  BY <1>1 DEF TypeOK
<1>3. /\ \A t \in Tasks : Finished(t) => Finished(t)'
      /\ \A t \in Tasks : pc[t] # "none" => pc'[t] # "none"
      /\ \A t \in Tasks :
           pc'[t] # "none" => pc[t] # "none" \/ (ExecuteInsert /\ t = execute.task)
  <2>1. CASE pc' = pc
    BY <2>1 DEF Finished
  <2>2. CASE ExecuteInsert
    <3>1. pc[execute.task] = "none"
      BY <2>2 DEF QueryInvariant, ExecutionsOrdered, ExecuteInsert, At
    <3>2. QED
      BY <1>2, <2>2, <3>1 DEF ExecuteInsert, Finished
  <2>3. ASSUME NEW u \in Tasks, Step(u)
        PROVE  /\ \A t \in Tasks : Finished(t) => Finished(t)'
               /\ \A t \in Tasks : pc[t] # "none" <=> pc'[t] # "none"
    BY <1>1, <2>3, WorkerStep DEF Finished
  <2>4. QED
    BY <2>1, <2>2, <2>3, Changes
<1>4. ASSUME NEW t \in results', t \notin results
      PROVE  pc[t] = "build" /\ Publish(t) /\ MayPublish(t) /\ Finished(t)'
  <2>1. PICK u \in Tasks : Publish(u)
    BY <1>4, Changes DEF ExecuteClear, DropClear, DropReturns, ClearResults
  <2>2. PICK kept \in Room : results' = kept \union {u}
    BY <1>4, <2>1 DEF Publish
  <2>3. t = u
    BY <1>4, <2>2 DEF Room
  <2>4. MayPublish(u) /\ Ends(u, "Complete") /\ pc[u] = "build"
    BY <1>4, <2>1 DEF Publish
  <2>5. QED
    BY <1>2, <2>1, <2>3, <2>4 DEF Ends, Goto, Finished
<1>5. QED
  BY <1>3, <1>4

-----------------------------------------------------------------------------
(* The parts of the invariant *)

LEMMA FunctionsTyped ==
  ASSUME TypeOK
  PROVE  /\ counters \in Nat /\ query_epochs \in [Sessions -> Nat]
         /\ task \in [Tasks -> TaskRecords] /\ epoch_value \in [1..MaxEpochs -> Nat]
         /\ drops \in Nat /\ DOMAIN task = Tasks
<1>1. /\ counters \in 0..MaxEpochs /\ query_epochs \in [Sessions -> 0..MaxEpochs]
      /\ task \in [Tasks -> TaskRecords] /\ epoch_value \in [1..MaxEpochs -> Moves]
      /\ drops \in 0..MaxDrops
  BY DEF TypeOK, Epochs, TaskRecords, Moves
<1>2. (0..MaxEpochs) \subseteq Nat /\ (0..MaxDrops) \subseteq Nat /\ Moves \subseteq Nat
  BY Numbers DEF Moves
<1>3. QED
  BY <1>1, <1>2

LEMMA OrderedKept ==
  ASSUME QueryInvariant, [Next]_vars
  PROVE  ExecutionsOrdered'
<1>1. TypeOK /\ ExecutionsOrdered
  BY DEF QueryInvariant
<1>2. /\ Started \subseteq Started' /\ Started \subseteq Tasks
      /\ \A t \in Started : task'[t].session = task[t].session
      /\ \A t \in Started' \ Started :
           \E s \in Sessions : Execute(s) /\ t = execute'.task /\ task'[t].session = s
  BY TasksForward DEF Started
<1>3. ASSUME NEW s \in Sessions, Execute(s)
      PROVE  ExecutionsOrdered'
  <2>1. PICK n, c : /\ c = Cardinality(Started) /\ c \in Nat /\ Started = 1..c /\ n = c + 1
                    /\ n = execute'.task /\ n \in Tasks /\ n \notin Started
                    /\ execute' = [session |-> s, task |-> n, point |-> "bump"]
                    /\ task' = [task EXCEPT ![n] =
                                  [session |-> s, epoch |-> CounterOf(s), generation |-> 0]]
    BY <1>1, <1>3, ExecuteTask
  <2>2. task'[n].session = s /\ s # None
    BY <1>1, <2>1, Numbers, FunctionsTyped
  <2>3. n \in Started'
    BY <2>1, <2>2 DEF Started
  <2>4. Started' = 1..n
    <3>1. \A t \in Started' : t \in Started \/ t = n
      BY <1>2, <2>1
    <3>2. Started' = Started \union {n}
      BY <1>2, <2>3, <3>1
    <3>3. c \in Nat /\ Started = 1..c /\ n = c + 1
      BY <2>1
    <3>4. 1..n = (1..c) \union {n}
      BY <3>3
    <3>5. QED
      BY <3>2, <3>3, <3>4
  <2>5. pc'[n] = "none"
    <3>1. pc' = pc
      BY <1>3 DEF Execute, worker
    <3>2. pc[n] # "none" => n \in Started
      BY <2>1 DEF QueryInvariant, WorkersFound
    <3>3. QED
      BY <2>1, <3>1, <3>2
  <2>6. \A t \in Started' : 1..t \subseteq Started' /\ t <= n
    BY <2>1, <2>4
  <2>7. execute'.task = n /\ execute'.session = s
    BY <2>1
  <2>8. QED
    BY <2>2, <2>3, <2>5, <2>6, <2>7 DEF ExecutionsOrdered
<1>4. CASE Started' = Started
  <2>1. \A t \in Started' : 1..t \subseteq Started'
    BY <1>1, <1>4 DEF ExecutionsOrdered
  <2>2. CASE ExecuteInsert
    BY <2>1, <2>2 DEF ExecuteInsert, ExecutionsOrdered, At, Idle
  <2>3. ASSUME execute'.session = execute.session, execute'.task = execute.task,
               At("idle") => At("idle")', ~ExecuteInsert
        PROVE  ExecutionsOrdered'
    <3>1. ASSUME ~At("idle")'
          PROVE  /\ execute'.task \in Started' /\ pc'[execute'.task] = "none"
                 /\ task'[execute'.task].session = execute'.session
                 /\ \A t \in Started' : t <= execute'.task
      <4>1. /\ execute.task \in Started /\ pc[execute.task] = "none"
            /\ task[execute.task].session = execute.session
            /\ \A t \in Started : t <= execute.task
        BY <1>1, <2>3, <3>1 DEF ExecutionsOrdered
      <4>2. pc'[execute.task] = "none"
        BY <1>2, <2>3, <4>1, WorkersForward
      <4>3. QED
        BY <1>2, <1>4, <2>3, <4>1, <4>2
    <3>2. QED
      BY <2>1, <3>1 DEF ExecutionsOrdered
  <2>4. CASE execute' = execute
    BY <2>2, <2>3, <2>4 DEF At
  <2>5. CASE ExecuteBump \/ ExecuteCancel \/ ExecuteClear
    <3>1. execute'.session = execute.session /\ execute'.task = execute.task /\ ~At("idle")
      BY <1>1, <2>5 DEF TypeOK, ExecuteBump, ExecuteCancel, ExecuteClear, ExecuteGoto, At
    <3>2. QED
      BY <2>2, <2>3, <3>1
  <2>6. QED
    BY <1>3, <2>2, <2>4, <2>5, Changes
<1>5. QED
  BY <1>2, <1>3, <1>4

\* What a counter that has been found or made for a session leaves true of the others.
LEMMA CountersOwned ==
  ASSUME TypeOK, EpochsOwned, NEW s \in Sessions, UseCounter(s)
  PROVE  /\ CounterOf(s) \in 1..counters' /\ query_epochs'[s] = CounterOf(s)
         /\ \A t \in Started : task[t].epoch \in 1..counters'
         /\ \A r \in Sessions : query_epochs'[r] <= counters'
         /\ \A r \in Sessions, t \in Started :
              query_epochs'[r] = task[t].epoch => task[t].session = r
         /\ \A q, r \in Sessions :
              query_epochs'[q] = query_epochs'[r] => q = r \/ query_epochs'[r] = None
<1>1. /\ counters \in Nat /\ query_epochs \in [Sessions -> Nat]
      /\ query_epochs' = [query_epochs EXCEPT ![s] = CounterOf(s)]
  BY FunctionsTyped DEF UseCounter
<1>2. CASE query_epochs[s] = None
  <2>1. CounterOf(s) = counters + 1 /\ counters' = counters + 1
    BY <1>2 DEF CounterOf, UseCounter
  <2>2. QED
    BY <1>1, <2>1 DEF EpochsOwned, None
<1>3. CASE query_epochs[s] # None
  <2>1. CounterOf(s) = query_epochs[s] /\ counters' = counters /\ query_epochs' = query_epochs
    BY <1>1, <1>3 DEF CounterOf, UseCounter
  <2>2. QED
    BY <1>1, <1>3, <2>1 DEF EpochsOwned, None
<1>4. QED
  BY <1>2, <1>3

LEMMA OwnedKept ==
  ASSUME QueryInvariant, [Next]_vars
  PROVE  EpochsOwned'
<1>1. TypeOK /\ ExecutionsOrdered /\ EpochsOwned
  BY DEF QueryInvariant
<1>2. /\ Started \subseteq Started'
      /\ \A t \in Started : task'[t].session = task[t].session /\ task'[t].epoch = task[t].epoch
      /\ \A t \in Started' \ Started :
           \E s \in Sessions : Execute(s) /\ t = execute'.task /\ task'[t].session = s
  BY TasksForward
<1>3. ASSUME NEW s \in Sessions, Execute(s)
      PROVE  EpochsOwned'
  <2>1. UseCounter(s)
    BY <1>3 DEF Execute
  <2>2. PICK n : /\ n = execute'.task /\ n \in Tasks /\ n \notin Started
                 /\ task' = [task EXCEPT ![n] =
                               [session |-> s, epoch |-> CounterOf(s), generation |-> 0]]
    BY <1>1, <1>3, ExecuteTask
  <2>3. task'[n].session = s /\ task'[n].epoch = CounterOf(s)
    BY <1>1, <2>2, FunctionsTyped
  <2>4. \A t \in Started' : t \in Started \/ t = n
    BY <1>2, <2>2
  <2>5. /\ CounterOf(s) \in 1..counters' /\ query_epochs'[s] = CounterOf(s)
        /\ \A t \in Started : task[t].epoch \in 1..counters'
        /\ \A r \in Sessions : query_epochs'[r] <= counters'
        /\ \A r \in Sessions, t \in Started :
             query_epochs'[r] = task[t].epoch => task[t].session = r
        /\ \A q, r \in Sessions :
             query_epochs'[q] = query_epochs'[r] => q = r \/ query_epochs'[r] = None
    BY <1>1, <2>1, CountersOwned
  <2>6. CounterOf(s) # None
    BY <2>5 DEF None
  <2>7. \A t \in Started' : task'[t].epoch \in 1..counters'
    BY <1>2, <2>3, <2>4, <2>5
  <2>8. ASSUME NEW t \in Started', NEW u \in Started', task'[t].epoch = task'[u].epoch
        PROVE  task'[t].session = task'[u].session
    BY <1>1, <1>2, <2>3, <2>4, <2>5, <2>8 DEF EpochsOwned
  <2>9. ASSUME NEW r \in Sessions, NEW t \in Started', query_epochs'[r] = task'[t].epoch
        PROVE  task'[t].session = r
    BY <1>2, <2>3, <2>4, <2>5, <2>6, <2>9
  <2>10. QED
    BY <2>5, <2>7, <2>8, <2>9 DEF EpochsOwned
<1>4. ASSUME Started' = Started, counters' = counters,
             \A s \in Sessions : query_epochs'[s] \in {query_epochs[s], None}
      PROVE  EpochsOwned'
  <2>1. counters \in Nat
    BY <1>1, FunctionsTyped
  <2>2. /\ \A t \in Started' : task'[t].epoch \in 1..counters'
        /\ \A s \in Sessions : query_epochs'[s] <= counters'
    BY <1>1, <1>2, <1>4, <2>1 DEF EpochsOwned, None
  <2>3. \A t, u \in Started' :
          task'[t].epoch = task'[u].epoch => task'[t].session = task'[u].session
    BY <1>1, <1>2, <1>4 DEF EpochsOwned
  <2>4. \A t \in Started' : task'[t].epoch # None
    BY <2>2 DEF None
  <2>5. \A s \in Sessions, t \in Started' :
          query_epochs'[s] = task'[t].epoch => task'[t].session = s
    BY <1>1, <1>2, <1>4, <2>4 DEF EpochsOwned
  <2>6. \A r, s \in Sessions :
          query_epochs'[r] = query_epochs'[s] => r = s \/ query_epochs'[s] = None
    BY <1>1, <1>4 DEF EpochsOwned
  <2>7. QED
    BY <2>2, <2>3, <2>5, <2>6 DEF EpochsOwned
<1>5. ASSUME \A s \in Sessions : ~Execute(s)
      PROVE  EpochsOwned'
  <2>1. Started' = Started
    BY <1>2, <1>5
  <2>2. CASE UNCHANGED <<query_epochs, counters>>
    BY <1>4, <2>1, <2>2
  <2>3. ASSUME NEW s \in Sessions, DropSession(s)
        PROVE  EpochsOwned'
    <3>1. counters' = counters /\ query_epochs' = [query_epochs EXCEPT ![s] = None]
      BY <2>3 DEF DropSession
    <3>2. \A r \in Sessions : query_epochs'[r] \in {query_epochs[r], None}
      BY <1>1, <3>1 DEF TypeOK
    <3>3. QED
      BY <1>4, <2>1, <3>1, <3>2
  <2>4. QED
    BY <1>5, <2>2, <2>3, Changes
<1>6. QED
  BY <1>3, <1>5

LEMMA CountKept ==
  ASSUME QueryInvariant, [Next]_vars
  PROVE  EpochsCount'
<1>1. TypeOK /\ ExecutionsOrdered /\ EpochsOwned /\ EpochsCount
  BY DEF QueryInvariant
<1>2. /\ Started \subseteq Started' /\ Started' \subseteq Tasks
      /\ \A t \in Started :
           /\ task'[t].session = task[t].session /\ task'[t].epoch = task[t].epoch
           /\ task'[t].generation = task[t].generation \/ (ExecuteBump /\ t = execute.task)
      /\ \A t \in Started' \ Started : \E s \in Sessions : Execute(s) /\ t = execute'.task
  BY TasksForward
<1>3. PICK started, started2 :
        /\ started = Cardinality(Started) /\ started \in Nat
        /\ started2 = Cardinality(Started') /\ started2 \in Nat
  BY <1>2, TasksFinite DEF Started
<1>4. /\ drops \in Nat /\ epoch_value \in [1..MaxEpochs -> Nat]
      /\ task \in [Tasks -> TaskRecords] /\ MaxEpochs \in Nat
      /\ \A t \in Tasks : task[t].generation \in Nat
  <2>1. Moves \subseteq Nat
    BY Numbers DEF Moves
  <2>2. QED
    BY <1>1, <2>1, FunctionsTyped, Numbers DEF TaskRecords
<1>5. \A t \in Started : t \in Tasks /\ task[t].epoch \in 1..MaxEpochs
  <2>1. counters \in 0..MaxEpochs
    BY <1>1 DEF TypeOK, Epochs
  <2>2. QED
    BY <1>1, <1>4, <2>1 DEF EpochsOwned, Started
<1>6. /\ \A e \in 1..MaxEpochs :
           epoch_value[e] <= started + drops /\ (At("bump") => epoch_value[e] < started + drops)
      /\ \A t \in Started :
           task[t].generation <= epoch_value[task[t].epoch] \/ (At("bump") /\ execute.task = t)
  BY <1>1, <1>3 DEF EpochsCount
<1>7. SUFFICES /\ \A e \in 1..MaxEpochs :
                    /\ epoch_value'[e] <= started2 + drops'
                    /\ At("bump")' => epoch_value'[e] < started2 + drops'
               /\ \A t \in Started' :
                    \/ task'[t].generation <= epoch_value'[task'[t].epoch]
                    \/ At("bump")' /\ execute'.task = t
  BY <1>3 DEF EpochsCount
<1>8. CASE \E s \in Sessions : Execute(s)
  <2>1. PICK s \in Sessions : Execute(s)
    BY <1>8
  <2>2. PICK n : /\ n = execute'.task /\ n = started + 1 /\ Started = 1..started
                 /\ n \in Tasks /\ n \notin Started
                 /\ execute' = [session |-> s, task |-> n, point |-> "bump"]
                 /\ task' = [task EXCEPT ![n] =
                               [session |-> s, epoch |-> CounterOf(s), generation |-> 0]]
    BY <1>1, <1>3, <2>1, ExecuteTask
  <2>3. epoch_value' = epoch_value /\ drops' = drops /\ At("idle") /\ At("bump")'
    BY <2>1, <2>2 DEF Execute, At
  <2>4. started2 = started + 1
    <3>1. n \in Started'
      BY <1>4, <2>2, Numbers DEF Started
    <3>2. Started' = Started \union {n}
      BY <1>2, <2>2, <3>1
    <3>3. IsFiniteSet(Started)
      BY TasksFinite DEF Started
    <3>4. QED
      BY <1>3, <2>2, <3>2, <3>3, FS_AddElement
  <2>5. \A e \in 1..MaxEpochs : epoch_value'[e] < started2 + drops'
    BY <1>3, <1>4, <1>6, <2>3, <2>4
  <2>6. ASSUME NEW t \in Started'
        PROVE  \/ task'[t].generation <= epoch_value'[task'[t].epoch]
               \/ At("bump")' /\ execute'.task = t
    <3>1. CASE t = n
      BY <2>2, <2>3, <3>1
    <3>2. CASE t \in Started
      <4>1. task'[t] = task[t]
        BY <1>4, <1>5, <2>2, <3>2
      <4>2. QED
        BY <1>6, <2>3, <3>2, <4>1 DEF At
    <3>3. QED
      BY <1>2, <2>2, <2>6, <3>1, <3>2
  <2>7. QED
    BY <1>3, <1>4, <2>3, <2>5, <2>6, Numbers
<1>9. CASE \A s \in Sessions : ~Execute(s)
  <2>1. Started' = Started /\ started2 = started
    BY <1>2, <1>3, <1>9
  <2>2. CASE ExecuteBump
    <3>1. PICK e : /\ e = task[execute.task].epoch /\ e \in 1..MaxEpochs
                   /\ epoch_value' = [epoch_value EXCEPT ![e] = @ + 1]
                   /\ task' = [task EXCEPT ![execute.task].generation = epoch_value[e] + 1]
                   /\ execute.task \in Tasks
      BY <1>1, <1>5, <2>2 DEF ExecuteBump, ExecutionsOrdered, At
    <3>2. At("bump") /\ ~At("bump")' /\ drops' = drops
      <4>1. execute'.point = "cancel"
        BY <1>1, <2>2 DEF ExecuteBump, ExecuteGoto, TypeOK
      <4>2. QED
        BY <2>2, <4>1 DEF ExecuteBump, At
    <3>3. \A f \in 1..MaxEpochs :
            /\ epoch_value'[f] = IF f = e THEN epoch_value[f] + 1 ELSE epoch_value[f]
            /\ epoch_value[f] < started + drops
      BY <1>4, <1>6, <3>1, <3>2
    <3>4. ASSUME NEW f \in 1..MaxEpochs
          PROVE  epoch_value'[f] <= started2 + drops'
      <4>1. epoch_value[f] \in Nat /\ epoch_value[f] < started + drops
        BY <1>4, <3>3
      <4>2. epoch_value'[f] <= epoch_value[f] + 1
        BY <3>3, <4>1
      <4>3. epoch_value'[f] \in Nat
        BY <3>3, <4>1
      <4>4. QED
        BY <1>3, <1>4, <2>1, <3>2, <4>1, <4>2, <4>3
    <3>5. ASSUME NEW t \in Started'
          PROVE  task'[t].generation <= epoch_value'[task'[t].epoch]
      <4>1. t \in Started /\ task'[t].epoch = task[t].epoch
        BY <1>2, <2>1
      <4>2. CASE t = execute.task
        <5>1. task'[t].generation = epoch_value[e] + 1
          <6>1. task'[t] = [task[t] EXCEPT !.generation = epoch_value[e] + 1]
            BY <1>4, <3>1, <4>2
          <6>2. QED
            BY <1>4, <3>1, <4>2, <6>1 DEF TaskRecords
        <5>2. QED
          BY <1>4, <3>1, <3>3, <4>1, <4>2, <5>1
      <4>3. CASE t # execute.task
        <5>1. task'[t].generation = task[t].generation
              /\ task[t].generation <= epoch_value[task[t].epoch]
          BY <1>2, <1>6, <4>1, <4>3
        <5>2. epoch_value'[task[t].epoch] \in {epoch_value[task[t].epoch],
                                                epoch_value[task[t].epoch] + 1}
          BY <1>5, <3>3, <4>1
        <5>3. QED
          BY <1>4, <1>5, <4>1, <5>1, <5>2
      <4>4. QED
        BY <4>2, <4>3
    <3>6. QED
      BY <3>2, <3>4, <3>5
  <2>3. ASSUME ~ExecuteBump
        PROVE  /\ At("bump")' => At("bump")
               /\ At("bump") => At("bump")' /\ execute'.task = execute.task
    <3>1. CASE execute' = execute
      BY <3>1 DEF At
    <3>2. CASE ExecuteCancel \/ ExecuteClear
      BY <1>1, <3>2 DEF ExecuteCancel, ExecuteClear, ExecuteGoto, At, TypeOK
    <3>3. CASE ExecuteInsert
      BY <3>3 DEF ExecuteInsert, Idle, At
    <3>4. QED
      BY <1>9, <2>3, <3>1, <3>2, <3>3, Changes
  <2>4. ASSUME ~ExecuteBump, NEW f \in {0, 1}, drops' = drops + f,
               \A e \in 1..MaxEpochs : epoch_value'[e] \in {epoch_value[e], epoch_value[e] + f}
        PROVE  /\ \A e \in 1..MaxEpochs :
                    /\ epoch_value'[e] <= started2 + drops'
                    /\ At("bump")' => epoch_value'[e] < started2 + drops'
               /\ \A t \in Started' :
                    \/ task'[t].generation <= epoch_value'[task'[t].epoch]
                    \/ At("bump")' /\ execute'.task = t
    <3>1. ASSUME NEW e \in 1..MaxEpochs
          PROVE  /\ epoch_value'[e] <= started2 + drops'
                 /\ At("bump")' => epoch_value'[e] < started2 + drops'
      <4>1. /\ epoch_value[e] \in Nat /\ epoch_value[e] <= started + drops
            /\ At("bump") => epoch_value[e] < started + drops
        BY <1>4, <1>6
      <4>2. epoch_value'[e] = epoch_value[e] \/ epoch_value'[e] = epoch_value[e] + f
        BY <2>4
      <4>3. QED
        BY <1>3, <1>4, <2>1, <2>3, <2>4, <4>1, <4>2
    <3>2. ASSUME NEW t \in Started'
          PROVE  \/ task'[t].generation <= epoch_value'[task'[t].epoch]
                 \/ At("bump")' /\ execute'.task = t
      <4>1. /\ t \in Started /\ task'[t].epoch = task[t].epoch
            /\ task'[t].generation = task[t].generation
        BY <1>2, <2>1, <2>4
      <4>2. PICK e : e = task[t].epoch /\ e \in 1..MaxEpochs
        BY <1>5, <4>1
      <4>3. epoch_value'[e] = epoch_value[e] \/ epoch_value'[e] = epoch_value[e] + f
        BY <2>4, <4>2
      <4>4. task[t].generation <= epoch_value[e] \/ (At("bump") /\ execute.task = t)
        BY <1>6, <4>1, <4>2
      <4>5. epoch_value[e] \in Nat /\ task[t].generation \in Nat
        BY <1>4, <1>5, <4>1, <4>2
      <4>6. QED
        BY <2>3, <2>4, <4>1, <4>2, <4>3, <4>4, <4>5
    <3>3. QED
      BY <3>1, <3>2
  <2>5. ASSUME NEW s \in Sessions, DropSession(s)
        PROVE  /\ drops' = drops + 1
               /\ \A e \in 1..MaxEpochs : epoch_value'[e] \in {epoch_value[e], epoch_value[e] + 1}
    BY <1>4, <2>5 DEF DropSession
  <2>6. CASE ~ExecuteBump /\ \E s \in Sessions : DropSession(s)
    BY <2>4, <2>5, <2>6
  <2>7. CASE ~ExecuteBump /\ \A s \in Sessions : ~DropSession(s)
    <3>1. drops' = drops /\ epoch_value' = epoch_value
      BY <2>7, Changes
    <3>2. drops' = drops + 0
      BY <1>4, <3>1
    <3>3. QED
      BY <2>4, <2>7, <3>1, <3>2
  <2>8. QED
    BY <2>2, <2>6, <2>7
<1>10. QED
  BY <1>8, <1>9

\* The flags: raised once, they stay until the worker is over.
LEMMA CancelsKept ==
  ASSUME QueryInvariant, [Next]_vars, NEW t \in Tasks, cancel[t],
         pc'[t] \in {"prepare", "build"}
  PROVE  cancel'[t]
<1>1. TypeOK
  BY DEF QueryInvariant
<1>2. ASSUME NEW ts, Raise(ts)
      PROVE  cancel'[t]
  BY <1>2 DEF Raise
<1>3. ASSUME NEW u \in Tasks, Step(u)
      PROVE  cancel'[t]
  <2>1. CASE u = t
    BY <1>1, <1>3, <2>1, WorkerStep DEF Finished
  <2>2. CASE u # t
    BY <1>1, <1>3, <2>2, WorkerStep
  <2>3. QED
    BY <2>1, <2>2
<1>4. QED
  BY <1>2, <1>3, Changes DEF ExecuteCancel, DropCancel, CancelFlag, CancelTasksOf

\* A worker that goes on is in the map of tasks, and its status says so.
LEMMA WorkersListed ==
  ASSUME QueryInvariant, [Next]_vars, NEW t \in Tasks
  PROVE  /\ pc'[t] \in {"prepare", "build"} => t \in tasks' /\ state'[t] \in Active
         /\ pc'[t] = "none" => state'[t] = "none"
<1>1. TypeOK /\ ExecutionsOrdered
  BY DEF QueryInvariant
<1>2. /\ pc[t] \in {"prepare", "build"} => t \in tasks /\ state[t] \in Active
      /\ pc[t] = "none" => state[t] = "none"
  BY DEF QueryInvariant, WorkersFound
<1>3. /\ pc \in [Tasks -> {"none", "prepare", "build", "finish", "leave", "ended"}]
      /\ state \in [Tasks -> {"none"} \union Active \union Terminal]
  BY <1>1 DEF TypeOK
<1>4. CASE ExecuteInsert
  <2>1. PICK e, kept : /\ e = execute.task /\ kept = {u \in tasks : state[u] \in Active}
                       /\ \/ tasks' = kept /\ state' = state /\ pc' = pc
                          \/ /\ tasks' = kept \union {e}
                             /\ state' = [state EXCEPT ![e] = "Queued"]
                             /\ pc' = [pc EXCEPT ![e] = "prepare"]
    BY <1>4 DEF ExecuteInsert
  <2>2. QED
    BY <1>2, <1>3, <2>1 DEF Active
<1>5. ASSUME NEW u \in Tasks, Step(u)
      PROVE  /\ pc'[t] \in {"prepare", "build"} => t \in tasks' /\ state'[t] \in Active
             /\ pc'[t] = "none" => state'[t] = "none"
  <2>1. CASE u = t
    BY <1>1, <1>2, <1>5, <2>1, WorkerStep DEF Finished, Active
  <2>2. CASE u # t
    BY <1>1, <1>2, <1>5, <2>2, WorkerStep
  <2>3. QED
    BY <2>1, <2>2
<1>6. ASSUME NEW u \in Tasks, Cancel(u)
      PROVE  /\ pc'[t] \in {"prepare", "build"} => t \in tasks' /\ state'[t] \in Active
             /\ pc'[t] = "none" => state'[t] = "none"
  <2>1. pc' = pc /\ tasks' = tasks
    BY <1>6 DEF Cancel, maps
  <2>2. state'[t] = state[t] \/ (state[t] \in Cancellable /\ state'[t] = "Cancelling")
    BY <1>3, <1>6 DEF Cancel
  <2>3. QED
    BY <1>2, <2>1, <2>2 DEF Cancellable, Active
<1>7. CASE tasks' = tasks /\ state' = state /\ pc' = pc
  BY <1>2, <1>7
<1>8. ASSUME NEW u \in Tasks, Leave(u)
      PROVE  Step(u)
  BY <1>8 DEF Step
<1>9. QED
  BY <1>4, <1>5, <1>6, <1>7, <1>8, Changes

LEMMA FoundKept ==
  ASSUME QueryInvariant, [Next]_vars
  PROVE  WorkersFound'
<1>1. TypeOK /\ ExecutionsOrdered /\ WorkersFound
  BY DEF QueryInvariant
<1>2. /\ Started \subseteq Started' /\ Started' \subseteq Tasks
      /\ \A t \in Started : task'[t].session = task[t].session
      /\ \A t \in Started' \ Started :
           \E s \in Sessions : Execute(s) /\ t = execute'.task /\ task'[t].session = s
  BY TasksForward
<1>3. ASSUME NEW t \in Tasks, pc'[t] # "none"
      PROVE  t \in Started'
  <2>1. CASE pc[t] # "none"
    BY <1>1, <1>2, <2>1 DEF WorkersFound
  <2>2. CASE ExecuteInsert /\ t = execute.task
    BY <1>1, <1>2, <2>2 DEF ExecuteInsert, ExecutionsOrdered, At
  <2>3. QED
    BY <1>3, <2>1, <2>2, WorkersForward
<1>4. ASSUME NEW t \in Tasks, t \in results'
      PROVE  Finished(t)'
  BY <1>1, <1>4, WorkersForward DEF WorkersFound
<1>5. ASSUME NEW t \in Tasks, NEW u \in Started', pc'[t] \in {"prepare", "build"}, u > t,
             task'[u].session = task'[t].session
      PROVE  cancel'[t] \/ (execute'.task = u /\ execute'.point \in {"bump", "cancel"})
  <2>1. CASE u \notin Started
    <3>1. PICK s \in Sessions : Execute(s) /\ u = execute'.task
      BY <1>2, <2>1
    <3>2. execute'.point = "bump"
      BY <3>1 DEF Execute
    <3>3. QED
      BY <3>1, <3>2
  <2>2. CASE u \in Started /\ pc[t] \notin {"prepare", "build"}
    <3>1. ~Finished(t) /\ ExecuteInsert /\ t = execute.task
      BY <1>5, <1>1, <2>2, WorkersForward DEF Finished, TypeOK
    <3>2. u <= t
      BY <1>1, <2>2, <3>1 DEF ExecutionsOrdered, ExecuteInsert, At
    <3>3. u \in Nat /\ t \in Nat
      BY <1>2, <2>2 DEF Tasks
    <3>4. QED
      BY <1>5, <3>2, <3>3
  <2>3. CASE u \in Started /\ pc[t] \in {"prepare", "build"}
    <3>1. t \in Started /\ t \in tasks /\ task[u].session = task[t].session
      BY <1>1, <1>2, <1>5, <2>3 DEF WorkersFound
    <3>2. cancel[t] \/ (execute.task = u /\ execute.point \in {"bump", "cancel"})
      BY <1>1, <1>5, <2>3, <3>1 DEF WorkersFound
    <3>3. CASE cancel[t]
      BY <1>5, <3>3, CancelsKept
    <3>4. CASE execute.task = u /\ execute.point \in {"bump", "cancel"}
      <4>1. CASE ExecuteCancel
        <5>1. task[u].session = execute.session
          BY <1>1, <3>4 DEF ExecutionsOrdered, At
        <5>2. t \in tasks \intersect Of(execute.session)
          BY <3>1, <5>1 DEF Of
        <5>3. QED
          BY <2>3, <4>1, <5>2 DEF ExecuteCancel, CancelTasksOf, Raise
      <4>2. CASE ExecuteBump
        <5>1. execute'.task = execute.task /\ execute'.point = "cancel"
          BY <1>1, <4>2 DEF ExecuteBump, ExecuteGoto, TypeOK
        <5>2. QED
          BY <3>4, <5>1
      <4>3. CASE execute' = execute
        BY <3>4, <4>3
      <4>4. QED
        BY <3>4, <4>1, <4>2, <4>3, Changes DEF ExecuteClear, ExecuteInsert, Execute, At
    <3>5. QED
      BY <3>2, <3>3, <3>4
  <2>4. QED
    BY <2>1, <2>2, <2>3
<1>6. QED
  BY <1>3, <1>4, <1>5, WorkersListed DEF WorkersFound

LEMMA DoomedKept ==
  ASSUME QueryInvariant, [Next]_vars
  PROVE  DoomedAgree'
<1>1. TypeOK /\ WorkersFound /\ DoomedAgree /\ drop.doomed \subseteq Tasks
  BY DEF QueryInvariant, TypeOK
<1>2. ASSUME NEW t \in Tasks, pc[t] # "none"
      PROVE  task'[t].session = task[t].session /\ pc'[t] # "none"
  <2>1. t \in Started
    BY <1>1, <1>2 DEF WorkersFound
  <2>2. QED
    BY <1>2, <2>1, TasksForward, WorkersForward
<1>3. ASSUME drop'.doomed = drop.doomed, drop'.session = drop.session,
             DropAt("clear again")' => \A t \in drop.doomed : Finished(t)
      PROVE  DoomedAgree'
  BY <1>1, <1>2, <1>3, WorkersForward DEF DoomedAgree
<1>4. CASE drop' = drop
  BY <1>1, <1>3, <1>4 DEF DoomedAgree, DropAt
<1>5. CASE DropCancel \/ DropClear
  BY <1>1, <1>3, <1>5 DEF DropCancel, DropClear, DropGoto, DropAt, TypeOK
<1>6. CASE DropWaits
  <2>1. \A t \in drop.doomed : Finished(t)
    BY <1>1, <1>6 DEF DropWaits, Quiet, DoomedAgree, WorkersFound, Of, Finished, TypeOK
  <2>2. drop'.doomed = drop.doomed /\ drop'.session = drop.session
    BY <1>1, <1>6 DEF DropWaits, DropGoto, TypeOK
  <2>3. QED
    BY <1>3, <2>1, <2>2
<1>7. CASE DropTimesOut \/ DropReturns
  <2>1. drop' = NoDrop
    BY <1>7 DEF DropTimesOut, DropReturns
  <2>2. drop'.doomed = {}
    BY <2>1 DEF NoDrop
  <2>3. QED
    BY <2>2 DEF DoomedAgree
<1>8. ASSUME NEW s \in Sessions, DropSession(s)
      PROVE  DoomedAgree'
  <2>1. /\ drop'.session = s /\ drop'.point = "cancel"
        /\ drop'.doomed = {t \in Of(s) : pc[t] # "none"}
    BY <1>8 DEF DropSession
  <2>2. \A t \in drop'.doomed : t \in Tasks /\ pc[t] # "none" /\ task[t].session = s
    BY <2>1 DEF Of
  <2>3. QED
    BY <1>2, <2>1, <2>2 DEF DoomedAgree, DropAt
<1>9. QED
  BY <1>4, <1>5, <1>6, <1>7, <1>8, Changes

-----------------------------------------------------------------------------
(* The properties *)

\* What a worker has built stays superseded: no counter comes back to a generation.
LEMMA SupersededForward ==
  ASSUME QueryInvariant, [Next]_vars, NEW t \in Tasks, pc[t] # "none", Superseded(t)
  PROVE  Superseded(t)'
<1>1. /\ TypeOK /\ ExecutionsOrdered /\ EpochsOwned /\ EpochsCount /\ WorkersFound
      /\ TypeOK'
  BY QueriesTyped DEF QueryInvariant
<1>2. t \in Started
  BY <1>1 DEF WorkersFound
<1>3. /\ Started \subseteq Started'
      /\ \A u \in Started :
           /\ task'[u].session = task[u].session /\ task'[u].epoch = task[u].epoch
           /\ task'[u].generation = task[u].generation \/ (ExecuteBump /\ u = execute.task)
  BY TasksForward
<1>4. CASE \E u \in Started : u > t /\ task[u].session = task[t].session
  BY <1>2, <1>3, <1>4 DEF Superseded
<1>5. CASE Stale(t)
  <2>1. ~(At("bump") /\ execute.task = t) /\ ~(ExecuteBump /\ t = execute.task)
    BY <1>1 DEF ExecutionsOrdered, At, ExecuteBump
  <2>2. PICK e : e = task[t].epoch /\ e \in 1..MaxEpochs /\ e # None
    <3>1. counters \in 0..MaxEpochs
      BY <1>1 DEF TypeOK, Epochs
    <3>2. task[t].epoch \in 1..counters
      BY <1>1, <1>2 DEF EpochsOwned
    <3>3. QED
      BY <3>1, <3>2, Numbers DEF None
  <2>3. epoch_value[e] \in Nat /\ epoch_value'[e] \in Nat
    <3>1. epoch_value \in [1..MaxEpochs -> Nat]
      BY <1>1, FunctionsTyped
    <3>2. epoch_value' \in [1..MaxEpochs -> Moves] /\ Moves \subseteq Nat
      BY TaskTyped, Numbers DEF Moves
    <3>3. QED
      BY <2>2, <3>1, <3>2
  <2>4. epoch_value[e] <= epoch_value'[e]
    <3>1. epoch_value \in [1..MaxEpochs -> Nat]
      BY <1>1, FunctionsTyped
    <3>2. epoch_value'[e] = epoch_value[e] \/ epoch_value'[e] = epoch_value[e] + 1
      <4>1. CASE ExecuteBump
        <5>1. PICK f : epoch_value' = [epoch_value EXCEPT ![f] = @ + 1]
          BY <4>1 DEF ExecuteBump
        <5>2. QED
          BY <2>2, <3>1, <5>1
      <4>2. ASSUME NEW s \in Sessions, DropSession(s)
            PROVE  epoch_value'[e] = epoch_value[e] \/ epoch_value'[e] = epoch_value[e] + 1
        <5>1. PICK f : \/ epoch_value' = epoch_value
                       \/ epoch_value' = [epoch_value EXCEPT ![f] = @ + 1]
          BY <4>2 DEF DropSession
        <5>2. QED
          BY <2>2, <3>1, <5>1
      <4>3. QED
        BY <4>1, <4>2, Changes
    <3>3. QED
      BY <2>3, <3>2
  <2>5. task[t].generation \in Nat /\ task[t].generation < epoch_value[e]
    <3>1. task[t].generation \in Nat
      BY <1>1, FunctionsTyped, Numbers DEF TaskRecords, Moves
    <3>2. task[t].generation <= epoch_value[e] /\ task[t].generation # epoch_value[e]
      BY <1>1, <1>2, <1>5, <2>1, <2>2 DEF EpochsCount, Stale
    <3>3. QED
      BY <2>3, <3>1, <3>2
  <2>6. task'[t].epoch = e /\ task'[t].generation = task[t].generation
    BY <1>2, <1>3, <2>1, <2>2
  <2>7. epoch_value'[e] # task'[t].generation
    BY <2>3, <2>4, <2>5, <2>6
  <2>8. Stale(t)'
    BY <2>2, <2>6, <2>7 DEF Stale
  <2>9. QED
    BY <2>8 DEF Superseded
<1>6. QED
  BY <1>4, <1>5 DEF Superseded

\* A session whose results are not cleared yet, one step on.
LEMMA ClearingForward ==
  ASSUME QueryInvariant, [Next]_vars, NEW t \in results, t \in results',
         Clearing(task[t].session)
  PROVE  Clearing(task[t].session)'
<1>1. TypeOK /\ TypeOK'
  BY QueriesTyped DEF QueryInvariant
<1>2. PICK s : s = task[t].session /\ t \in Of(s)
  BY <1>1 DEF Of, TypeOK
<1>3. task'[t].session = s
  <2>1. t \in Started
    BY <1>1 DEF QueryInvariant, WorkersFound, Finished, TypeOK
  <2>2. QED
    BY <1>2, <2>1, TasksForward
<1>4. CASE execute.session = s /\ execute.point \in {"bump", "cancel", "clear"}
  <2>1. ~ExecuteClear
    BY <1>2, <1>4 DEF ExecuteClear, ClearResults
  <2>2. execute'.session = s /\ execute'.point \in {"bump", "cancel", "clear"}
    <3>1. CASE execute' = execute
      BY <1>4, <3>1
    <3>2. CASE ExecuteBump \/ ExecuteCancel
      BY <1>1, <1>4, <3>2 DEF ExecuteBump, ExecuteCancel, ExecuteGoto, TypeOK
    <3>3. ~ExecuteInsert /\ \A r \in Sessions : ~Execute(r)
      BY <1>4 DEF ExecuteInsert, Execute, At
    <3>4. QED
      BY <2>1, <3>1, <3>2, <3>3, Changes
  <2>3. QED
    BY <1>3, <2>2 DEF Clearing
<1>5. CASE drop.session = s /\ drop.point \in {"cancel", "clear"}
  <2>1. ~DropClear
    BY <1>2, <1>5 DEF DropClear, ClearResults
  <2>2. drop'.session = s /\ drop'.point \in {"cancel", "clear"}
    <3>1. CASE drop' = drop
      BY <1>5, <3>1
    <3>2. CASE DropCancel
      BY <1>1, <1>5, <3>2 DEF DropCancel, DropGoto, TypeOK
    <3>3. /\ ~DropWaits /\ ~DropTimesOut /\ ~DropReturns
          /\ \A r \in Sessions : ~DropSession(r)
      BY <1>5 DEF DropWaits, DropTimesOut, DropReturns, DropSession, DropAt
    <3>4. QED
      BY <2>1, <3>1, <3>2, <3>3, Changes
  <2>3. QED
    BY <1>3, <2>2 DEF Clearing
<1>6. QED
  BY <1>2, <1>4, <1>5 DEF Clearing

\* What supersedes a result begins to clear its session in the same step.
LEMMA SupersededStarts ==
  ASSUME QueryInvariant, [Next]_vars, NEW t \in Tasks, pc[t] # "none", ~Superseded(t),
         Superseded(t)'
  PROVE  Clearing(task[t].session)'
<1>1. TypeOK /\ ExecutionsOrdered /\ EpochsOwned /\ WorkersFound /\ TypeOK'
  BY QueriesTyped DEF QueryInvariant
<1>2. t \in Started /\ task[t].session \in Sessions
  BY <1>1 DEF WorkersFound, Started, TypeOK
<1>3. /\ Started \subseteq Started'
      /\ \A u \in Started :
           /\ task'[u].session = task[u].session /\ task'[u].epoch = task[u].epoch
           /\ task'[u].generation = task[u].generation \/ (ExecuteBump /\ u = execute.task)
      /\ \A u \in Started' \ Started :
           \E s \in Sessions : Execute(s) /\ u = execute'.task /\ task'[u].session = s
  BY TasksForward
<1>4. CASE \E u \in Started' : u > t /\ task'[u].session = task'[t].session
  <2>1. PICK u \in Started' : u > t /\ task'[u].session = task'[t].session
    BY <1>4
  <2>2. u \notin Started
    BY <1>2, <1>3, <2>1 DEF Superseded
  <2>3. PICK s \in Sessions : Execute(s) /\ task'[u].session = s
    BY <1>3, <2>1, <2>2
  <2>4. execute'.session = s /\ execute'.point = "bump"
    BY <2>3 DEF Execute
  <2>5. QED
    BY <1>2, <1>3, <2>1, <2>3, <2>4 DEF Clearing
<1>5. CASE Stale(t)'
  <2>1. PICK e : e = task[t].epoch /\ e = task'[t].epoch /\ e \in 1..counters
    BY <1>1, <1>2, <1>3 DEF EpochsOwned
  <2>2. e \in DOMAIN epoch_value
    <3>1. counters \in 0..MaxEpochs
      BY <1>1 DEF TypeOK, Epochs
    <3>2. DOMAIN epoch_value = 1..MaxEpochs
      BY <1>1, FunctionsTyped
    <3>3. QED
      BY <2>1, <3>1, <3>2, Numbers
  <2>3. ~(ExecuteBump /\ t = execute.task)
    BY <1>1 DEF ExecutionsOrdered, At, ExecuteBump
  <2>4. epoch_value'[e] # epoch_value[e]
    BY <1>2, <1>3, <1>5, <2>1, <2>3 DEF Superseded, Stale
  <2>5. CASE ExecuteBump
    <3>1. /\ execute.task \in Started /\ task[execute.task].session = execute.session
          /\ epoch_value' = [epoch_value EXCEPT ![task[execute.task].epoch] = @ + 1]
      BY <1>1, <2>5 DEF ExecutionsOrdered, At, ExecuteBump
    <3>2. task[execute.task].epoch = e
      <4>1. PICK f : f = task[execute.task].epoch
                     /\ epoch_value' = [epoch_value EXCEPT ![f] = @ + 1]
        BY <3>1
      <4>2. e \in DOMAIN epoch_value => f = e
        BY <2>4, <4>1
      <4>3. QED
        BY <2>2, <4>1, <4>2
    <3>3. execute.session = task[t].session
      BY <1>1, <1>2, <2>1, <3>1, <3>2 DEF EpochsOwned
    <3>4. execute'.session = execute.session /\ execute'.point = "cancel"
      BY <1>1, <2>5 DEF ExecuteBump, ExecuteGoto, TypeOK
    <3>5. QED
      BY <1>2, <1>3, <3>3, <3>4 DEF Clearing
  <2>6. ASSUME NEW s \in Sessions, DropSession(s)
        PROVE  Clearing(task[t].session)'
    <3>1. /\ epoch_value' = IF query_epochs[s] = None THEN epoch_value
                            ELSE [epoch_value EXCEPT ![query_epochs[s]] = @ + 1]
          /\ drop'.session = s /\ drop'.point = "cancel"
      BY <2>6 DEF DropSession
    <3>2. query_epochs[s] = e
      <4>1. PICK f : f = query_epochs[s] /\ (\/ epoch_value' = epoch_value
                                             \/ epoch_value' = [epoch_value EXCEPT ![f] = @ + 1])
        BY <3>1
      <4>2. e \in DOMAIN epoch_value => f = e
        BY <2>4, <4>1
      <4>3. QED
        BY <2>2, <4>1, <4>2
    <3>3. task[t].session = s
      <4>1. query_epochs[s] = task[t].epoch
        BY <2>1, <3>2
      <4>2. QED
        BY <1>1, <1>2, <2>6, <4>1 DEF EpochsOwned
    <3>4. QED
      BY <1>2, <1>3, <3>1, <3>3 DEF Clearing
  <2>7. QED
    BY <2>4, <2>5, <2>6, Changes
<1>6. QED
  BY <1>4, <1>5 DEF Superseded

LEMMA CurrentKept ==
  ASSUME QueryInvariant, [Next]_vars
  PROVE  ResultsCurrent'
<1>1. TypeOK /\ ExecutionsOrdered /\ WorkersFound /\ ResultsCurrent
  BY DEF QueryInvariant
<1>2. SUFFICES ASSUME NEW t \in results', Superseded(t)'
               PROVE  Clearing(task[t].session)'
  BY DEF ResultsCurrent
<1>3. CASE t \in results
  <2>1. t \in Tasks /\ pc[t] # "none"
    BY <1>1, <1>3 DEF WorkersFound, Finished, TypeOK
  <2>2. CASE Superseded(t)
    BY <1>1, <1>2, <1>3, <2>2, ClearingForward DEF ResultsCurrent
  <2>3. CASE ~Superseded(t)
    BY <1>2, <2>1, <2>3, SupersededStarts
  <2>4. QED
    BY <2>2, <2>3
<1>4. CASE t \notin results
  <2>1. Publish(t) /\ MayPublish(t) /\ pc[t] = "build" /\ t \in Tasks
    BY <1>4, WorkersForward, MapsTyped
  <2>2. epoch_value' = epoch_value /\ task' = task /\ execute' = execute /\ Started' = Started
    BY <2>1 DEF Publish, epochs, commands, Started
  <2>3. ~Stale(t)' /\ ~cancel[t]
    BY <2>1, <2>2 DEF MayPublish, Stale
  <2>4. PICK u \in Started : u > t /\ task[u].session = task[t].session
    BY <1>2, <2>2, <2>3 DEF Superseded
  <2>5. execute.task = u /\ execute.point \in {"bump", "cancel"}
    BY <1>1, <2>1, <2>3, <2>4 DEF WorkersFound
  <2>6. execute.session = task[t].session
    BY <1>1, <2>4, <2>5 DEF ExecutionsOrdered, At
  <2>7. QED
    BY <2>2, <2>5, <2>6 DEF Clearing
<1>5. QED
  BY <1>3, <1>4

LEMMA ReadableKept ==
  ASSUME QueryInvariant, [Next]_vars
  PROVE  CompleteReadable'
<1>1. TypeOK /\ ExecutionsOrdered /\ WorkersFound /\ CompleteReadable
  BY DEF QueryInvariant
<1>2. SUFFICES ASSUME NEW t \in Tasks, state'[t] = "Complete"
               PROVE  t \in results' \/ Superseded(t)' \/ t \in removed'
  BY DEF CompleteReadable
<1>3. ASSUME NEW u \in Tasks, Step(u), state[t] # "Complete"
      PROVE  t \in results'
  BY <1>1, <1>2, <1>3, WorkerStep
<1>4. ASSUME NEW u \in Tasks, Cancel(u)
      PROVE  state[t] = "Complete"
  BY <1>1, <1>2, <1>4 DEF Cancel, TypeOK
<1>5. CASE ExecuteInsert
  <2>1. state[t] = "Complete"
    BY <1>1, <1>2, <1>5 DEF ExecuteInsert, TypeOK
  <2>2. UNCHANGED <<results, removed, epoch_value, task>>
    BY <1>5 DEF ExecuteInsert, epochs
  <2>3. QED
    BY <1>1, <2>1, <2>2 DEF CompleteReadable, Superseded, Stale, Started
<1>6. CASE state[t] = "Complete" /\ ~ExecuteInsert
  <2>1. pc[t] # "none" /\ t \in Started
    BY <1>1, <1>6 DEF WorkersFound
  <2>2. removed \subseteq removed'
    BY Changes DEF DropClear, DropReturns, Publish
  <2>3. CASE Superseded(t) \/ t \in removed
    BY <2>1, <2>2, <2>3, SupersededForward
  <2>4. CASE t \in results /\ ~Superseded(t)
    <3>1. CASE ExecuteClear
      <4>1. /\ execute.task \in Started /\ pc[execute.task] = "none" /\ t <= execute.task
            /\ task[execute.task].session = execute.session
        BY <1>1, <2>1, <3>1 DEF ExecutionsOrdered, ExecuteClear, At
      <4>2. t \in Nat /\ execute.task \in Nat /\ t # execute.task
        BY <2>1, <4>1 DEF Started, Tasks
      <4>3. execute.task > t
        BY <4>1, <4>2
      <4>4. task[t].session # execute.session
        BY <2>4, <4>1, <4>3 DEF Superseded
      <4>5. QED
        BY <2>4, <3>1, <4>4 DEF ExecuteClear, ClearResults, Of
    <3>2. CASE DropClear \/ DropReturns
      BY <2>4, <3>2 DEF DropClear, DropReturns, ClearResults
    <3>3. ASSUME NEW u \in Tasks, Publish(u)
          PROVE  t \in results' \/ t \in removed'
      BY <2>4, <3>3 DEF Publish
    <3>4. QED
      BY <2>4, <3>1, <3>2, <3>3, Changes
  <2>5. QED
    BY <1>1, <1>6, <2>3, <2>4 DEF CompleteReadable
<1>7. QED
  BY <1>2, <1>3, <1>4, <1>5, <1>6, Changes

LEMMA QuiescesKept ==
  ASSUME QueryInvariant, [Next]_vars
  PROVE  DropQuiesces'
<1>1. TypeOK /\ DoomedAgree /\ DropQuiesces
  BY DEF QueryInvariant
<1>2. ASSUME NEW t \in Tasks, Finished(t)
      PROVE  Finished(t)' /\ (t \in results' => t \in results)
  BY <1>2, WorkersForward DEF Finished
<1>3. ASSUME NEW t \in dropped
      PROVE  Finished(t)' /\ t \notin results'
  BY <1>1, <1>2, <1>3 DEF DropQuiesces, Finished, TypeOK
<1>4. ASSUME DropReturns, NEW t \in drop.doomed
      PROVE  Finished(t)' /\ t \notin results'
  <2>1. t \in Tasks /\ Finished(t) /\ task[t].session = drop.session
    BY <1>1, <1>4 DEF DropReturns, DoomedAgree, TypeOK
  <2>2. QED
    BY <1>2, <1>4, <2>1 DEF DropReturns, ClearResults, Of
<1>5. \A t \in dropped' : t \in dropped \/ (DropReturns /\ t \in drop.doomed)
  BY Changes DEF DropReturns
<1>6. QED
  BY <1>3, <1>4, <1>5 DEF DropQuiesces, Finished

LEMMA QueryStep ==
  ASSUME QueryInvariant, [Next]_vars
  PROVE  QueryInvariant'
BY QueriesTyped, OrderedKept, OwnedKept, CountKept, FoundKept, DoomedKept, CurrentKept,
   ReadableKept, QuiescesKept DEF QueryInvariant

-----------------------------------------------------------------------------
(* The queries, with the column values beside them *)

LEMMA QueryInit ==
  ASSUME Init
  PROVE  QueryInvariant
<1>1. /\ \A t \in Tasks : task[t] = NoTask /\ state[t] = "none" /\ pc[t] = "none"
      /\ tasks = {} /\ statuses = {} /\ results = {} /\ permits = {} /\ dropped = {}
      /\ execute = Idle /\ drop = NoDrop /\ counters = 0 /\ drops = 0
      /\ \A s \in Sessions : query_epochs[s] = None
      /\ \A e \in 1..MaxEpochs : epoch_value[e] = 0
  BY DEF Init
<1>2. Started = {}
  BY <1>1 DEF Started, NoTask
<1>3. TypeOK
  <2>1. Cardinality({}) = 0 /\ 0 \in 0..MaxEpochs /\ 0 \in 0..(MaxExecutes + MaxDrops)
        /\ 0 \in 0..MaxDrops /\ 0 \in 0..MaxCancels /\ 0 <= MaxQueryTasks
        /\ 0 <= MaxQueryResults /\ 0 <= MaxQueries
    BY FS_EmptySet, Numbers
  <2>2. NoTask \in [session : Sessions \union {None}, epoch : Epochs,
                    generation : 0..(MaxExecutes + MaxDrops)]
    BY <2>1 DEF NoTask, Epochs, None
  <2>3. /\ Idle \in [session : Sessions \union {None}, task : Tasks \union {None},
                     point : {"idle", "bump", "cancel", "clear", "insert"}]
        /\ NoDrop \in [session : Sessions \union {None}, doomed : SUBSET Tasks,
                       point : {"idle", "cancel", "clear", "wait", "clear again"}]
    BY DEF Idle, NoDrop
  <2>4. /\ counters \in Epochs /\ query_epochs \in [Sessions -> Epochs]
        /\ epoch_value \in [1..MaxEpochs -> 0..(MaxExecutes + MaxDrops)]
        /\ drops \in 0..MaxDrops /\ cancels \in 0..MaxCancels
    BY <2>1 DEF Init, Epochs, None
  <2>5. QED
    BY <1>1, <2>1, <2>2, <2>3, <2>4 DEF Init, TypeOK
<1>4. At("idle") /\ ~At("bump") /\ drop.doomed = {}
  BY <1>1 DEF At, Idle, NoDrop
<1>5. ExecutionsOrdered /\ WorkersFound /\ DoomedAgree
  BY <1>1, <1>2, <1>4 DEF ExecutionsOrdered, WorkersFound, DoomedAgree
<1>6. EpochsOwned
  BY <1>1, <1>2 DEF EpochsOwned, None
<1>7. EpochsCount
  BY <1>1, <1>2, <1>4, FS_EmptySet DEF EpochsCount
<1>8. ResultsCurrent /\ CompleteReadable /\ DropQuiesces
  BY <1>1 DEF ResultsCurrent, CompleteReadable, DropQuiesces
<1>9. QED
  BY <1>3, <1>5, <1>6, <1>7, <1>8 DEF QueryInvariant

\* An operation that makes the counter of its session disturbs no query.
LEMMA CounterMade ==
  ASSUME QueryInvariant, NEW s \in Sessions, UseCounter(s),
         UNCHANGED <<epoch_value, task, cancel, maps, worker, commands, removed>>
  PROVE  QueryInvariant'
<1>1. /\ TypeOK /\ EpochsOwned /\ ExecutionsOrdered /\ EpochsCount /\ WorkersFound /\ DoomedAgree
      /\ ResultsCurrent /\ CompleteReadable /\ DropQuiesces
  BY DEF QueryInvariant
<1>2. /\ UNCHANGED <<epoch_value, task, cancel, tasks, statuses, results, state, permits, pc>>
      /\ UNCHANGED <<execute, cancelling, drop, dropped, drops, cancels, removed>>
      /\ Started' = Started
  BY DEF maps, worker, commands, Started
<1>3. TypeOK'
  BY <1>1, <1>2, CounterRange DEF TypeOK
<1>4. EpochsOwned'
  <2>1. /\ \A t \in Started : task[t].epoch \in 1..counters'
        /\ \A r \in Sessions : query_epochs'[r] <= counters'
        /\ \A r \in Sessions, t \in Started :
             query_epochs'[r] = task[t].epoch => task[t].session = r
        /\ \A q, r \in Sessions :
             query_epochs'[q] = query_epochs'[r] => q = r \/ query_epochs'[r] = None
    BY <1>1, CountersOwned
  <2>2. QED
    BY <1>1, <1>2, <2>1 DEF EpochsOwned
<1>5. ExecutionsOrdered' /\ EpochsCount'
  BY <1>1, <1>2 DEF ExecutionsOrdered, EpochsCount, At
<1>6. WorkersFound' /\ DoomedAgree'
  BY <1>1, <1>2 DEF WorkersFound, DoomedAgree, DropAt, Finished
<1>7. ResultsCurrent' /\ CompleteReadable' /\ DropQuiesces'
  BY <1>1, <1>2 DEF ResultsCurrent, CompleteReadable, DropQuiesces, Superseded, Stale, Clearing
<1>8. QED
  BY <1>3, <1>4, <1>5, <1>6, <1>7 DEF QueryInvariant

LEMMA ServiceQueries ==
  ASSUME ServiceInvariant, [ServiceNext]_service
  PROVE  QueryInvariant'
<1>1. QueryInvariant /\ ServiceTypeOK
  BY DEF ServiceInvariant
<1>2. CASE UNCHANGED vars
  BY <1>1, <1>2, QueryStep
<1>3. CASE QueryNext
  <2>1. Next
    BY <1>3 DEF QueryNext, Next
  <2>2. QED
    BY <1>1, <2>1, QueryStep
<1>4. CASE CloseQueries
  <2>1. closing.session \in Sessions /\ DropSession(closing.session)
    BY <1>1, <1>4 DEF CloseQueries, ServiceTypeOK
  <2>2. Next
    BY <2>1 DEF Next
  <2>3. QED
    BY <1>1, <2>2, QueryStep
<1>5. ASSUME NEW o \in Operations, NEW s \in Sessions, StartColumnValues(o, s)
      PROVE  QueryInvariant'
  <2>1. UNCHANGED <<task, cancel, maps, worker, commands, removed>>
    BY <1>5 DEF StartColumnValues
  <2>2. CASE UNCHANGED epochs
    <3>1. UNCHANGED vars
      BY <2>1, <2>2 DEF vars
    <3>2. QED
      BY <1>1, <3>1, QueryStep
  <2>3. CASE UseCounter(s) /\ UNCHANGED epoch_value
    BY <1>1, <2>1, <2>3, CounterMade
  <2>4. QED
    BY <1>5, <2>2, <2>3 DEF StartColumnValues
<1>6. ASSUME NEW o \in Operations,
             WorkerNext(o) \/ CopyNext(o) \/ CancelColumnValues(o) \/ ReleaseColumnValues(o)
               \/ CloseColumn(o)
      PROVE  UNCHANGED vars
  BY <1>6 DEF WorkerNext, AdmitColumn, RunColumn, StoreSnapshot, EndFailed, WorkerGoto, CopyNext,
     CommitColumnCopy, EndColumnCopy, CancelColumnValues, ReleaseColumnValues, CloseColumn,
     CancelTask
<1>7. ASSUME RegisterColumn \/ \E s \in Sessions : CloseColumns(s)
      PROVE  UNCHANGED vars
  BY <1>7 DEF RegisterColumn, CloseColumns
<1>8. QED
  BY <1>2, <1>3, <1>4, <1>5, <1>6, <1>7 DEF ServiceNext, ColumnNext, CommandNext, service

-----------------------------------------------------------------------------
(* The column values *)

\* The workers that run, one step on: a registered operation may join, others only go on.
LEMMA LiveForward ==
  ASSUME ServiceInvariant, [ServiceNext]_service
  PROVE  /\ column_pc' \in [Operations -> {"none", "queued", "admitted", "building", "ended"}]
         /\ \/ Live' \subseteq Live
            \/ /\ RegisterColumn /\ Live' = Live \union {starting}
               /\ Cardinality(Live) < MaxSnapshots
         /\ \/ Building(column_pc') \subseteq Building(column_pc)
            \/ \E o \in Operations :
                 /\ AdmitColumn(o)
                 /\ Building(column_pc') = Building(column_pc) \union {o}
         /\ \A o \in Operations : o # starting => (column_pc[o] = "none" => column_pc'[o] = "none")
<1>1. column_pc \in [Operations -> {"none", "queued", "admitted", "building", "ended"}]
      /\ (starting # None => starting \in Operations /\ column_pc[starting] = "none")
  BY DEF ServiceInvariant, ServiceTypeOK
<1>2. CASE column_pc' = column_pc
  BY <1>1, <1>2 DEF Live, Building
<1>3. CASE RegisterColumn
  <2>1. CASE /\ column_pc' = [column_pc EXCEPT ![starting] = "queued"]
             /\ Cardinality(Live) < MaxSnapshots
    <3>1. /\ starting \in Operations /\ column_pc'[starting] = "queued"
          /\ \A o \in Operations : o # starting => column_pc'[o] = column_pc[o]
      BY <1>1, <1>3, <2>1 DEF RegisterColumn
    <3>2. Live' = Live \union {starting}
      BY <3>1 DEF Live
    <3>3. Building(column_pc') \subseteq Building(column_pc)
      BY <3>1 DEF Building
    <3>4. QED
      BY <1>1, <1>3, <2>1, <3>1, <3>2, <3>3
  <2>2. QED
    BY <1>2, <1>3, <2>1 DEF RegisterColumn, RoomForWorker
<1>4. ASSUME NEW o \in Operations, WorkerNext(o)
      PROVE  /\ column_pc[o] \in {"queued", "admitted", "building"}
             /\ column_pc'[o] \in {"admitted", "building", "ended"}
             /\ \A u \in Operations : u # o => column_pc'[u] = column_pc[u]
             /\ column_pc'[o] = "admitted" => AdmitColumn(o)
             /\ column_pc'[o] = "building" => column_pc[o] = "admitted"
             /\ column_pc' \in [Operations -> {"none", "queued", "admitted", "building", "ended"}]
  BY <1>1, <1>4 DEF WorkerNext, AdmitColumn, RunColumn, StoreSnapshot, EndFailed, WorkerGoto
<1>5. ASSUME NEW o \in Operations, WorkerNext(o)
      PROVE  /\ Live' \subseteq Live
             /\ \/ Building(column_pc') \subseteq Building(column_pc)
                \/ AdmitColumn(o) /\ Building(column_pc') = Building(column_pc) \union {o}
             /\ \A u \in Operations : column_pc[u] = "none" => column_pc'[u] = "none"
  <2>1. Live' \subseteq Live
    BY <1>4, <1>5 DEF Live
  <2>2. CASE column_pc'[o] = "admitted"
    <3>1. AdmitColumn(o)
      BY <1>4, <1>5, <2>2
    <3>2. \A u \in Operations :
            u \in Building(column_pc') <=> u \in Building(column_pc) \union {o}
      BY <1>4, <1>5, <2>2 DEF Building
    <3>3. Building(column_pc') = Building(column_pc) \union {o}
      BY <3>2 DEF Building
    <3>4. QED
      BY <1>4, <1>5, <2>1, <3>1, <3>3
  <2>3. CASE column_pc'[o] # "admitted"
    <3>1. \A u \in Operations : u \in Building(column_pc') => u \in Building(column_pc)
      BY <1>4, <1>5, <2>3 DEF Building
    <3>2. Building(column_pc') \subseteq Building(column_pc)
      BY <3>1 DEF Building
    <3>3. QED
      BY <1>4, <1>5, <2>1, <3>2
  <2>4. QED
    BY <1>4, <1>5, <2>1, <2>2, <2>3
<1>6. ASSUME NEW o \in Operations, CommandNext(o) \/ CopyNext(o)
      PROVE  column_pc' = column_pc
  BY <1>6 DEF CommandNext, CopyNext, StartColumnValues, CancelColumnValues, ReleaseColumnValues,
     CloseColumn, CancelTask, CommitColumnCopy, EndColumnCopy
<1>7. ASSUME \/ CloseQueries \/ QueryNext \/ UNCHANGED service
             \/ \E s \in Sessions : CloseColumns(s)
      PROVE  column_pc' = column_pc
  BY <1>7 DEF CloseQueries, QueryNext, CloseColumns, service, columns
<1>8. QED
  BY <1>2, <1>3, <1>4, <1>5, <1>6, <1>7 DEF ServiceNext, ColumnNext

\* No more permits are held than there are.
LEMMA PermitsKept ==
  ASSUME ServiceInvariant, [ServiceNext]_service
  PROVE  Cardinality(permits') + Cardinality(Building(column_pc')) <= MaxQueries
<1>1. /\ Cardinality(permits) + Cardinality(Building(column_pc)) <= MaxQueries
      /\ permits \in SUBSET Tasks /\ IsFiniteSet(Live)
  BY DEF ServiceInvariant, ServiceTypeOK, TypeOK
<1>2. permits' \in SUBSET Tasks
  BY ServiceQueries DEF QueryInvariant, TypeOK
<1>3. /\ IsFiniteSet(permits) /\ Cardinality(permits) \in Nat
      /\ Cardinality(permits') \in Nat
  BY <1>1, <1>2, TasksFinite
<1>4. IsFiniteSet(Building(column_pc)) /\ Cardinality(Building(column_pc)) \in Nat
  <2>1. Building(column_pc) \in SUBSET Live
    BY DEF Building, Live
  <2>2. QED
    BY <1>1, <2>1, FS_Subset, FS_CardinalityType
<1>5. CASE QueryNext
  <2>1. column_pc' = column_pc
        /\ \/ permits' \subseteq permits
           \/ Cardinality(permits') + Cardinality(Building(column_pc)) <= MaxQueries
    BY <1>5 DEF QueryNext, columns
  <2>2. permits' \subseteq permits => Cardinality(permits') <= Cardinality(permits)
    BY <1>3, FS_Subset
  <2>3. QED
    BY <1>1, <1>3, <1>4, <2>1, <2>2, Numbers
<1>6. CASE permits' = permits
  <2>1. CASE Building(column_pc') \subseteq Building(column_pc)
    <3>1. /\ Cardinality(Building(column_pc')) <= Cardinality(Building(column_pc))
          /\ Cardinality(Building(column_pc')) \in Nat
      BY <1>4, <2>1, FS_Subset, FS_CardinalityType
    <3>2. QED
      BY <1>1, <1>3, <1>4, <1>6, <3>1, Numbers
  <2>2. ASSUME NEW o \in Operations, AdmitColumn(o),
               Building(column_pc') = Building(column_pc) \union {o}
        PROVE  Cardinality(permits') + Cardinality(Building(column_pc')) <= MaxQueries
    <3>1. Cardinality(permits) + Cardinality(Building(column_pc)) < MaxQueries
      BY <2>2 DEF AdmitColumn, PermitFree
    <3>2. /\ Cardinality(Building(column_pc')) <= Cardinality(Building(column_pc)) + 1
          /\ Cardinality(Building(column_pc')) \in Nat
      BY <1>4, <2>2, FS_AddElement, FS_CardinalityType
    <3>3. QED
      BY <1>3, <1>4, <1>6, <3>1, <3>2, Numbers
  <2>3. QED
    BY <2>1, <2>2, LiveForward
<1>7. ASSUME ColumnNext
      PROVE  permits' = permits
  <2>1. ASSUME NEW o \in Operations, WorkerNext(o) \/ CommandNext(o) \/ CopyNext(o)
        PROVE  permits' = permits
    BY <2>1 DEF WorkerNext, AdmitColumn, RunColumn, StoreSnapshot, EndFailed, WorkerGoto,
       CommandNext, StartColumnValues, CancelColumnValues, ReleaseColumnValues, CloseColumn,
       CancelTask, CopyNext, CommitColumnCopy, EndColumnCopy, vars, worker
  <2>2. ASSUME RegisterColumn \/ CloseQueries \/ \E s \in Sessions : CloseColumns(s)
        PROVE  permits' = permits
    BY <2>2 DEF RegisterColumn, CloseQueries, DropSession, CloseColumns, vars, worker
  <2>3. QED
    BY <1>7, <2>1, <2>2 DEF ColumnNext
<1>8. QED
  BY <1>5, <1>6, <1>7 DEF ServiceNext, service, vars, worker

\* The panels, and what is known of an operation.
LEMMA ColumnsTyped ==
  ASSUME ServiceInvariant, [ServiceNext]_service
  PROVE  /\ column' \in [Operations -> TaskRecords]
         /\ panels' \subseteq Operations /\ IsFiniteSet(panels')
         /\ Cardinality(panels') <= MaxSnapshots
         /\ starting' \in Operations \union {None}
         /\ starting' # None =>
              column'[starting'] # NoColumn /\ column_pc'[starting'] = "none"
         /\ \A o \in Operations : column'[o] = NoColumn => column_pc'[o] = "none"
<1>1. /\ QueryInvariant /\ TypeOK /\ column \in [Operations -> TaskRecords]
      /\ panels \subseteq Operations /\ IsFiniteSet(panels) /\ Cardinality(panels) <= MaxSnapshots
      /\ starting \in Operations \union {None}
      /\ starting # None => column[starting] # NoColumn /\ column_pc[starting] = "none"
      /\ \A o \in Operations : column[o] = NoColumn => column_pc[o] = "none"
  BY DEF ServiceInvariant, ServiceTypeOK, TaskRecords, Moves
<1>2. ASSUME NEW o \in Operations, NEW s \in Sessions, StartColumnValues(o, s)
      PROVE  \E r \in TaskRecords :
               /\ r # NoColumn /\ column[o] = NoColumn
               /\ column' = [column EXCEPT ![o] = r]
               /\ starting' = o /\ column_pc' = column_pc /\ panels' = panels
  <2>1. CASE \E t \in results \intersect Of(s) : column' = [column EXCEPT ![o] = task[t]]
    <3>1. PICK t \in results \intersect Of(s) : column' = [column EXCEPT ![o] = task[t]]
      BY <2>1
    <3>2. task[t] \in TaskRecords /\ task[t].session = s
      BY <1>1, <3>1, FunctionsTyped DEF Of
    <3>3. task[t] # NoColumn
      BY <3>2, Numbers DEF NoColumn
    <3>4. QED
      BY <1>2, <3>1, <3>2, <3>3 DEF StartColumnValues
  <2>2. CASE /\ UseCounter(s)
             /\ column' = [column EXCEPT ![o] =
                             [session |-> s, epoch |-> CounterOf(s),
                              generation |-> epoch_value[CounterOf(s)]]]
    <3>1. CounterOf(s) \in 1..MaxEpochs
      BY <1>1, <2>2, CounterRange
    <3>2. epoch_value \in [1..MaxEpochs -> Moves] /\ CounterOf(s) \in Epochs
      <4>1. epoch_value \in [1..MaxEpochs -> Moves]
        BY <1>1 DEF TypeOK, Moves
      <4>2. QED
        BY <3>1, <4>1, Numbers DEF Epochs
    <3>3. PICK r : r = [session |-> s, epoch |-> CounterOf(s),
                        generation |-> epoch_value[CounterOf(s)]]
      OBVIOUS
    <3>4. r \in TaskRecords
      BY <3>1, <3>2, <3>3 DEF TaskRecords
    <3>5. r # NoColumn
      BY <3>3, Numbers DEF NoColumn
    <3>6. column' = [column EXCEPT ![o] = r]
      BY <2>2, <3>3
    <3>7. QED
      BY <1>2, <3>4, <3>5, <3>6 DEF StartColumnValues
  <2>3. QED
    BY <1>2, <2>1, <2>2 DEF StartColumnValues
<1>3. CASE \E o \in Operations, s \in Sessions : StartColumnValues(o, s)
  <2>1. PICK o \in Operations, r \in TaskRecords :
          /\ r # NoColumn /\ column[o] = NoColumn
          /\ column' = [column EXCEPT ![o] = r]
          /\ starting' = o /\ column_pc' = column_pc /\ panels' = panels
    BY <1>2, <1>3
  <2>2. column'[o] = r /\ \A u \in Operations : u # o => column'[u] = column[u]
    BY <1>1, <2>1
  <2>3. column' \in [Operations -> TaskRecords]
    BY <1>1, <2>1
  <2>4. QED
    BY <1>1, <2>1, <2>2, <2>3
<1>4. CASE RegisterColumn
  <2>1. PICK kept \in SUBSET panels :
          \/ panels' = kept
          \/ panels' = kept \union {starting} /\ Cardinality(kept) < MaxSnapshots
    <3>1. {u \in panels : column_state[u] \notin {"Cancelled", "Failed"}} \in SUBSET panels
      OBVIOUS
    <3>2. QED
      BY <1>4, <3>1 DEF RegisterColumn, RoomForWorker
  <2>2. IsFiniteSet(kept) /\ Cardinality(kept) <= MaxSnapshots
    <3>1. Cardinality(kept) <= Cardinality(panels) /\ IsFiniteSet(kept)
      BY <1>1, <2>1, FS_Subset
    <3>2. Cardinality(kept) \in Nat /\ Cardinality(panels) \in Nat
      BY <1>1, <3>1, FS_CardinalityType
    <3>3. QED
      BY <1>1, <3>1, <3>2, ColumnAssumption
  <2>3. starting \in Operations /\ column' = column /\ starting' = None
    BY <1>1, <1>4 DEF RegisterColumn
  <2>4. /\ panels' \subseteq Operations /\ IsFiniteSet(panels')
        /\ Cardinality(panels') <= MaxSnapshots
    <3>1. CASE panels' = kept
      BY <1>1, <2>1, <2>2, <3>1
    <3>2. CASE panels' = kept \union {starting} /\ Cardinality(kept) < MaxSnapshots
      <4>1. /\ IsFiniteSet(panels') /\ Cardinality(kept) \in Nat
            /\ Cardinality(panels') <= Cardinality(kept) + 1 /\ Cardinality(panels') \in Nat
        BY <2>2, <3>2, FS_AddElement, FS_CardinalityType
      <4>2. QED
        BY <1>1, <2>1, <2>3, <3>2, <4>1, ColumnAssumption
    <3>3. QED
      BY <2>1, <3>1, <3>2
  <2>5. \A o \in Operations : column'[o] = NoColumn => column_pc'[o] = "none"
    <3>1. starting # None
      BY <1>4 DEF RegisterColumn
    <3>2. QED
      BY <1>1, <2>3, <3>1, LiveForward
  <2>6. QED
    BY <1>1, <2>3, <2>4, <2>5
<1>5. ASSUME column' = column, panels' \subseteq panels, starting' = starting
      PROVE  /\ column' \in [Operations -> TaskRecords]
             /\ panels' \subseteq Operations /\ IsFiniteSet(panels')
             /\ Cardinality(panels') <= MaxSnapshots
             /\ starting' \in Operations \union {None}
             /\ starting' # None =>
                  column'[starting'] # NoColumn /\ column_pc'[starting'] = "none"
             /\ \A o \in Operations : column'[o] = NoColumn => column_pc'[o] = "none"
  <2>1. IsFiniteSet(panels') /\ Cardinality(panels') <= MaxSnapshots
    <3>1. /\ Cardinality(panels') <= Cardinality(panels) /\ IsFiniteSet(panels')
      BY <1>1, <1>5, FS_Subset
    <3>2. Cardinality(panels') \in Nat /\ Cardinality(panels) \in Nat
      BY <1>1, <3>1, FS_CardinalityType
    <3>3. QED
      BY <1>1, <3>1, <3>2, ColumnAssumption
  <2>2. ASSUME NEW o \in Operations, column_pc[o] = "none", ~RegisterColumn
        PROVE  column_pc'[o] = "none"
    <3>1. CASE column_pc' = column_pc
      BY <2>2, <3>1
    <3>2. ASSUME NEW u \in Operations, WorkerNext(u)
          PROVE  column_pc'[o] = "none"
      BY <2>2, <3>2 DEF WorkerNext, AdmitColumn, RunColumn, StoreSnapshot, EndFailed, WorkerGoto,
         ServiceInvariant, ServiceTypeOK
    <3>3. ASSUME NEW u \in Operations, CommandNext(u) \/ CopyNext(u)
          PROVE  column_pc' = column_pc
      BY <3>3 DEF CommandNext, CopyNext, StartColumnValues, CancelColumnValues,
         ReleaseColumnValues, CloseColumn, CancelTask, CommitColumnCopy, EndColumnCopy
    <3>4. ASSUME \/ CloseQueries \/ QueryNext \/ UNCHANGED service
                 \/ \E s \in Sessions : CloseColumns(s)
          PROVE  column_pc' = column_pc
      BY <3>4 DEF CloseQueries, QueryNext, CloseColumns, service, columns
    <3>5. QED
      BY <2>2, <3>1, <3>2, <3>3, <3>4 DEF ServiceNext, ColumnNext
  <2>3. ASSUME RegisterColumn
        PROVE  FALSE
    BY <1>5, <2>3 DEF RegisterColumn
  <2>4. QED
    BY <1>1, <1>5, <2>1, <2>2, <2>3
<1>6. ASSUME NEW o \in Operations,
             WorkerNext(o) \/ CopyNext(o) \/ CancelColumnValues(o) \/ ReleaseColumnValues(o)
               \/ CloseColumn(o)
      PROVE  column' = column /\ panels' \subseteq panels /\ starting' = starting
  BY <1>6 DEF WorkerNext, AdmitColumn, RunColumn, StoreSnapshot, EndFailed, WorkerGoto, CopyNext,
     CommitColumnCopy, EndColumnCopy, CancelColumnValues, ReleaseColumnValues, CloseColumn,
     CancelTask
<1>7. ASSUME \/ CloseQueries \/ QueryNext \/ UNCHANGED service
             \/ \E s \in Sessions : CloseColumns(s)
      PROVE  column' = column /\ panels' \subseteq panels /\ starting' = starting
  BY <1>7 DEF CloseQueries, QueryNext, CloseColumns, service, columns
<1>8. QED
  BY <1>3, <1>4, <1>5, <1>6, <1>7 DEF ServiceNext, ColumnNext, CommandNext

ColumnStates == {"none", "Queued", "Running", "Ready", "Failed", "Cancelled"}

\* What one step does to the state, the flag, the snapshot and the copy of the operations.
LEMMA ColumnForms ==
  ASSUME ServiceInvariant, [ServiceNext]_service
  PROVE  \/ UNCHANGED <<column_state, cancelled, snapshots, column_pc, copying>>
         \/ /\ starting \in Operations /\ UNCHANGED <<cancelled, snapshots, copying>>
            /\ column_state' = [column_state EXCEPT ![starting] = "Queued"]
            /\ column_pc' = [column_pc EXCEPT ![starting] = "queued"]
         \/ \E o \in Operations, st \in ColumnStates, at \in {"admitted", "building", "ended"} :
              /\ UNCHANGED <<cancelled, copying>>
              /\ column_pc' = [column_pc EXCEPT ![o] = at]
              /\ column_state' = column_state \/ column_state' = [column_state EXCEPT ![o] = st]
              /\ \/ at = "admitted" /\ column_state' = column_state /\ snapshots' = snapshots
                 \/ at = "building" /\ st = "Running" /\ snapshots' = snapshots
                 \/ /\ at = "ended" /\ column_state' = [column_state EXCEPT ![o] = st]
                    /\ \/ st \in {"Cancelled", "Failed"} /\ snapshots' = snapshots
                       \/ /\ st = "Ready" /\ o \notin cancelled
                          /\ snapshots' = snapshots \union {o}
         \/ \E o \in Operations :
              /\ o \notin copying /\ UNCHANGED <<column_pc, copying>>
              /\ cancelled' = cancelled \union {o} /\ snapshots' = snapshots \ {o}
              /\ column_state' = [column_state EXCEPT ![o] = "Cancelled"]
         \/ /\ UNCHANGED <<column_state, cancelled, snapshots, column_pc>>
            /\ \E o \in Operations :
                 \/ copying' = copying \ {o}
                 \/ o \notin cancelled /\ copying' = copying \union {o}
<1>1. /\ starting \in Operations \union {None} /\ panels \subseteq Operations
      /\ snapshots \subseteq Operations
  BY DEF ServiceInvariant, ServiceTypeOK
<1>2. CASE RegisterColumn
  BY <1>1, <1>2 DEF RegisterColumn
<1>3. ASSUME NEW o \in Operations, AdmitColumn(o)
      PROVE  /\ UNCHANGED <<cancelled, copying, column_state, snapshots>>
             /\ column_pc' = [column_pc EXCEPT ![o] = "admitted"]
  BY <1>3 DEF AdmitColumn, WorkerGoto
<1>4. ASSUME NEW o \in Operations, RunColumn(o)
      PROVE  /\ UNCHANGED <<cancelled, copying, snapshots>>
             /\ column_pc' = [column_pc EXCEPT ![o] = "building"]
             /\ column_state' = [column_state EXCEPT ![o] = "Running"]
  BY <1>4 DEF RunColumn, WorkerGoto
<1>5. ASSUME NEW o \in Operations, StoreSnapshot(o) \/ EndFailed(o)
      PROVE  /\ UNCHANGED <<cancelled, copying>>
             /\ column_pc' = [column_pc EXCEPT ![o] = "ended"]
             /\ \E st \in {"Cancelled", "Failed", "Ready"} :
                  /\ column_state' = [column_state EXCEPT ![o] = st]
                  /\ \/ st \in {"Cancelled", "Failed"} /\ snapshots' = snapshots
                     \/ /\ st = "Ready" /\ o \notin cancelled
                        /\ snapshots' = snapshots \union {o}
  <2>1. CASE StoreSnapshot(o)
    BY <2>1 DEF StoreSnapshot, WorkerGoto, Revoked
  <2>2. CASE EndFailed(o)
    BY <2>2 DEF EndFailed, WorkerGoto
  <2>3. QED
    BY <1>5, <2>1, <2>2
<1>6. ASSUME NEW o \in Operations,
             CancelColumnValues(o) \/ ReleaseColumnValues(o) \/ CloseColumn(o)
      PROVE  /\ o \notin copying /\ UNCHANGED <<column_pc, copying>>
             /\ cancelled' = cancelled \union {o} /\ snapshots' = snapshots \ {o}
             /\ column_state' = [column_state EXCEPT ![o] = "Cancelled"]
  BY <1>6 DEF CancelColumnValues, ReleaseColumnValues, CloseColumn, CancelTask, GateFree
<1>7. ASSUME NEW o \in Operations, CopyNext(o)
      PROVE  /\ UNCHANGED <<column_state, cancelled, snapshots, column_pc>>
             /\ \/ copying' = copying \ {o}
                \/ o \notin cancelled /\ copying' = copying \union {o}
  BY <1>7 DEF CopyNext, CommitColumnCopy, EndColumnCopy, Revoked
<1>8. ASSUME \/ \E o \in Operations, s \in Sessions : StartColumnValues(o, s)
             \/ \E s \in Sessions : CloseColumns(s)
             \/ CloseQueries \/ QueryNext \/ UNCHANGED service
      PROVE  UNCHANGED <<column_state, cancelled, snapshots, column_pc, copying>>
  BY <1>8 DEF StartColumnValues, CloseColumns, CloseQueries, QueryNext, service, columns
<1>9. ASSUME NEW o \in Operations, WorkerNext(o)
      PROVE  \E st \in ColumnStates, at \in {"admitted", "building", "ended"} :
               /\ UNCHANGED <<cancelled, copying>>
               /\ column_pc' = [column_pc EXCEPT ![o] = at]
               /\ column_state' = column_state \/ column_state' = [column_state EXCEPT ![o] = st]
               /\ \/ at = "admitted" /\ column_state' = column_state /\ snapshots' = snapshots
                  \/ at = "building" /\ st = "Running" /\ snapshots' = snapshots
                  \/ /\ at = "ended" /\ column_state' = [column_state EXCEPT ![o] = st]
                     /\ \/ st \in {"Cancelled", "Failed"} /\ snapshots' = snapshots
                        \/ /\ st = "Ready" /\ o \notin cancelled
                           /\ snapshots' = snapshots \union {o}
  <2>1. CASE AdmitColumn(o)
    <3>1. "none" \in ColumnStates
      BY DEF ColumnStates
    <3>2. QED
      BY <1>3, <2>1, <3>1
  <2>2. CASE RunColumn(o)
    <3>1. "Running" \in ColumnStates
      BY DEF ColumnStates
    <3>2. QED
      BY <1>4, <2>2, <3>1
  <2>3. CASE StoreSnapshot(o) \/ EndFailed(o)
    <3>1. PICK st \in {"Cancelled", "Failed", "Ready"} :
                  /\ column_state' = [column_state EXCEPT ![o] = st]
                  /\ \/ st \in {"Cancelled", "Failed"} /\ snapshots' = snapshots
                     \/ /\ st = "Ready" /\ o \notin cancelled
                        /\ snapshots' = snapshots \union {o}
      BY <1>5, <2>3
    <3>2. st \in ColumnStates
      BY <3>1 DEF ColumnStates
    <3>3. QED
      BY <1>5, <2>3, <3>1, <3>2
  <2>4. QED
    BY <1>9, <2>1, <2>2, <2>3 DEF WorkerNext
<1>10. QED
  BY <1>2, <1>6, <1>7, <1>8, <1>9 DEF ServiceNext, ColumnNext, CommandNext

LEMMA StatesKept ==
  ASSUME ServiceInvariant, [ServiceNext]_service
  PROVE  /\ column_state' \in [Operations -> ColumnStates]
         /\ cancelled' \subseteq Operations /\ snapshots' \subseteq Operations
         /\ copying' \subseteq Operations
         /\ CancelledGivesUp'
         /\ \A o \in Operations : column_state'[o] \in {"Queued", "Running"} => o \in Live'
<1>1. /\ column_state \in [Operations -> ColumnStates]
      /\ column_pc \in [Operations -> {"none", "queued", "admitted", "building", "ended"}]
      /\ cancelled \subseteq Operations /\ snapshots \subseteq Operations
      /\ copying \subseteq Operations
      /\ CancelledGivesUp
      /\ \A o \in Operations : column_state[o] \in {"Queued", "Running"} => o \in Live
  BY DEF ServiceInvariant, ServiceTypeOK, WorkersAccounted, ColumnStates
<1>2. CASE UNCHANGED <<column_state, cancelled, snapshots, column_pc, copying>>
  BY <1>1, <1>2 DEF CancelledGivesUp, Live
<1>3. CASE /\ starting \in Operations /\ UNCHANGED <<cancelled, snapshots, copying>>
           /\ column_state' = [column_state EXCEPT ![starting] = "Queued"]
           /\ column_pc' = [column_pc EXCEPT ![starting] = "queued"]
  BY <1>1, <1>3 DEF CancelledGivesUp, Live, ColumnStates
<1>4. ASSUME NEW o \in Operations, NEW st \in ColumnStates,
             NEW at \in {"admitted", "building", "ended"},
             UNCHANGED <<cancelled, copying>>,
             column_pc' = [column_pc EXCEPT ![o] = at],
             column_state' = column_state \/ column_state' = [column_state EXCEPT ![o] = st],
             \/ at = "admitted" /\ column_state' = column_state /\ snapshots' = snapshots
             \/ at = "building" /\ st = "Running" /\ snapshots' = snapshots
             \/ /\ at = "ended" /\ column_state' = [column_state EXCEPT ![o] = st]
                /\ \/ st \in {"Cancelled", "Failed"} /\ snapshots' = snapshots
                   \/ /\ st = "Ready" /\ o \notin cancelled
                      /\ snapshots' = snapshots \union {o}
      PROVE  /\ column_state' \in [Operations -> ColumnStates]
             /\ cancelled' \subseteq Operations /\ snapshots' \subseteq Operations
             /\ copying' \subseteq Operations
             /\ CancelledGivesUp'
             /\ \A u \in Operations : column_state'[u] \in {"Queued", "Running"} => u \in Live'
  <2>1. /\ column_state' \in [Operations -> ColumnStates] /\ snapshots' \subseteq Operations
        /\ cancelled' = cancelled /\ copying' = copying
    BY <1>1, <1>4
  <2>2. CancelledGivesUp'
    BY <1>1, <1>4 DEF CancelledGivesUp
  <2>3. /\ column_pc'[o] = at
        /\ \A u \in Operations : u # o => column_pc'[u] = column_pc[u]
        /\ \A u \in Operations : u # o => column_state'[u] = column_state[u]
    BY <1>1, <1>4
  <2>4. at = "ended" => column_state'[o] \notin {"Queued", "Running"}
    BY <1>1, <1>4
  <2>5. ASSUME NEW u \in Operations, column_state'[u] \in {"Queued", "Running"}
        PROVE  u \in Live'
    BY <1>1, <1>4, <2>3, <2>4, <2>5 DEF Live
  <2>6. QED
    BY <1>1, <2>1, <2>2, <2>5
<1>5. ASSUME NEW o \in Operations, o \notin copying, UNCHANGED <<column_pc, copying>>,
             cancelled' = cancelled \union {o}, snapshots' = snapshots \ {o},
             column_state' = [column_state EXCEPT ![o] = "Cancelled"]
      PROVE  /\ column_state' \in [Operations -> ColumnStates]
             /\ cancelled' \subseteq Operations /\ snapshots' \subseteq Operations
             /\ copying' \subseteq Operations
             /\ CancelledGivesUp'
             /\ \A u \in Operations : column_state'[u] \in {"Queued", "Running"} => u \in Live'
  BY <1>1, <1>5 DEF CancelledGivesUp, Live, ColumnStates
<1>6. CASE /\ UNCHANGED <<column_state, cancelled, snapshots, column_pc>>
           /\ \E o \in Operations :
                \/ copying' = copying \ {o}
                \/ o \notin cancelled /\ copying' = copying \union {o}
  BY <1>1, <1>6 DEF CancelledGivesUp, Live
<1>7. QED
  BY <1>2, <1>3, <1>4, <1>5, <1>6, ColumnForms

-----------------------------------------------------------------------------
(* The theorems *)

LEMMA ServiceStarts ==
  ASSUME ServiceInit
  PROVE  ServiceInvariant
<1>1. QueryInvariant /\ permits = {}
  BY QueryInit DEF ServiceInit, Init
<1>2. /\ Live = {} /\ Building(column_pc) = {} /\ panels = {} /\ cancelled = {}
      /\ starting = None /\ \A o \in Operations : column_pc[o] = "none"
      /\ \A o \in Operations : column_state[o] = "none"
  BY DEF ServiceInit, Live, Building
<1>3. Cardinality({}) = 0 /\ IsFiniteSet({})
  BY FS_EmptySet
<1>4. ServiceTypeOK
  <2>1. NoColumn \in [session : Sessions \union {None}, epoch : Epochs,
                      generation : 0..(MaxExecutes + MaxDrops)]
    BY Numbers DEF NoColumn, None, Epochs
  <2>2. NotClosing \in [session : Sessions \union {None}, left : SUBSET Operations]
    BY DEF NotClosing
  <2>3. 0 <= MaxSnapshots /\ 0 <= MaxQueries
    BY Numbers, ColumnAssumption
  <2>4. QED
    BY <1>1, <1>2, <1>3, <2>1, <2>2, <2>3 DEF ServiceInit, ServiceTypeOK, QueryInvariant
<1>5. CancelledGivesUp
  BY <1>2 DEF CancelledGivesUp
<1>6. WorkersAccounted
  BY <1>2, <1>3, ColumnAssumption DEF WorkersAccounted
<1>7. QED
  BY <1>1, <1>2, <1>3, <1>4, <1>5, <1>6 DEF ServiceInvariant

LEMMA ServiceStep ==
  ASSUME ServiceInvariant, [ServiceNext]_service
  PROVE  ServiceInvariant'
<1>1. ServiceTypeOK /\ IsFiniteSet(Live) /\ Cardinality(Live) <= MaxSnapshots
  BY DEF ServiceInvariant, WorkersAccounted
<1>2. closing' \in [session : Sessions \union {None}, left : SUBSET Operations]
  <2>1. closing \in [session : Sessions \union {None}, left : SUBSET Operations]
        /\ panels \subseteq Operations
    BY <1>1 DEF ServiceTypeOK
  <2>2. ASSUME NEW s \in Sessions, CloseColumns(s)
        PROVE  closing' \in [session : Sessions \union {None}, left : SUBSET Operations]
    BY <2>1, <2>2 DEF CloseColumns
  <2>3. ASSUME NEW o \in Operations, CloseColumn(o)
        PROVE  closing' \in [session : Sessions \union {None}, left : SUBSET Operations]
    BY <2>1, <2>3 DEF CloseColumn
  <2>4. CASE CloseQueries
    BY <2>4 DEF CloseQueries, NotClosing
  <2>5. ASSUME NEW o \in Operations,
               \/ WorkerNext(o) \/ CopyNext(o) \/ CancelColumnValues(o) \/ ReleaseColumnValues(o)
               \/ \E s \in Sessions : StartColumnValues(o, s)
        PROVE  closing' = closing
    BY <2>5 DEF WorkerNext, AdmitColumn, RunColumn, StoreSnapshot, EndFailed, WorkerGoto,
       CopyNext, CommitColumnCopy, EndColumnCopy, CancelColumnValues, ReleaseColumnValues,
       StartColumnValues
  <2>6. ASSUME RegisterColumn \/ QueryNext \/ UNCHANGED service
        PROVE  closing' = closing
    BY <2>6 DEF RegisterColumn, QueryNext, service, columns
  <2>7. QED
    BY <2>1, <2>2, <2>3, <2>4, <2>5, <2>6 DEF ServiceNext, ColumnNext, CommandNext
<1>3. QueryInvariant' /\ TypeOK'
  BY ServiceQueries DEF QueryInvariant
<1>4. ServiceTypeOK'
  BY <1>2, <1>3, LiveForward, PermitsKept, ColumnsTyped, StatesKept
     DEF ServiceTypeOK, TaskRecords, Moves, ColumnStates
<1>5. IsFiniteSet(Live') /\ Cardinality(Live') <= MaxSnapshots
  <2>1. CASE Live' \subseteq Live
    <3>1. IsFiniteSet(Live') /\ Cardinality(Live') <= Cardinality(Live)
      BY <1>1, <2>1, FS_Subset
    <3>2. Cardinality(Live) \in Nat /\ Cardinality(Live') \in Nat
      BY <1>1, <3>1, FS_CardinalityType
    <3>3. QED
      BY <1>1, <3>1, <3>2, ColumnAssumption
  <2>2. CASE Live' = Live \union {starting} /\ Cardinality(Live) < MaxSnapshots
    <3>1. /\ IsFiniteSet(Live') /\ Cardinality(Live) \in Nat
          /\ Cardinality(Live') <= Cardinality(Live) + 1 /\ Cardinality(Live') \in Nat
      BY <1>1, <2>2, FS_AddElement, FS_CardinalityType
    <3>2. QED
      BY <2>2, <3>1, ColumnAssumption
  <2>3. QED
    BY <2>1, <2>2, LiveForward
<1>6. WorkersAccounted'
  BY <1>5, StatesKept DEF WorkersAccounted
<1>7. QED
  BY <1>3, <1>4, <1>5, <1>6, ColumnsTyped, StatesKept DEF ServiceInvariant

\* The invariant of the service: what the counters, the flags, the maps and the permits have
\* to agree on for the properties below to hold, whatever the sessions and the limits.
THEOREM ServiceAgrees == ServiceSpec => []ServiceInvariant
<1>1. ServiceInit => ServiceInvariant
  BY ServiceStarts
<1>2. ServiceInvariant /\ [ServiceNext]_service => ServiceInvariant'
  BY ServiceStep
<1>3. QED
  BY <1>1, <1>2, PTL DEF ServiceSpec

\* Every variable keeps its type, no map is larger than its limit, and queries and builds
\* of column values together hold no more permits than there are.
THEOREM ServiceTyped == ServiceSpec => []ServiceTypeOK
<1>1. ServiceInvariant => ServiceTypeOK
  BY DEF ServiceInvariant
<1>2. QED
  BY <1>1, ServiceAgrees, PTL

\* A result that can be read is the newest of its session, or is about to be cleared.
THEOREM ResultsCurrentAlways == ServiceSpec => []ResultsCurrent
<1>1. ServiceInvariant => ResultsCurrent
  BY DEF ServiceInvariant, QueryInvariant
<1>2. QED
  BY <1>1, ServiceAgrees, PTL

\* A query that is Complete can be read until something takes its result away.
THEOREM CompleteReadableAlways == ServiceSpec => []CompleteReadable
<1>1. ServiceInvariant => CompleteReadable
  BY DEF ServiceInvariant, QueryInvariant
<1>2. QED
  BY <1>1, ServiceAgrees, PTL

\* When drop_session has returned Ok, the workers it has found are done with the source.
THEOREM DropQuiescesAlways == ServiceSpec => []DropQuiesces
<1>1. ServiceInvariant => DropQuiesces
  BY DEF ServiceInvariant, QueryInvariant
<1>2. QED
  BY <1>1, ServiceAgrees, PTL

\* After cancel_task an operation has no snapshot, is not ready and no copy of it writes.
THEOREM CancelledGivesUpAlways == ServiceSpec => []CancelledGivesUp
<1>1. ServiceInvariant => CancelledGivesUp
  BY DEF ServiceInvariant
<1>2. QED
  BY <1>1, ServiceAgrees, PTL

\* The workers of column values are never more than MAX_SNAPSHOTS, and an operation that is
\* polled as queued or running has one.
THEOREM WorkersAccountedAlways == ServiceSpec => []WorkersAccounted
<1>1. ServiceInvariant => WorkersAccounted
  BY DEF ServiceInvariant
<1>2. QED
  BY <1>1, ServiceAgrees, PTL

=============================================================================
