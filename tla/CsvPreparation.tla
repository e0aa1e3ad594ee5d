---------------------------- MODULE CsvPreparation ----------------------------
(***************************************************************************)
(* The preparation of CSV sources (src-tauri/src/query/engine.rs):         *)
(* prepare_csv_session puts a task into the map of the session and either  *)
(* restores it from the persistent cache, on the calling thread, or builds *)
(* it on a worker thread that needs a permit.  Queries of the session wait *)
(* for the task and use its artifact, or scan the file themselves; pages   *)
(* use the artifact of a task that is Ready.  cancel_csv_preparation and   *)
(* drop_session act at any time, and the file may change.                  *)
(*                                                                         *)
(* The versions of the file are its fingerprints; what a worker reads is   *)
(* one version, or NoVersion if the file changed while it read.  The call  *)
(* of prepare_csv_session and its worker never act at the same time, so a  *)
(* task has one control point for both.  The identity of a source belongs  *)
(* to its session: replacing a source starts a session.  Allowances and    *)
(* the entries of the cache are left out: a lookup hits, misses or fails.  *)
(***************************************************************************)
EXTENDS Integers, FiniteSets

CONSTANTS
  Sessions, Queries, Drops,
  None,                \* no task
  MaxTasks,            \* bound on the calls of prepare_csv_session
  MaxPreparations,     \* MAX_CONCURRENT_CSV_PREPARATIONS
  MaxVersions,         \* bound on the versions of the file
  MaxCancels           \* bound on the calls of cancel_csv_preparation

ASSUME PreparationAssumption ==
  /\ None \notin (1..MaxTasks) \union Sessions /\ None \notin 1..MaxVersions
  /\ MaxTasks \in Nat \ {0}
  /\ MaxPreparations \in Nat \ {0} /\ MaxVersions \in Nat \ {0} /\ MaxCancels \in Nat

VARIABLES
  csv_preparations,    \* session -> task or None
  locked,              \* the task that commits under the lock of that map, or None
  task,                \* task -> CsvPreparation
  pc, version,         \* control point of the task's call or worker, what it read
  active,              \* permits taken from the limiter
  file,                \* version of the file
  query,               \* query or page read -> where it is and what it got
  cancelling,          \* tasks that a call is about to cancel
  cancels,
  drop                 \* call of drop_session -> where it is

vars == <<csv_preparations, locked, task, pc, version, active, file, query,
          cancelling, cancels, drop>>

Tasks == 1..MaxTasks       \* by next_csv_preparation_id
Versions == 1..MaxVersions
NoVersion == 0

CsvPreparations ==
  [session : Sessions \union {None}, fingerprint : Versions, cancel : BOOLEAN,
   worker : BOOLEAN,
   state : {"Preparing", "Ready", "Failed", "Cancelled"},
   artifact : Versions \union {NoVersion, None}]

\* kind is the operation: a query waits, a page does not; since is the version
\* of the file when it was called.
QueryStates ==
  [pc : {"idle", "look", "check", "wait", "recheck", "verify", "take", "fetch", "done"},
   kind : {"query", "page"}, session : Sessions \union {None}, since : Versions,
   task : Tasks \union {None}, outcome : {"none", "direct", "prepared", "cancelled"},
   content : Versions \union {NoVersion, None}]

DropStates == [pc : {"idle", "cancel", "wait", "done"}, task : Tasks \union {None},
               result : {"none", "Ok", "Failed"}]

TypeOK ==
  /\ csv_preparations \in [Sessions -> Tasks \union {None}]
  /\ locked \in Tasks \union {None}
  /\ task \in [Tasks -> CsvPreparations]
  /\ pc \in [Tasks -> {"idle", "insert", "lookup", "restore", "queue", "allocate",
                       "read", "publish", "reopen", "commit",
                       "store", "ready", "exit", "gone"}]
  /\ version \in [Tasks -> Versions \union {NoVersion}]
  /\ active \in 0..MaxPreparations
  /\ file \in Versions
  /\ query \in [Queries -> QueryStates]
  /\ cancelling \in SUBSET Tasks /\ cancels \in 0..MaxCancels
  /\ drop \in [Drops -> DropStates]

Init ==
  /\ csv_preparations = [s \in Sessions |-> None]
  /\ locked = None
  /\ task = [t \in Tasks |-> [session |-> None, fingerprint |-> 1, cancel |-> FALSE,
                              worker |-> FALSE, state |-> "Preparing",
                              artifact |-> None]]
  /\ query = [q \in Queries |-> [pc |-> "idle", kind |-> "query", session |-> None,
                                 since |-> 1, task |-> None, outcome |-> "none",
                                 content |-> None]]
  /\ pc = [t \in Tasks |-> "idle"]
  /\ version = [t \in Tasks |-> NoVersion]
  /\ active = 0
  /\ file = 1
  /\ cancelling = {} /\ cancels = 0
  /\ drop = [d \in Drops |-> [pc |-> "idle", task |-> None, result |-> "none"]]

-----------------------------------------------------------------------------
Goto(t, point) == pc' = [pc EXCEPT ![t] = point]

\* set_csv_preparation_state; whoever waits looks at the state again.
Ends(t, state) == task' = [task EXCEPT ![t].state = state]

NeverChanged(t) == FALSE   \* fault: the fingerprints are not compared

\* source_fingerprint_matches fails.
Changed(t) == file # task[t].fingerprint

OnlyNotCancelled(t) == ~task[t].cancel   \* fault: the map is not consulted

\* csv_preparation_is_current and the cancellation flag.
MayCommit(t) == ~task[t].cancel /\ csv_preparations[task[t].session] = t

OneTooMany == active <= MaxPreparations   \* fault: off by one

PermitFree == active < MaxPreparations

Unlocked == locked = None

KeptWhenCancelled(t) ==   \* fault: an early return keeps the permit
  IF task[t].state = "Cancelled" THEN active' = active ELSE active' = active - 1

HoldsPermit(t) ==
  task[t].worker /\ pc[t] \notin {"queue", "gone"}

\* Drop for CsvPreparationPermit.
Release(t) == active' = active - 1

-----------------------------------------------------------------------------
(* prepare_csv_session *)

PrepareCall(t, s) ==
  /\ pc[t] = "idle" /\ \A k \in 1..(t - 1) : pc[k] # "idle"
  /\ task' = [task EXCEPT ![t].session = s, ![t].fingerprint = file]
  /\ Goto(t, "insert")
  /\ UNCHANGED <<csv_preparations, locked, version, active, file, query, cancelling,
                 cancels, drop>>

\* A task that is Preparing or Ready is reused, any other is replaced.
Insert(t) ==
  LET existing == csv_preparations[task[t].session] IN
  /\ pc[t] = "insert" /\ Unlocked
  /\ IF existing # None /\ task[existing].state \in {"Preparing", "Ready"}
     THEN Goto(t, "gone") /\ UNCHANGED <<csv_preparations, task>>
     ELSE /\ csv_preparations' = [csv_preparations EXCEPT ![task[t].session] = t]
          /\ task' = [k \in Tasks |-> IF k = existing
                                      THEN [task[k] EXCEPT !.cancel = TRUE]
                                      ELSE task[k]]
          /\ Goto(t, "lookup")
  /\ UNCHANGED <<locked, version, active, file, query, cancelling, cancels, drop>>

\* A miss spawns the worker; a hit is an entry published for this fingerprint.
Lookup(t) ==
  /\ pc[t] = "lookup"
  /\ \/ /\ Goto(t, "queue")
        /\ task' = [task EXCEPT ![t].worker = TRUE]
        /\ UNCHANGED version
     \/ /\ Goto(t, "restore")
        /\ version' = [version EXCEPT ![t] = task[t].fingerprint]
        /\ UNCHANGED task
  /\ UNCHANGED <<csv_preparations, locked, active, file, query, cancelling,
                 cancels, drop>>

\* The lookup or the allocation fails and the task leaves the map if it is still
\* there, or the restoration fails, or the file has changed, and it stays.
PreparationFails(t) ==
  LET s == task[t].session IN
  /\ pc[t] \in {"lookup", "restore"}
  /\ \/ /\ Unlocked
        /\ csv_preparations' = [csv_preparations EXCEPT ![s] = IF @ = t THEN None ELSE @]
     \/ pc[t] = "restore" /\ UNCHANGED csv_preparations
  /\ Ends(t, "Failed")
  /\ Goto(t, "gone")
  /\ UNCHANGED <<locked, version, active, file, query, cancelling, cancels, drop>>

Restore(t) ==
  /\ pc[t] = "restore" /\ ~Changed(t)
  /\ Goto(t, "commit")
  /\ UNCHANGED <<csv_preparations, locked, task, version, active, file, query,
                 cancelling, cancels, drop>>

-----------------------------------------------------------------------------
(* The worker *)

AcquirePermit(t) ==
  /\ pc[t] = "queue" /\ ~task[t].cancel /\ PermitFree
  /\ active' = active + 1
  /\ Goto(t, "allocate")
  /\ UNCHANGED <<csv_preparations, locked, task, version, file, query, cancelling,
                 cancels, drop>>

CancelledInQueue(t) ==
  /\ pc[t] = "queue" /\ task[t].cancel
  /\ Ends(t, "Cancelled")
  /\ Goto(t, "gone")
  /\ UNCHANGED <<csv_preparations, locked, version, active, file, query, cancelling,
                 cancels, drop>>

\* The worker reserves its allowance and build_csv_prepared_artifact compares the
\* fingerprints before it reads ...
StartBuild(t) ==
  /\ pc[t] = "allocate" /\ ~task[t].cancel /\ ~Changed(t)
  /\ version' = [version EXCEPT ![t] = file]
  /\ Goto(t, "read")
  /\ UNCHANGED <<csv_preparations, locked, task, active, file, query, cancelling,
                 cancels, drop>>

\* ... and after it.
FinishBuild(t) ==
  /\ pc[t] = "read" /\ ~task[t].cancel /\ ~Changed(t)
  /\ version' = [version EXCEPT ![t] = IF @ = file THEN @ ELSE NoVersion]
  /\ Goto(t, "publish")
  /\ UNCHANGED <<csv_preparations, locked, task, active, file, query, cancelling,
                 cancels, drop>>

\* The entry is published in the cache, under its lock, or not kept there.
PublishEntry(t) ==
  /\ pc[t] = "publish" /\ Unlocked /\ ~Changed(t) /\ MayCommit(t)
  /\ Goto(t, "reopen")
  /\ UNCHANGED <<csv_preparations, locked, task, version, active, file, query,
                 cancelling, cancels, drop>>

\* The prepared database is opened for reading.
Reopen(t) ==
  /\ pc[t] = "reopen" /\ Unlocked /\ ~Changed(t) /\ MayCommit(t)
  /\ Goto(t, "commit")
  /\ UNCHANGED <<csv_preparations, locked, task, version, active, file, query,
                 cancelling, cancels, drop>>

\* A step of the worker fails or finds another file, or the worker sees that it is
\* cancelled or, where it looks, no longer current.
WorkerGivesUp(t) ==
  /\ pc[t] \in {"allocate", "read", "publish", "reopen"}
  /\ \/ Ends(t, "Failed")
     \/ task[t].cancel /\ Ends(t, "Cancelled")
     \/ /\ pc[t] \in {"publish", "reopen"} /\ Unlocked /\ ~MayCommit(t)
        /\ Ends(t, "Cancelled")
  /\ Goto(t, "exit")
  /\ UNCHANGED <<csv_preparations, locked, version, active, file, query, cancelling,
                 cancels, drop>>

-----------------------------------------------------------------------------
(* commit_csv_preparation_ready, on either thread *)

Commit(t) ==
  /\ pc[t] = "commit" /\ Unlocked
  /\ IF MayCommit(t)
     THEN locked' = t /\ Goto(t, "store") /\ UNCHANGED task
     ELSE Ends(t, "Cancelled") /\ Goto(t, "exit") /\ UNCHANGED locked
  /\ UNCHANGED <<csv_preparations, version, active, file, query, cancelling, cancels,
                 drop>>

StoreArtifact(t) ==
  /\ pc[t] = "store"
  /\ task' = [task EXCEPT ![t].artifact = version[t]]
  /\ Goto(t, "ready")
  /\ UNCHANGED <<csv_preparations, locked, version, active, file, query, cancelling,
                 cancels, drop>>

SetReady(t) ==
  /\ pc[t] = "ready"
  /\ Ends(t, "Ready")
  /\ locked' = None
  /\ Goto(t, "exit")
  /\ UNCHANGED <<csv_preparations, version, active, file, query, cancelling, cancels,
                 drop>>

\* The worker's lease and permit go when its closure returns.
Exit(t) ==
  /\ pc[t] = "exit"
  /\ IF task[t].worker THEN Release(t) ELSE UNCHANGED active
  /\ Goto(t, "gone")
  /\ version' = [version EXCEPT ![t] = NoVersion]
  /\ UNCHANGED <<csv_preparations, locked, task, file, query, cancelling, cancels,
                 drop>>

-----------------------------------------------------------------------------
(* source_after_csv_preparation and source_with_ready_csv_artifact *)

At(q, point) == query[q].pc = point

QueryGoto(q, point) == query' = [query EXCEPT ![q].pc = point]

Answer(q, outcome, content) ==
  query' = [query EXCEPT ![q].pc = "done", ![q].outcome = outcome,
                         ![q].content = content]

QueryCall(q, s, kind) ==
  /\ At(q, "idle")
  /\ query' = [query EXCEPT ![q].pc = "look", ![q].kind = kind, ![q].session = s,
                            ![q].since = file]
  /\ UNCHANGED <<csv_preparations, locked, task, pc, version, active, file,
                 cancelling, cancels, drop>>

Look(q) ==
  LET t == csv_preparations[query[q].session] IN
  /\ At(q, "look") /\ Unlocked
  /\ query' = [query EXCEPT ![q].task = t,
                            ![q].pc = IF t = None THEN "done" ELSE "check",
                            ![q].outcome = IF t = None THEN "direct" ELSE @]
  /\ UNCHANGED <<csv_preparations, locked, task, pc, version, active, file,
                 cancelling, cancels, drop>>

\* A query that finds the file changed, before or after its wait, cancels the task.
Check(q) ==
  LET t == query[q].task IN
  /\ At(q, "check") \/ At(q, "verify")
  /\ IF Changed(t)
     THEN /\ task' = [task EXCEPT ![t].cancel = TRUE]
          /\ QueryGoto(q, "take")
     ELSE /\ IF At(q, "check") /\ query[q].kind = "query" THEN QueryGoto(q, "wait")
             ELSE IF task[t].state = "Ready" THEN QueryGoto(q, "fetch")
             ELSE Answer(q, "direct", None)
          /\ UNCHANGED task
  /\ UNCHANGED <<csv_preparations, locked, pc, version, active, file, cancelling,
                 cancels, drop>>

TakeArtifact(q) ==
  /\ At(q, "take")
  /\ task' = [task EXCEPT ![query[q].task].artifact = None]
  /\ Answer(q, "direct", None)
  /\ UNCHANGED <<csv_preparations, locked, pc, version, active, file, cancelling,
                 cancels, drop>>

NotWaited(t) == TRUE   \* fault: a query does not wait

\* The state that ends a wait.
Stopped(t) == task[t].state # "Preparing"

Wait(q) ==
  /\ At(q, "wait") /\ Stopped(query[q].task)
  /\ QueryGoto(q, "recheck")
  /\ UNCHANGED <<csv_preparations, locked, task, pc, version, active, file,
                 cancelling, cancels, drop>>

\* After the wait the task may have been dropped, or replaced by another one.
Recheck(q) ==
  LET current == csv_preparations[query[q].session] IN
  /\ At(q, "recheck") /\ Unlocked
  /\ IF current = None THEN Answer(q, "cancelled", None)
     ELSE QueryGoto(q, IF current = query[q].task THEN "verify" ELSE "look")
  /\ UNCHANGED <<csv_preparations, locked, task, pc, version, active, file,
                 cancelling, cancels, drop>>

Fetch(q) ==
  LET artifact == task[query[q].task].artifact IN
  /\ At(q, "fetch")
  /\ IF artifact = None THEN Answer(q, "direct", None)
     ELSE Answer(q, "prepared", artifact)
  /\ UNCHANGED <<csv_preparations, locked, task, pc, version, active, file,
                 cancelling, cancels, drop>>

\* A query that is cancelled, or older than its session's epoch, stops waiting.
QueryCancelled(q) ==
  /\ query[q].kind = "query" /\ query[q].pc \in {"look", "wait", "recheck"}
  /\ Answer(q, "cancelled", None)
  /\ UNCHANGED <<csv_preparations, locked, task, pc, version, active, file,
                 cancelling, cancels, drop>>

-----------------------------------------------------------------------------
(* cancel_csv_preparation, drop_session, the file *)

CancelCall(s) ==
  /\ cancels < MaxCancels /\ Unlocked /\ csv_preparations[s] # None
  /\ cancels' = cancels + 1
  /\ cancelling' = cancelling \union {csv_preparations[s]}
  /\ UNCHANGED <<csv_preparations, locked, task, pc, version, active, file, query,
                 drop>>

CancelFlag(t) ==
  /\ t \in cancelling
  /\ task' = [task EXCEPT ![t].cancel = TRUE]
  /\ cancelling' = cancelling \ {t}
  /\ UNCHANGED <<csv_preparations, locked, pc, version, active, file, query, cancels,
                 drop>>

DropCall(d, s) ==
  LET t == csv_preparations[s] IN
  /\ drop[d].pc = "idle" /\ Unlocked
  /\ csv_preparations' = [csv_preparations EXCEPT ![s] = None]
  /\ drop' = [drop EXCEPT ![d] = IF t = None
                                 THEN [pc |-> "done", task |-> None, result |-> "Ok"]
                                 ELSE [pc |-> "cancel", task |-> t, result |-> "none"]]
  /\ UNCHANGED <<locked, task, pc, version, active, file, query, cancelling, cancels>>

DropCancels(d) ==
  /\ drop[d].pc = "cancel"
  /\ task' = [task EXCEPT ![drop[d].task].cancel = TRUE]
  /\ drop' = [drop EXCEPT ![d].pc = "wait"]
  /\ UNCHANGED <<csv_preparations, locked, pc, version, active, file, query,
                 cancelling, cancels>>

\* wait_csv_preparation_worker; the join is left out, since the handle of the
\* worker is stored after it was spawned and may not be there yet.
DropWaits(d) ==
  /\ drop[d].pc = "wait" /\ Stopped(drop[d].task)
  /\ drop' = [drop EXCEPT ![d].pc = "done", ![d].result = "Ok"]
  /\ UNCHANGED <<csv_preparations, locked, task, pc, version, active, file, query,
                 cancelling, cancels>>

\* The lifecycle deadline.
DropTimesOut(d) ==
  /\ drop[d].pc = "wait"
  /\ drop' = [drop EXCEPT ![d].pc = "done", ![d].result = "Failed"]
  /\ UNCHANGED <<csv_preparations, locked, task, pc, version, active, file, query,
                 cancelling, cancels>>

FileChanges ==
  /\ file < MaxVersions
  /\ file' = file + 1
  /\ UNCHANGED <<csv_preparations, locked, task, pc, version, active, query,
                 cancelling, cancels, drop>>

-----------------------------------------------------------------------------
Prepare(t) ==
  \/ Insert(t) \/ Lookup(t) \/ PreparationFails(t) \/ Restore(t)
  \/ AcquirePermit(t) \/ CancelledInQueue(t) \/ StartBuild(t)
  \/ FinishBuild(t) \/ PublishEntry(t) \/ Reopen(t) \/ WorkerGivesUp(t)
  \/ Commit(t) \/ StoreArtifact(t) \/ SetReady(t) \/ Exit(t)

Proceed(q) ==
  Look(q) \/ Check(q) \/ TakeArtifact(q) \/ Wait(q) \/ Recheck(q) \/ Fetch(q)

Next ==
  \/ \E t \in Tasks : Prepare(t) \/ CancelFlag(t) \/ \E s \in Sessions : PrepareCall(t, s)
  \/ \E q \in Queries : \/ Proceed(q) \/ QueryCancelled(q)
                        \/ \E s \in Sessions, kind \in {"query", "page"} :
                             QueryCall(q, s, kind)
  \/ \E d \in Drops : \/ DropCancels(d) \/ DropWaits(d) \/ DropTimesOut(d)
                      \/ \E s \in Sessions : DropCall(d, s)
  \/ \E s \in Sessions : CancelCall(s)
  \/ FileChanges

Spec == Init /\ [][Next]_vars

-----------------------------------------------------------------------------
(* Properties *)

\* A task becomes Ready only as the task of its session: one that was replaced or
\* whose session was dropped never does, whatever its worker had passed by then.
ReadyIsCurrent ==
  [][\A t \in Tasks :
       task'[t].state = "Ready" /\ task[t].state # "Ready"
         => csv_preparations[task[t].session] = t]_vars

\* What a query or a page reads from an artifact is one version of the file, and
\* none older than the file was when it was asked for.
PreparedIsFresh ==
  \A q \in Queries :
    query[q].outcome = "prepared" => query[q].content \in query[q].since..file

\* "Only when the preparation fails or is explicitly cancelled does a query fall back to the
\* direct source": what docs/PROJECT_SPEC.md says of a query that finds a preparation.
FallbackAfterFailure ==
  \A q \in Queries :
    query[q].kind = "query" /\ query[q].outcome = "direct" /\ query[q].task # None
      => task[query[q].task].state \in {"Failed", "Cancelled"}

\* Once drop_session has returned Ok, the worker of the task it removed has nothing
\* left to do with the source, the cache and the map.
DropQuiescesPreparation ==
  \A d \in Drops :
    drop[d].result = "Ok" /\ drop[d].task # None => pc[drop[d].task] \in {"exit", "gone"}

\* The tasks that a session, a query or a drop knows.
Known(t) ==
  \/ \E s \in Sessions : csv_preparations[s] = t
  \/ \E q \in Queries : query[q].task = t
  \/ \E d \in Drops : drop[d].task = t

\* A known task that is Preparing has a call or a worker that goes on with it.
GoesOn(t) ==
  Known(t) /\ task[t].state = "Preparing" => pc[t] \notin {"idle", "exit", "gone"}

\* Nobody waits for ever: a known task that is Preparing has a call or a worker that
\* goes on with it, and every permit taken belongs to a worker that has yet to return
\* it, however tasks were cancelled, replaced, dropped and failed.
PreparationsGoOn ==
  /\ \A t \in Tasks : GoesOn(t)
  /\ active = Cardinality({t \in Tasks : HoldsPermit(t)})

-----------------------------------------------------------------------------
(* The inductive invariant behind these properties (CsvPreparationProofs) *)

\* Its call or worker has nothing left to do with the task.
Over(t) == pc[t] \in {"exit", "gone"}

Committing(t) == pc[t] \in {"store", "ready"}

\* What a task's control point says of it.
TaskAgrees(t) ==
  /\ pc[t] \in {"idle", "insert"} =>
       task[t].state = "Preparing" /\ task[t].artifact = None /\ ~Known(t)
  /\ task[t].state # "Preparing" => Over(t)
  /\ pc[t] \in {"idle", "insert", "lookup", "restore"} => ~task[t].worker
  /\ pc[t] = "queue" => task[t].worker
  /\ pc[t] # "idle" => task[t].session \in Sessions /\ task[t].fingerprint <= file

\* A task that commits has the lock and is in the map.
CommitsCurrently(t) ==
  /\ Committing(t) <=> locked = t
  /\ Committing(t) => csv_preparations[task[t].session] = t

\* What is built, published and kept is the version of the fingerprint.
ArtifactMatches(t) ==
  /\ pc[t] \in {"restore", "read", "publish", "reopen", "commit", "store", "ready"} =>
       version[t] = task[t].fingerprint
  /\ task[t].artifact # None => task[t].artifact = task[t].fingerprint
  /\ pc[t] = "ready" \/ task[t].state = "Ready" =>
       task[t].artifact # None \/ Changed(t)

\* What a query has found out about its task stays true until it answers.
QueriesAgree ==
  \A q \in Queries :
    LET t == query[q].task IN
    /\ query[q].since <= file
    /\ query[q].pc # "done" => query[q].outcome = "none"
    /\ query[q].pc \notin {"idle", "done"} => query[q].session \in Sessions
    /\ query[q].pc \notin {"idle", "look", "done"} => t # None
    /\ query[q].pc \in {"recheck", "verify"} => task[t].state # "Preparing"
    /\ query[q].pc = "take" => Changed(t)
    /\ query[q].pc = "fetch" =>
         task[t].state = "Ready" /\ query[q].since <= task[t].fingerprint

\* What source_after_csv_preparation keeps to instead of FallbackAfterFailure: it scans the
\* file itself when that has changed, too.
FallbackJustified ==
  \A q \in Queries :
    query[q].kind = "query" /\ query[q].outcome = "direct" /\ query[q].task # None
      => \/ task[query[q].task].state \in {"Failed", "Cancelled"}
         \/ file # task[query[q].task].fingerprint

DropsAgree ==
  \A d \in Drops : drop[d].pc \in {"cancel", "wait"} =>
    drop[d].task # None /\ drop[d].result = "none"

PreparationInvariant ==
  /\ TypeOK
  /\ \A t \in Tasks : TaskAgrees(t) /\ CommitsCurrently(t) /\ ArtifactMatches(t)
  /\ QueriesAgree /\ DropsAgree
  /\ PreparedIsFresh /\ FallbackJustified /\ DropQuiescesPreparation /\ PreparationsGoOn

===============================================================================
