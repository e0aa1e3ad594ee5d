------------------------------ MODULE OpenPaths -------------------------------
(***************************************************************************)
(* Opening a batch of files (src-tauri/src/commands/mod.rs,                *)
(* AppState::open_paths).  A batch reserves its paths one after the other, *)
(* prepares the reserved sources in chunks of worker threads that share a  *)
(* process-wide limit, and then settles its items in request order.        *)
(* Batches run concurrently: open_data_paths on the main thread,           *)
(* select_data_file_paths on the asynchronous runtime.                     *)
(*                                                                         *)
(* The registry is seen here through whole calls (DocumentRegistry has its *)
(* critical sections): an open path, a reserved one, or neither.           *)
(*                                                                         *)
(* The request ids have locks of their own: an item whose source is ready  *)
(* looks for a cancellation under one and is committed under another, and  *)
(* cancel_open may run in between.                                         *)
(***************************************************************************)
EXTENDS Integers, Sequences, SequencesExt, FiniteSets

CONSTANTS
  Batches,             \* calls of open_paths, each made at most once
  Request,             \* batch -> sequence of canonical paths, with duplicates
  RequestId,           \* batch -> request id chosen by the caller
  DocumentLimit,       \* DOCUMENT_LIMIT (64)
  MaxPrepares,         \* MAX_CONCURRENT_SOURCE_PREPARES (4)
  RequestCapacity      \* COMPLETED_REQUEST_CAPACITY (256)

BadPath == 0           \* a path that cannot be canonicalized
None == 0

RequestIds == {RequestId[b] : b \in Batches}
Paths == (UNION {Range(Request[b]) : b \in Batches}) \ {BadPath}

ASSUME RequestAssumption ==
  /\ Request \in [Batches -> Seq(Nat)] /\ \A b \in Batches : Len(Request[b]) >= 1
  /\ MaxPrepares \in Nat \ {0} /\ RequestCapacity \in Nat \ {0}

VARIABLES
  next_document_id,
  paths, reservations, \* canonical path -> document id or None
  completed_requests,  \* FIFO of registered request ids
  cancelled_requests,  \* FIFO of request ids the client asked to cancel
  active,              \* permits taken from the source prepare limiter
  pc,                  \* phase of each batch
  plans,               \* what each item of a batch became while reserving
  prepared,            \* state of the prepare worker of each item
  outcomes,            \* result of each settled item, in request order
  spared,              \* items committed after their request was cancelled
  asked                \* requests the client has cancelled (each at most once)

registry == <<next_document_id, paths, reservations>>
requests == <<completed_requests, cancelled_requests, asked>>
vars == <<registry, requests, active, pc, plans, prepared, outcomes, spared>>

Items(b) == 1..Len(Request[b])

Plans == [kind : {"Failed", "Existing", "Reserved", "Duplicate"},
          document : Nat, first_index : Nat]

Failed == [kind |-> "Failed", document |-> None, first_index |-> 0]

\* A worker waits for a permit ("queued"), reads the file, and is joined.
Prepares == {"none", "queued", "running", "ok", "failed"}

\* The document an item ended with, or None for a failure.
Outcomes == Nat

\* After "settling" an item is on its way to be committed or given up.
Phases == {"idle", "reserving", "waiting", "preparing", "settling", "committing",
           "cancelling", "done", "refused"}
SettlingPhases == {"settling", "committing", "cancelling"}

Reserved == {p \in Paths : reservations[p] # None}
Opened == {p \in Paths : paths[p] # None}

TypeOK ==
  /\ next_document_id \in Nat \ {0}
  /\ paths \in [Paths -> Nat]
  /\ reservations \in [Paths -> Nat]
  /\ completed_requests \in Seq(RequestIds) /\ Len(completed_requests) <= RequestCapacity
  /\ cancelled_requests \in Seq(RequestIds) /\ Len(cancelled_requests) <= RequestCapacity
  /\ active \in 0..MaxPrepares
  /\ pc \in [Batches -> Phases]
  /\ \A b \in Batches :
       /\ plans[b] \in Seq(Plans) /\ Len(plans[b]) <= Len(Request[b])
       /\ prepared[b] \in [Items(b) -> Prepares]
       /\ outcomes[b] \in Seq(Outcomes) /\ Len(outcomes[b]) <= Len(Request[b])
  /\ spared \in SUBSET (Batches \X Nat)
  /\ asked \in SUBSET RequestIds

Init ==
  /\ next_document_id = 1
  /\ paths = [p \in Paths |-> None]
  /\ reservations = [p \in Paths |-> None]
  /\ completed_requests = <<>> /\ cancelled_requests = <<>> /\ asked = {}
  /\ active = 0
  /\ pc = [b \in Batches |-> "idle"]
  /\ plans = [b \in Batches |-> <<>>]
  /\ prepared = [b \in Batches |-> [i \in Items(b) |-> "none"]]
  /\ outcomes = [b \in Batches |-> <<>>]
  /\ spared = {}

-----------------------------------------------------------------------------
(* Requests *)

\* push_back, then drop from the front above the capacity.
Remember(fifo, id) ==
  LET longer == Append(fifo, id)
  IN  IF Len(longer) > RequestCapacity THEN Tail(longer) ELSE longer

\* retain: cancel_open forgets an id before it adds it, so there is one at most.
Forget(fifo, id) ==
  IF id \in Range(fifo)
  THEN RemoveAt(fifo, CHOOSE i \in DOMAIN fifo : fifo[i] = id)
  ELSE fifo

IsCancelled(b) == RequestId[b] \in Range(cancelled_requests)

\* register_request: an id still remembered is refused.
Register(b) ==
  /\ pc[b] = "idle"
  /\ IF RequestId[b] \in Range(completed_requests)
     THEN /\ pc' = [pc EXCEPT ![b] = "refused"]
          /\ UNCHANGED completed_requests
     ELSE /\ pc' = [pc EXCEPT ![b] = "reserving"]
          /\ completed_requests' = Remember(completed_requests, RequestId[b])
  /\ UNCHANGED <<registry, cancelled_requests, asked, active, plans, prepared,
                 outcomes, spared>>

\* cancel_open: at any time, the request may be over or not yet started.
CancelOpen(id) ==
  /\ id \notin asked
  /\ asked' = asked \union {id}
  /\ cancelled_requests' = Remember(Forget(cancelled_requests, id), id)
  /\ UNCHANGED <<registry, completed_requests, active, pc, plans, prepared,
                 outcomes, spared>>

-----------------------------------------------------------------------------
(* Reserving: one path at a time, keeping the reservations already made *)

NextItem(b) == Len(plans[b]) + 1

Plan(b, plan) == plans' = [plans EXCEPT ![b] = Append(@, plan)]

Earlier(b, i) == {j \in 1..(i - 1) : Request[b][j] = Request[b][i]}

\* What no reservation is needed for.
PlanWithoutReservation(b) ==
  LET i == NextItem(b)
      p == Request[b][i]
  IN
  /\ pc[b] = "reserving" /\ i <= Len(Request[b])
  /\ \/ p = BadPath /\ Plan(b, Failed)
     \/ /\ p # BadPath /\ Earlier(b, i) # {}
        /\ Plan(b, [kind |-> "Duplicate", document |-> None,
                    first_index |-> CHOOSE j \in Earlier(b, i) :
                                      \A k \in Earlier(b, i) : j <= k])
  /\ UNCHANGED <<registry, requests, active, pc, prepared, outcomes, spared>>

\* reserve_path on the next path: join, wait, fail at the limit, or reserve.
ReservePath(b) ==
  LET i == NextItem(b)
      p == Request[b][i]
  IN
  /\ pc[b] = "reserving" /\ i <= Len(Request[b])
  /\ p # BadPath /\ Earlier(b, i) = {}
  /\ \/ /\ paths[p] # None
        /\ Plan(b, [kind |-> "Existing", document |-> paths[p], first_index |-> 0])
        /\ UNCHANGED <<registry, pc>>
     \/ /\ paths[p] = None /\ reservations[p] # None
        /\ pc' = [pc EXCEPT ![b] = "waiting"]
        /\ UNCHANGED <<registry, plans>>
     \/ /\ paths[p] = None /\ reservations[p] = None
        /\ Cardinality(Opened) + Cardinality(Reserved) >= DocumentLimit
        /\ Plan(b, Failed)
        /\ UNCHANGED <<registry, pc>>
     \/ /\ paths[p] = None /\ reservations[p] = None
        /\ Cardinality(Opened) + Cardinality(Reserved) < DocumentLimit
        /\ next_document_id' = next_document_id + 1
        /\ reservations' = [reservations EXCEPT ![p] = next_document_id]
        /\ Plan(b, [kind |-> "Reserved", document |-> next_document_id, first_index |-> 0])
        /\ UNCHANGED <<paths, pc>>
  /\ UNCHANGED <<requests, active, prepared, outcomes, spared>>

\* Fault: nobody is notified.
NotifyNone(b, phase) == pc' = [pc EXCEPT ![b] = phase]

\* reservation_changed.notify_all, with b moving to the given phase.
NotifyAll(b, phase) ==
  pc' = [c \in Batches |-> IF c = b THEN phase
                           ELSE IF pc[c] = "waiting" THEN "reserving" ELSE pc[c]]

-----------------------------------------------------------------------------
(* Preparing: chunks of MaxPrepares worker threads, joined chunk by chunk *)

Jobs(b) == {i \in Items(b) : plans[b][i].kind = "Reserved"}
Unspawned(b) == {i \in Jobs(b) : prepared[b][i] = "none"}
Unjoined(b) == {i \in Jobs(b) : prepared[b][i] \in {"queued", "running"}}

\* The first MaxPrepares of a set of items.
Chunk(items) == {i \in items : Cardinality({j \in items : j < i}) < MaxPrepares}

SpawnChunk(b) ==
  /\ \/ pc[b] = "reserving" /\ Len(plans[b]) = Len(Request[b])
     \/ pc[b] = "preparing"
  /\ Unjoined(b) = {} /\ Unspawned(b) # {}
  /\ pc' = [pc EXCEPT ![b] = "preparing"]
  /\ prepared' = [prepared EXCEPT ![b] =
       [i \in Items(b) |-> IF i \in Chunk(Unspawned(b)) THEN "queued" ELSE @[i]]]
  /\ UNCHANGED <<registry, requests, active, plans, outcomes, spared>>

\* Fault: the count is not looked at again after the wait.
AcquireAnyway(b, i) ==
  /\ prepared[b][i] = "queued"
  /\ active' = active + 1
  /\ prepared' = [prepared EXCEPT ![b][i] = "running"]
  /\ UNCHANGED <<registry, requests, pc, plans, outcomes, spared>>

\* The wait of the limiter is a guard: a released permit wakes one waiter.
AcquirePermit(b, i) ==
  /\ prepared[b][i] = "queued"
  /\ active < MaxPrepares
  /\ active' = active + 1
  /\ prepared' = [prepared EXCEPT ![b][i] = "running"]
  /\ UNCHANGED <<registry, requests, pc, plans, outcomes, spared>>

\* Fault: a failed preparation keeps its permit.
PrepareLeaks(b, i, result) ==
  /\ prepared[b][i] = "running"
  /\ result \in {"ok", "failed"}
  /\ active' = IF result = "ok" THEN active - 1 ELSE active
  /\ prepared' = [prepared EXCEPT ![b][i] = result]
  /\ UNCHANGED <<registry, requests, pc, plans, outcomes, spared>>

\* DataSource::open and the first page, or an error; the permit is dropped.
PrepareSource(b, i, result) ==
  /\ prepared[b][i] = "running"
  /\ result \in {"ok", "failed"}
  /\ active' = active - 1
  /\ prepared' = [prepared EXCEPT ![b][i] = result]
  /\ UNCHANGED <<registry, requests, pc, plans, outcomes, spared>>

JoinLast(b) ==
  /\ pc[b] \in {"reserving", "preparing"}
  /\ Len(plans[b]) = Len(Request[b])
  /\ Unspawned(b) = {} /\ Unjoined(b) = {}
  /\ pc' = [pc EXCEPT ![b] = "settling"]
  /\ UNCHANGED <<registry, requests, active, plans, prepared, outcomes, spared>>

-----------------------------------------------------------------------------
(* Settling: items in request order *)

Settled(b) == Len(outcomes[b]) + 1
PlanOf(b) == plans[b][Settled(b)]

Settling(b, phase, kind) ==
  /\ pc[b] = phase /\ Settled(b) <= Len(Request[b])
  /\ PlanOf(b).kind = kind

Settle(b, outcome) == outcomes' = [outcomes EXCEPT ![b] = Append(@, outcome)]

IsOpen(d) == d # None /\ \E p \in Paths : paths[p] = d

SettleFailed(b) ==
  /\ Settling(b, "settling", "Failed")
  /\ Settle(b, None)
  /\ UNCHANGED <<registry, requests, active, pc, plans, prepared, spared>>

\* open_existing and open_existing_identity, for an item that joins document d:
\* it fails when the document is closed by now, and may fail to read its page.
Join(b, d) ==
  /\ \/ IsOpen(d) /\ Settle(b, d)
     \/ Settle(b, None)
  /\ UNCHANGED <<registry, requests, active, pc, plans, prepared, spared>>

SettleExisting(b) == Settling(b, "settling", "Existing") /\ Join(b, PlanOf(b).document)

\* A duplicate joins what its first item opened, or repeats its error.
SettleDuplicate(b) ==
  Settling(b, "settling", "Duplicate") /\ Join(b, outcomes[b][PlanOf(b).first_index])

IsPrepared(b) == prepared[b][Settled(b)] = "ok"

\* Fault: the cancellation is not looked at again after the preparation.
CheckNothing(b) ==
  /\ Settling(b, "settling", "Reserved") /\ IsPrepared(b)
  /\ pc' = [pc EXCEPT ![b] = "committing"]
  /\ UNCHANGED <<registry, requests, active, plans, prepared, outcomes, spared>>

\* is_request_cancelled, whose lock is released before the item is dealt with.
CheckRequest(b) ==
  /\ Settling(b, "settling", "Reserved") /\ IsPrepared(b)
  /\ pc' = [pc EXCEPT ![b] = IF IsCancelled(b) THEN "cancelling" ELSE "committing"]
  /\ UNCHANGED <<registry, requests, active, plans, prepared, outcomes, spared>>

\* commit_prepared.
CommitPrepared(b) ==
  LET p == Request[b][Settled(b)] IN
  /\ Settling(b, "committing", "Reserved")
  /\ paths' = [paths EXCEPT ![p] = PlanOf(b).document]
  /\ reservations' = [reservations EXCEPT ![p] = None]
  /\ NotifyAll(b, "settling")
  /\ Settle(b, PlanOf(b).document)
  /\ spared' = IF RequestId[b] \in asked THEN spared \union {<<b, Settled(b)>>} ELSE spared
  /\ UNCHANGED <<next_document_id, requests, active, plans, prepared>>

\* The preparation failed, or the check has found the cancellation.
MustCancel(b) ==
  \/ Settling(b, "settling", "Reserved") /\ ~IsPrepared(b)
  \/ Settling(b, "cancelling", "Reserved")

\* Fault: the item fails and its reservation stays.
ForgetReservation(b) ==
  /\ MustCancel(b)
  /\ pc' = [pc EXCEPT ![b] = "settling"]
  /\ Settle(b, None)
  /\ UNCHANGED <<registry, requests, active, plans, prepared, spared>>

CancelReservation(b) ==
  LET p == Request[b][Settled(b)] IN
  /\ MustCancel(b)
  /\ reservations' = [reservations EXCEPT ![p] = None]
  /\ NotifyAll(b, "settling")
  /\ Settle(b, None)
  /\ UNCHANGED <<next_document_id, paths, requests, active, plans, prepared, spared>>

\* clear_request_cancellation and the response.
Respond(b) ==
  /\ pc[b] = "settling" /\ Settled(b) > Len(Request[b])
  /\ pc' = [pc EXCEPT ![b] = "done"]
  /\ cancelled_requests' = Forget(cancelled_requests, RequestId[b])
  /\ UNCHANGED <<registry, completed_requests, asked, active, plans, prepared,
                 outcomes, spared>>

\* The user closes a document (close_document).
Close(p) ==
  /\ paths[p] # None
  /\ paths' = [paths EXCEPT ![p] = None]
  /\ UNCHANGED <<next_document_id, reservations, requests, active, pc, plans,
                 prepared, outcomes, spared>>

-----------------------------------------------------------------------------

Work(b) ==
  \/ PlanWithoutReservation(b) \/ ReservePath(b) \/ SpawnChunk(b) \/ JoinLast(b)
  \/ SettleFailed(b) \/ SettleExisting(b) \/ SettleDuplicate(b)
  \/ CheckRequest(b) \/ CommitPrepared(b) \/ CancelReservation(b) \/ Respond(b)

Worker(b, i) ==
  AcquirePermit(b, i) \/ \E result \in {"ok", "failed"} : PrepareSource(b, i, result)

Next ==
  \/ \E b \in Batches : Register(b) \/ Work(b) \/ \E i \in Items(b) : Worker(b, i)
  \/ \E id \in RequestIds : CancelOpen(id)
  \/ \E p \in Paths : Close(p)

\* Threads are scheduled and files are read in finite time; the user need not
\* open, cancel or close anything.  Weak fairness is enough for the contended
\* permits, because finitely many batches compete for them.
Fairness ==
  \A b \in Batches :
    WF_vars(Work(b)) /\ \A i \in Items(b) : WF_vars(Worker(b, i))

Spec == Init /\ [][Next]_vars
FairSpec == Spec /\ Fairness

-----------------------------------------------------------------------------
(* Properties *)

Holds(b) ==
  {p \in Paths : \E i \in DOMAIN plans[b] :
     /\ plans[b][i].kind = "Reserved" /\ i > Len(outcomes[b])
     /\ Request[b][i] = p /\ reservations[p] = plans[b][i].document}

\* Every reservation is held by exactly one batch that has yet to settle that
\* item, and a batch that responded leaves none behind, whatever was cancelled,
\* failed or duplicated (open_paths).
ReservationsAccounted ==
  /\ \A p \in Reserved : Cardinality({b \in Batches : p \in Holds(b)}) = 1
  /\ \A b \in Batches : pc[b] = "done" => Holds(b) = {}

\* Once a request is cancelled, its batch commits one more document at most, the one whose
\* check had passed when the cancellation came: every later item finds the cancellation,
\* which the list has not lost and the end of another batch has not cleared (cancel_open,
\* is_request_cancelled, clear_request_cancellation).
CancelledCommitsOne ==
  \A s, t \in spared : RequestId[s[1]] = RequestId[t[1]] => s = t

\* "On a cancellation of the request the items that are not committed yet are cancelled":
\* what the design asks of cancel_open.
CancelledCommitsNothing == spared = {}

\* A path that waits for the reservation of another batch is joined, reserved
\* or refused in the end: "Concurrent opens of the same path wait for the first
\* reservation to commit or fail, then reuse or retry deterministically."
WaitersProceed ==
  \A b \in Batches : pc[b] = "waiting" ~> pc[b] = "reserving"

\* Every batch that starts responds.
BatchesRespond ==
  \A b \in Batches : pc[b] = "reserving" ~> pc[b] = "done"

-----------------------------------------------------------------------------
(* The inductive invariant behind ReservationsAccounted (OpenPathsProofs) *)

\* The items of a batch that have reserved their path and are not settled.
Unsettled(b) ==
  {i \in DOMAIN plans[b] : plans[b][i].kind = "Reserved" /\ i > Len(outcomes[b])}

BatchTypes ==
  /\ plans \in [Batches -> Seq(Plans)]
  /\ outcomes \in [Batches -> Seq(Outcomes)]
  /\ paths \in [Paths -> Nat] /\ reservations \in [Paths -> Nat]
  /\ next_document_id \in Nat \ {0}
  /\ pc \in [Batches -> Phases]

\* A batch settles what it has planned wholly, and responds when it has settled it.
PhasesOrdered ==
  \A b \in Batches :
    /\ pc[b] \notin SettlingPhases \union {"done"} => outcomes[b] = <<>>
    /\ pc[b] \in SettlingPhases \union {"done"} => Len(plans[b]) = Len(Request[b])
    /\ pc[b] = "done" => Len(outcomes[b]) >= Len(plans[b])

\* An unsettled item has its reservation, one path has one such item, and every
\* reservation has one.
ItemsHold ==
  /\ \A b \in Batches : \A i \in Unsettled(b) :
       /\ Request[b][i] \in Reserved
       /\ reservations[Request[b][i]] = plans[b][i].document
  /\ \A b, c \in Batches : \A i \in Unsettled(b), j \in Unsettled(c) :
       Request[b][i] = Request[c][j] => b = c /\ i = j
  /\ \A p \in Reserved : \E b \in Batches : \E i \in Unsettled(b) : Request[b][i] = p

BatchInvariant == BatchTypes /\ PhasesOrdered /\ ItemsHold

\* The workers that hold a permit of the limiter.
Running ==
  {w \in Batches \X UNION {Items(b) : b \in Batches} :
     w[2] \in Items(w[1]) /\ prepared[w[1]][w[2]] = "running"}

\* Each permit is one of a worker that runs, none is lost when a preparation fails or its
\* batch is cancelled, and there are never more of them than the limit.
PermitsCounted ==
  /\ prepared = [b \in Batches |-> [i \in Items(b) |-> prepared[b][i]]]
  /\ IsFiniteSet(Running) /\ active = Cardinality(Running) /\ active <= MaxPrepares

-----------------------------------------------------------------------------
(* The inductive invariant behind CancelledCommitsOne (OpenPathsProofs) *)

Started(b) == pc[b] \notin {"idle", "refused"}

Once(fifo) == \A i, j \in DOMAIN fifo : fifo[i] = fifo[j] => i = j

\* A batch that has committed an item in spite of its cancellation passes no other check.
SparedOnce ==
  /\ \A s \in spared :
       /\ s[1] \in Batches /\ Started(s[1]) /\ RequestId[s[1]] \in asked
       /\ pc[s[1]] # "committing"
  /\ CancelledCommitsOne

\* A started batch is registered, and it is the only one with its id; a cancellation
\* is remembered until the batch with its id has responded.
RequestsKept ==
  /\ completed_requests \in Seq(RequestIds) /\ Once(completed_requests)
  /\ cancelled_requests \in Seq(RequestIds) /\ Once(cancelled_requests)
  /\ \A b \in Batches : Started(b) => RequestId[b] \in Range(completed_requests)
  /\ \A b, c \in Batches :
       Started(b) /\ Started(c) /\ RequestId[b] = RequestId[c] => b = c
  /\ Range(cancelled_requests) \subseteq asked /\ asked \subseteq RequestIds
  /\ \A id \in asked :
       \/ id \in Range(cancelled_requests)
       \/ \E b \in Batches : pc[b] = "done" /\ RequestId[b] = id
  /\ SparedOnce

===============================================================================
