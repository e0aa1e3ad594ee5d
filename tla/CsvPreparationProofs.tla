-------------------------- MODULE CsvPreparationProofs --------------------------
(***************************************************************************)
(* The properties of the CSV preparations, for any sessions, queries,      *)
(* drops, tasks, permits and versions of the file.                         *)
(***************************************************************************)
EXTENDS CsvPreparation, FiniteSetTheorems, TLAPS

-----------------------------------------------------------------------------
(* What a step leaves alone *)

\* A task of which a step changes at most the cancellation flag, or takes the artifact
\* of another version.
Kept(u) ==
  /\ pc'[u] = pc[u] /\ version'[u] = version[u]
  /\ task'[u].session = task[u].session /\ task'[u].fingerprint = task[u].fingerprint
  /\ task'[u].worker = task[u].worker /\ task'[u].state = task[u].state
  /\ \/ task'[u].artifact = task[u].artifact
     \/ task'[u].artifact = None /\ Changed(u)

\* What no step takes back.
Advances(t) ==
  /\ Over(t) => Over(t)'
  /\ task[t].state # "Preparing" => task'[t].state = task[t].state
  /\ pc[t] # "idle" => /\ pc'[t] # "idle"
                       /\ task'[t].session = task[t].session
                       /\ task'[t].fingerprint = task[t].fingerprint

\* What a step of task t may do to the map and its lock.
MapStep(t) ==
  /\ \A s \in Sessions : \/ csv_preparations'[s] = csv_preparations[s]
                         \/ locked = None /\ csv_preparations'[s] \in {t, None}
  /\ locked' = locked \/ {locked, locked'} \subseteq {t, None}

Agree(t) == TaskAgrees(t) /\ CommitsCurrently(t) /\ ArtifactMatches(t) /\ GoesOn(t)

\* A known task has been called.
LEMMA KnownCalled ==
  ASSUME PreparationInvariant, NEW t \in Tasks, Known(t)
  PROVE  /\ pc[t] # "idle" /\ task[t].session \in Sessions
         /\ task[t].fingerprint \in Versions /\ task[t].fingerprint <= file
BY DEF PreparationInvariant, TypeOK, TaskAgrees, CsvPreparations

LEMMA NoneIsNoTask == None \notin Tasks /\ None \notin Sessions /\ None \notin Versions
BY PreparationAssumption DEF Tasks, Versions

\* The task of a query or a drop is known.
LEMMA TheirTasks ==
  ASSUME PreparationInvariant
  PROVE  /\ \A q \in Queries : query[q].task # None =>
                query[q].task \in Tasks /\ Known(query[q].task)
         /\ \A d \in Drops : drop[d].task # None =>
                drop[d].task \in Tasks /\ Known(drop[d].task)
         /\ \A s \in Sessions : csv_preparations[s] # None =>
                csv_preparations[s] \in Tasks /\ Known(csv_preparations[s])
BY DEF PreparationInvariant, TypeOK, QueryStates, DropStates, Known

\* A query that stands still keeps what it knows while tasks advance.
LEMMA QueriesKept ==
  ASSUME PreparationInvariant, TypeOK', NEW q \in Queries,
         NEW u \in Tasks, u = query[q].task, file <= file', Advances(u)
  PROVE  /\ task'[u].fingerprint = task[u].fingerprint
         /\ task[u].state # "Preparing" => task'[u].state = task[u].state
         /\ Changed(u) => Changed(u)'
<1>1. Known(u)
  BY TheirTasks, NoneIsNoTask
<1>2. /\ pc[u] # "idle" /\ task[u].fingerprint \in Versions
      /\ task[u].fingerprint <= file
  BY <1>1, KnownCalled
<1>3. file \in Versions /\ file' \in Versions
  BY DEF PreparationInvariant, TypeOK
<1>4. task'[u].fingerprint = task[u].fingerprint
  BY <1>2 DEF Advances
<1>5. Changed(u) => Changed(u)'
  BY <1>2, <1>3, <1>4 DEF Changed, Versions
<1>6. QED
  BY <1>4, <1>5 DEF Advances

\* The clause of a query in the invariant.
QueryAgrees(q) ==
  LET t == query[q].task IN
  /\ query[q].since <= file
  /\ query[q].pc # "done" => query[q].outcome = "none"
  /\ query[q].pc \notin {"idle", "done"} => query[q].session \in Sessions
  /\ query[q].pc \notin {"idle", "look", "done"} => t # None
  /\ query[q].pc \in {"recheck", "verify"} => task[t].state # "Preparing"
  /\ query[q].pc = "take" => Changed(t)
  /\ query[q].pc = "fetch" =>
       task[t].state = "Ready" /\ query[q].since <= task[t].fingerprint

FreshAndJustified(q) ==
  /\ query[q].outcome = "prepared" => query[q].content \in query[q].since..file
  /\ query[q].kind = "query" /\ query[q].outcome = "direct" /\ query[q].task # None
      => \/ task[query[q].task].state \in {"Failed", "Cancelled"}
         \/ Changed(query[q].task)

LEMMA QueryClauses ==
  /\ QueriesAgree <=> \A q \in Queries : QueryAgrees(q)
  /\ PreparedIsFresh /\ FallbackJustified <=> \A q \in Queries : FreshAndJustified(q)
BY DEF QueriesAgree, QueryAgrees, PreparedIsFresh, FallbackJustified, FreshAndJustified,
       Changed

LEMMA QueryStays ==
  ASSUME PreparationInvariant, TypeOK', NEW q \in Queries,
         query'[q] = query[q], file <= file',
         \A u \in Tasks : Advances(u)
  PROVE  QueryAgrees(q)' /\ FreshAndJustified(q)'
<1>1. QueryAgrees(q) /\ FreshAndJustified(q)
  BY QueryClauses DEF PreparationInvariant
<1>2. /\ query[q].since \in Nat /\ file \in Nat /\ file' \in Nat
      /\ query[q].pc \in {"idle", "look", "check", "wait", "recheck", "verify", "take",
                          "fetch", "done"}
  BY DEF PreparationInvariant, TypeOK, QueryStates, Versions
<1>3. query[q].since <= file'
  BY <1>1, <1>2 DEF QueryAgrees
<1>4. CASE query[q].task = None
  BY <1>1, <1>2, <1>3, <1>4 DEF QueryAgrees, FreshAndJustified
<1>5. CASE query[q].task # None
  <2>1. PICK u \in Tasks : u = query[q].task
    BY <1>5, TheirTasks
  <2>2. /\ task'[u].fingerprint = task[u].fingerprint
        /\ task[u].state # "Preparing" => task'[u].state = task[u].state
        /\ Changed(u) => Changed(u)'
    BY <2>1, QueriesKept
  <2>3. QueryAgrees(q)'
    BY <1>1, <1>2, <1>3, <1>5, <2>1, <2>2 DEF QueryAgrees, Changed
  <2>4. FreshAndJustified(q)'
    BY <1>1, <1>2, <1>3, <1>5, <2>1, <2>2 DEF FreshAndJustified, Changed
  <2>5. QED
    BY <2>3, <2>4
<1>6. QED
  BY <1>4, <1>5

\* A drop that stands still likewise.
DropAgrees(d) ==
  /\ drop[d].pc \in {"cancel", "wait"} => drop[d].task # None /\ drop[d].result = "none"
  /\ drop[d].result = "Ok" /\ drop[d].task # None => Over(drop[d].task)

LEMMA DropClauses ==
  DropsAgree /\ DropQuiescesPreparation <=> \A d \in Drops : DropAgrees(d)
BY DEF DropsAgree, DropQuiescesPreparation, DropAgrees, Over

LEMMA DropStays ==
  ASSUME PreparationInvariant, NEW d \in Drops, drop'[d] = drop[d],
         \A u \in Tasks : Advances(u)
  PROVE  DropAgrees(d)'
<1>1. DropAgrees(d)
  BY DropClauses DEF PreparationInvariant
<1>2. drop[d].task # None => Advances(drop[d].task)
  BY TheirTasks
<1>3. QED
  BY <1>1, <1>2 DEF DropAgrees, Advances, Over

-----------------------------------------------------------------------------
(* Tasks that a step does not advance *)

LEMMA KeptAdvances ==
  ASSUME NEW u \in Tasks, Kept(u)
  PROVE  Advances(u) /\ (HoldsPermit(u)' <=> HoldsPermit(u))
BY DEF Kept, Advances, Over, HoldsPermit

LEMMA KeptAgrees ==
  ASSUME PreparationInvariant, TypeOK', NEW u \in Tasks, Kept(u),
         Known(u)' => Known(u), file <= file',
         locked' = u <=> locked = u,
         \A s \in Sessions : csv_preparations'[s] = csv_preparations[s] \/ locked # u
  PROVE  Agree(u)'
<1>1. TaskAgrees(u) /\ CommitsCurrently(u) /\ ArtifactMatches(u) /\ GoesOn(u)
  BY DEF PreparationInvariant, PreparationsGoOn
<1>2. /\ file \in Nat /\ file' \in Nat /\ task[u].fingerprint \in Nat
      /\ task[u].state \in {"Preparing", "Ready", "Failed", "Cancelled"}
  BY DEF PreparationInvariant, TypeOK, CsvPreparations, Versions
<1>3. TaskAgrees(u)' /\ GoesOn(u)'
  BY <1>1, <1>2 DEF TaskAgrees, GoesOn, Kept, Over
<1>4. CommitsCurrently(u)'
  BY <1>1 DEF CommitsCurrently, Committing, Kept, TaskAgrees
<1>5. pc[u] # "idle" /\ Changed(u) => Changed(u)'
  BY <1>1, <1>2 DEF Kept, Changed, TaskAgrees
<1>6. pc[u] = "ready" \/ task[u].state = "Ready" => pc[u] # "idle"
  BY <1>1 DEF TaskAgrees, Over
<1>7. ArtifactMatches(u)'
  BY <1>1, <1>5, <1>6 DEF ArtifactMatches, Kept
<1>8. QED
  BY <1>3, <1>4, <1>7 DEF Agree

-----------------------------------------------------------------------------
(* The permits *)

Holders == {t \in Tasks : HoldsPermit(t)}

LEMMA HoldersFinite == IsFiniteSet(Holders) /\ IsFiniteSet(Holders')
<1>1. MaxTasks \in Nat
  BY PreparationAssumption
<1>2. IsFiniteSet(Tasks)
  BY <1>1, FS_Interval DEF Tasks
<1>3. QED
  BY <1>2, FS_Subset DEF Holders

LEMMA PermitTaken ==
  ASSUME PreparationInvariant, NEW t \in Tasks, HoldsPermit(t)
  PROVE  active > 0
<1>1. active = Cardinality(Holders) /\ active \in Nat
  BY PreparationAssumption DEF PreparationInvariant, PreparationsGoOn, TypeOK, Holders
<1>2. Holders # {}
  BY DEF Holders
<1>3. QED
  BY <1>1, <1>2, HoldersFinite, FS_EmptySet

\* One step takes a permit, returns one, or leaves the permits alone.
LEMMA PermitsCounted ==
  ASSUME PreparationInvariant, NEW t \in Tasks,
         \A u \in Tasks \ {t} : HoldsPermit(u)' <=> HoldsPermit(u),
         \/ (HoldsPermit(t)' <=> HoldsPermit(t)) /\ active' = active
         \/ ~HoldsPermit(t) /\ HoldsPermit(t)' /\ active' = active + 1
         \/ HoldsPermit(t) /\ ~HoldsPermit(t)' /\ active' = active - 1
  PROVE  active' = Cardinality({u \in Tasks : HoldsPermit(u)})'
<1>1. active = Cardinality(Holders) /\ active \in Nat
  BY PreparationAssumption DEF PreparationInvariant, PreparationsGoOn, TypeOK, Holders
<1>2. CASE (HoldsPermit(t)' <=> HoldsPermit(t)) /\ active' = active
  <2>1. Holders' = Holders
    BY <1>2 DEF Holders
  <2>2. QED
    BY <1>1, <1>2, <2>1 DEF Holders
<1>3. CASE ~HoldsPermit(t) /\ HoldsPermit(t)' /\ active' = active + 1
  <2>1. Holders' = Holders \union {t} /\ t \notin Holders
    BY <1>3 DEF Holders
  <2>2. Cardinality(Holders') = Cardinality(Holders) + 1
    BY <2>1, HoldersFinite, FS_AddElement
  <2>3. QED
    BY <1>1, <1>3, <2>2 DEF Holders
<1>4. CASE HoldsPermit(t) /\ ~HoldsPermit(t)' /\ active' = active - 1
  <2>1. Holders' = Holders \ {t} /\ t \in Holders
    BY <1>4 DEF Holders
  <2>2. Cardinality(Holders') = Cardinality(Holders) - 1
    BY <2>1, HoldersFinite, FS_RemoveElement
  <2>3. QED
    BY <1>1, <1>4, <2>2 DEF Holders
<1>5. QED
  BY <1>2, <1>3, <1>4

-----------------------------------------------------------------------------
(* The two kinds of steps *)

\* The invariant from the clauses of the tasks, the queries and the drops.
LEMMA Assembled ==
  ASSUME TypeOK', \A u \in Tasks : Agree(u)',
         \A q \in Queries : QueryAgrees(q)' /\ FreshAndJustified(q)',
         \A d \in Drops : DropAgrees(d)',
         active' = Cardinality({u \in Tasks : HoldsPermit(u)})'
  PROVE  PreparationInvariant'
<1>1. QueriesAgree' /\ PreparedIsFresh' /\ FallbackJustified'
  BY DEF QueriesAgree, QueryAgrees, PreparedIsFresh, FallbackJustified,
         FreshAndJustified, Changed
<1>2. DropsAgree' /\ DropQuiescesPreparation'
  BY DEF DropsAgree, DropQuiescesPreparation, DropAgrees, Over
<1>3. PreparationsGoOn'
  BY DEF PreparationsGoOn, Agree
<1>4. QED
  BY <1>1, <1>2, <1>3 DEF PreparationInvariant, Agree

\* A step of task t.
LEMMA TaskStep ==
  ASSUME PreparationInvariant, TypeOK', NEW t \in Tasks,
         query' = query, drop' = drop, file' = file,
         \A u \in Tasks \ {t} : Kept(u),
         MapStep(t), Advances(t), Agree(t)',
         \/ (HoldsPermit(t)' <=> HoldsPermit(t)) /\ active' = active
         \/ ~HoldsPermit(t) /\ HoldsPermit(t)' /\ active' = active + 1
         \/ HoldsPermit(t) /\ ~HoldsPermit(t)' /\ active' = active - 1
  PROVE  PreparationInvariant'
<1>1. \A u \in Tasks : Advances(u)
  BY KeptAdvances
<1>2. file \in Nat
  BY DEF PreparationInvariant, TypeOK, Versions
<1>3. ASSUME NEW u \in Tasks \ {t} PROVE Agree(u)'
  <2>1. Known(u)' => Known(u)
    BY NoneIsNoTask DEF Known, MapStep
  <2>2. /\ locked' = u <=> locked = u
        /\ \A s \in Sessions : csv_preparations'[s] = csv_preparations[s] \/ locked # u
    BY NoneIsNoTask DEF MapStep
  <2>3. QED
    BY <1>2, <2>1, <2>2, KeptAgrees
<1>4. \A u \in Tasks : Agree(u)'
  BY <1>3
<1>5. \A u \in Tasks \ {t} : HoldsPermit(u)' <=> HoldsPermit(u)
  BY KeptAdvances
<1>6. active' = Cardinality({u \in Tasks : HoldsPermit(u)})'
  BY <1>5, PermitsCounted
<1>7. \A q \in Queries : QueryAgrees(q)' /\ FreshAndJustified(q)'
  BY <1>1, <1>2, QueryStays
<1>8. \A d \in Drops : DropAgrees(d)'
  BY <1>1, DropStays
<1>9. QED
  BY <1>4, <1>6, <1>7, <1>8, Assembled

\* A step of a query, a cancellation, a drop or the file.
LEMMA OtherStep ==
  ASSUME PreparationInvariant, TypeOK', file <= file', active' = active,
         \A u \in Tasks : Kept(u) /\ (Known(u)' => Known(u)),
         locked' = locked,
         \A s \in Sessions : \/ csv_preparations'[s] = csv_preparations[s]
                             \/ locked = None,
         \A q \in Queries : \/ query'[q] = query[q]
                            \/ QueryAgrees(q)' /\ FreshAndJustified(q)',
         \A d \in Drops : drop'[d] = drop[d] \/ DropAgrees(d)'
  PROVE  PreparationInvariant'
<1>1. \A u \in Tasks : Advances(u) /\ (HoldsPermit(u)' <=> HoldsPermit(u))
  BY KeptAdvances
<1>2. \A u \in Tasks : Agree(u)'
  BY NoneIsNoTask, KeptAgrees
<1>3. 1 \in Tasks
  BY PreparationAssumption DEF Tasks
<1>4. active' = Cardinality({u \in Tasks : HoldsPermit(u)})'
  BY <1>1, <1>3, PermitsCounted
<1>5. \A q \in Queries : QueryAgrees(q)' /\ FreshAndJustified(q)'
  BY <1>1, QueryStays
<1>6. \A d \in Drops : DropAgrees(d)'
  BY <1>1, DropStays
<1>7. QED
  BY <1>2, <1>4, <1>5, <1>6, Assembled

-----------------------------------------------------------------------------
(* The steps of a task *)

\* What the invariant says of the task that takes a step.
LEMMA TaskFacts ==
  ASSUME PreparationInvariant, NEW t \in Tasks
  PROVE  /\ TypeOK /\ TaskAgrees(t) /\ CommitsCurrently(t) /\ ArtifactMatches(t)
         /\ GoesOn(t)
         /\ task[t] \in CsvPreparations /\ file \in Nat
         /\ task[t].fingerprint \in Nat /\ task[t].fingerprint # None
BY NoneIsNoTask DEF PreparationInvariant, PreparationsGoOn, TypeOK, CsvPreparations,
   Versions

\* The flags of a task can be set.
LEMMA FlagsSet ==
  ASSUME NEW r \in CsvPreparations
  PROVE  /\ [r EXCEPT !.cancel = TRUE] \in CsvPreparations
         /\ [r EXCEPT !.worker = TRUE] \in CsvPreparations
BY DEF CsvPreparations

LEMMA InsertKept ==
  ASSUME PreparationInvariant, NEW t \in Tasks, Insert(t)
  PROVE  PreparationInvariant'
<1>1. TypeOK /\ TaskAgrees(t) /\ CommitsCurrently(t) /\ ArtifactMatches(t) /\ GoesOn(t)
  BY TaskFacts
<1>2. TypeOK'
  <2>1. task' \in [Tasks -> CsvPreparations]
    <3>1. \A u \in Tasks : task[u] \in CsvPreparations
      BY <1>1 DEF TypeOK
    <3>2. \A u \in Tasks : [task[u] EXCEPT !.cancel = TRUE] \in CsvPreparations
      BY <3>1, FlagsSet
    <3>3. \/ task' = task
          \/ task' = [k \in Tasks |-> IF k = csv_preparations[task[t].session]
                                     THEN [task[k] EXCEPT !.cancel = TRUE]
                                     ELSE task[k]]
      BY DEF Insert
    <3>4. QED
      BY <1>1, <3>1, <3>2, <3>3 DEF TypeOK
  <2>2. csv_preparations' \in [Sessions -> Tasks \union {None}]
    BY <1>1 DEF Insert, TypeOK
  <2>3. QED
    BY <1>1, <2>1, <2>2 DEF Insert, Goto, TypeOK
<1>3. /\ query' = query /\ drop' = drop /\ file' = file
      /\ \A u \in Tasks \ {t} : Kept(u)
  <2>1. ASSUME NEW u \in Tasks \ {t} PROVE Kept(u)
    <3>1. \/ task'[u] = task[u]
          \/ task'[u] = [task[u] EXCEPT !.cancel = TRUE]
      BY DEF Insert
    <3>2. pc'[u] = pc[u] /\ version'[u] = version[u]
      BY <1>1 DEF Insert, Goto, TypeOK
    <3>3. task[u] \in CsvPreparations
      BY <1>1 DEF TypeOK
    <3>4. QED
      BY <3>1, <3>2, <3>3 DEF Kept, CsvPreparations
  <2>2. QED
    BY <2>1 DEF Insert
<1>4. MapStep(t) /\ Advances(t)
  BY <1>1 DEF Insert, Unlocked, Goto, TypeOK, CsvPreparations, MapStep, Advances, Over,
     TaskAgrees
<1>5. TaskAgrees(t)' /\ GoesOn(t)'
  BY <1>1, TaskFacts DEF Insert, Unlocked, Goto, TypeOK, CsvPreparations, TaskAgrees,
     GoesOn, Over, Known
<1>6. CommitsCurrently(t)'
  BY <1>1 DEF Insert, Unlocked, Goto, TypeOK, CsvPreparations, CommitsCurrently,
     Committing
<1>7. ArtifactMatches(t)'
  BY <1>1, TaskFacts DEF Insert, Unlocked, Goto, TypeOK, CsvPreparations,
     ArtifactMatches, Changed
<1>8. \/ (HoldsPermit(t)' <=> HoldsPermit(t)) /\ active' = active
      \/ ~HoldsPermit(t) /\ HoldsPermit(t)' /\ active' = active + 1
      \/ HoldsPermit(t) /\ ~HoldsPermit(t)' /\ active' = active - 1
  BY <1>1 DEF Insert, Unlocked, Goto, TypeOK, CsvPreparations, HoldsPermit, TaskAgrees
<1>9. QED
  BY <1>2, <1>3, <1>4, <1>5, <1>6, <1>7, <1>8, TaskStep DEF Agree

LEMMA LookupKept ==
  ASSUME PreparationInvariant, NEW t \in Tasks, Lookup(t)
  PROVE  PreparationInvariant'
<1>1. TypeOK /\ TaskAgrees(t) /\ CommitsCurrently(t) /\ ArtifactMatches(t) /\ GoesOn(t)
  BY TaskFacts
<1>2. TypeOK'
  <2>1. task' \in [Tasks -> CsvPreparations]
    <3>1. /\ task[t] \in CsvPreparations
          /\ [task[t] EXCEPT !.worker = TRUE] \in CsvPreparations
      BY <1>1, FlagsSet DEF TypeOK
    <3>2. \/ task' = task
          \/ task' = [task EXCEPT ![t] = [task[t] EXCEPT !.worker = TRUE]]
      BY DEF Lookup
    <3>3. QED
      BY <1>1, <3>1, <3>2 DEF TypeOK
  <2>2. version' \in [Tasks -> Versions \union {NoVersion}]
    BY <1>1 DEF Lookup, TypeOK, CsvPreparations
  <2>3. QED
    BY <1>1, <2>1, <2>2 DEF Lookup, Goto, TypeOK
<1>3. /\ query' = query /\ drop' = drop /\ file' = file
      /\ \A u \in Tasks \ {t} : Kept(u)
  BY <1>1 DEF Lookup, Goto, TypeOK, CsvPreparations, Kept
<1>4. MapStep(t) /\ Advances(t)
  BY <1>1 DEF Lookup, Goto, TypeOK, CsvPreparations, MapStep, Advances, Over, TaskAgrees
<1>5. TaskAgrees(t)' /\ GoesOn(t)'
  <2>1. CASE task' = [task EXCEPT ![t].worker = TRUE] /\ Goto(t, "queue")
    BY <1>1, <2>1 DEF Lookup, Goto, TypeOK, CsvPreparations, TaskAgrees, GoesOn, Over,
       Known
  <2>2. CASE task' = task /\ Goto(t, "restore")
    BY <1>1, <2>2 DEF Lookup, Goto, TypeOK, TaskAgrees, GoesOn, Over, Known
  <2>3. QED
    BY <2>1, <2>2 DEF Lookup
<1>6. CommitsCurrently(t)'
  BY <1>1 DEF Lookup, Goto, TypeOK, CsvPreparations, CommitsCurrently, Committing
<1>7. ArtifactMatches(t)'
  BY <1>1, TaskFacts DEF Lookup, Goto, TypeOK, CsvPreparations, ArtifactMatches, Changed
<1>8. \/ (HoldsPermit(t)' <=> HoldsPermit(t)) /\ active' = active
      \/ ~HoldsPermit(t) /\ HoldsPermit(t)' /\ active' = active + 1
      \/ HoldsPermit(t) /\ ~HoldsPermit(t)' /\ active' = active - 1
  BY <1>1 DEF Lookup, Goto, TypeOK, CsvPreparations, HoldsPermit, TaskAgrees
<1>9. QED
  BY <1>2, <1>3, <1>4, <1>5, <1>6, <1>7, <1>8, TaskStep DEF Agree

LEMMA PreparationFailsKept ==
  ASSUME PreparationInvariant, NEW t \in Tasks, PreparationFails(t)
  PROVE  PreparationInvariant'
<1>1. TypeOK /\ TaskAgrees(t) /\ CommitsCurrently(t) /\ ArtifactMatches(t) /\ GoesOn(t)
  BY TaskFacts
<1>2. TypeOK'
  BY <1>1 DEF PreparationFails, Unlocked, Goto, Ends, TypeOK, CsvPreparations
<1>3. /\ query' = query /\ drop' = drop /\ file' = file
      /\ \A u \in Tasks \ {t} : Kept(u)
  BY <1>1 DEF PreparationFails, Unlocked, Goto, Ends, TypeOK, CsvPreparations, Kept
<1>4. MapStep(t) /\ Advances(t)
  BY <1>1 DEF PreparationFails, Unlocked, Goto, Ends, TypeOK, CsvPreparations, MapStep,
     Advances, Over, TaskAgrees
<1>5. TaskAgrees(t)' /\ GoesOn(t)'
  BY <1>1, TaskFacts DEF PreparationFails, Unlocked, Goto, Ends, TypeOK, CsvPreparations,
     TaskAgrees, GoesOn, Over, Known
<1>6. CommitsCurrently(t)'
  BY <1>1 DEF PreparationFails, Unlocked, Goto, Ends, TypeOK, CsvPreparations,
     CommitsCurrently, Committing
<1>7. ArtifactMatches(t)'
  BY <1>1, TaskFacts DEF PreparationFails, Unlocked, Goto, Ends, TypeOK, CsvPreparations,
     ArtifactMatches
<1>8. \/ (HoldsPermit(t)' <=> HoldsPermit(t)) /\ active' = active
      \/ ~HoldsPermit(t) /\ HoldsPermit(t)' /\ active' = active + 1
      \/ HoldsPermit(t) /\ ~HoldsPermit(t)' /\ active' = active - 1
  BY <1>1 DEF PreparationFails, Unlocked, Goto, Ends, TypeOK, CsvPreparations,
     HoldsPermit, TaskAgrees
<1>9. QED
  BY <1>2, <1>3, <1>4, <1>5, <1>6, <1>7, <1>8, TaskStep DEF Agree

LEMMA RestoreKept ==
  ASSUME PreparationInvariant, NEW t \in Tasks, Restore(t)
  PROVE  PreparationInvariant'
<1>1. TypeOK /\ TaskAgrees(t) /\ CommitsCurrently(t) /\ ArtifactMatches(t) /\ GoesOn(t)
  BY TaskFacts
<1>2. TypeOK'
  BY <1>1 DEF Restore, Goto, Changed, TypeOK, CsvPreparations
<1>3. /\ query' = query /\ drop' = drop /\ file' = file
      /\ \A u \in Tasks \ {t} : Kept(u)
  BY <1>1 DEF Restore, Goto, Changed, TypeOK, CsvPreparations, Kept
<1>4. MapStep(t) /\ Advances(t)
  BY <1>1 DEF Restore, Goto, Changed, TypeOK, CsvPreparations, MapStep, Advances, Over,
     TaskAgrees
<1>5. TaskAgrees(t)' /\ GoesOn(t)'
  BY <1>1, TaskFacts DEF Restore, Goto, Changed, TypeOK, CsvPreparations, TaskAgrees,
     GoesOn, Over, Known
<1>6. CommitsCurrently(t)'
  BY <1>1 DEF Restore, Goto, Changed, TypeOK, CsvPreparations, CommitsCurrently,
     Committing
<1>7. ArtifactMatches(t)'
  BY <1>1, TaskFacts DEF Restore, Goto, Changed, TypeOK, CsvPreparations, ArtifactMatches
<1>8. \/ (HoldsPermit(t)' <=> HoldsPermit(t)) /\ active' = active
      \/ ~HoldsPermit(t) /\ HoldsPermit(t)' /\ active' = active + 1
      \/ HoldsPermit(t) /\ ~HoldsPermit(t)' /\ active' = active - 1
  BY <1>1 DEF Restore, Goto, Changed, TypeOK, CsvPreparations, HoldsPermit, TaskAgrees
<1>9. QED
  BY <1>2, <1>3, <1>4, <1>5, <1>6, <1>7, <1>8, TaskStep DEF Agree

LEMMA AcquirePermitKept ==
  ASSUME PreparationInvariant, NEW t \in Tasks, AcquirePermit(t)
  PROVE  PreparationInvariant'
<1>1. TypeOK /\ TaskAgrees(t) /\ CommitsCurrently(t) /\ ArtifactMatches(t) /\ GoesOn(t)
  BY TaskFacts
<1>2. TypeOK'
  BY <1>1, PreparationAssumption DEF AcquirePermit, Goto, PermitFree, TypeOK,
     CsvPreparations
<1>3. /\ query' = query /\ drop' = drop /\ file' = file
      /\ \A u \in Tasks \ {t} : Kept(u)
  BY <1>1 DEF AcquirePermit, Goto, PermitFree, TypeOK, CsvPreparations, Kept
<1>4. MapStep(t) /\ Advances(t)
  BY <1>1 DEF AcquirePermit, Goto, PermitFree, TypeOK, CsvPreparations, MapStep,
     Advances, Over, TaskAgrees
<1>5. TaskAgrees(t)' /\ GoesOn(t)'
  BY <1>1, TaskFacts DEF AcquirePermit, Goto, PermitFree, TypeOK, CsvPreparations,
     TaskAgrees, GoesOn, Over, Known
<1>6. CommitsCurrently(t)'
  BY <1>1 DEF AcquirePermit, Goto, PermitFree, TypeOK, CsvPreparations, CommitsCurrently,
     Committing
<1>7. ArtifactMatches(t)'
  BY <1>1, TaskFacts DEF AcquirePermit, Goto, PermitFree, TypeOK, CsvPreparations,
     ArtifactMatches, Changed
<1>8. \/ (HoldsPermit(t)' <=> HoldsPermit(t)) /\ active' = active
      \/ ~HoldsPermit(t) /\ HoldsPermit(t)' /\ active' = active + 1
      \/ HoldsPermit(t) /\ ~HoldsPermit(t)' /\ active' = active - 1
  BY <1>1 DEF AcquirePermit, Goto, PermitFree, TypeOK, CsvPreparations, HoldsPermit,
     TaskAgrees
<1>9. QED
  BY <1>2, <1>3, <1>4, <1>5, <1>6, <1>7, <1>8, TaskStep DEF Agree

LEMMA CancelledInQueueKept ==
  ASSUME PreparationInvariant, NEW t \in Tasks, CancelledInQueue(t)
  PROVE  PreparationInvariant'
<1>1. TypeOK /\ TaskAgrees(t) /\ CommitsCurrently(t) /\ ArtifactMatches(t) /\ GoesOn(t)
  BY TaskFacts
<1>2. TypeOK'
  <2>1. task' \in [Tasks -> CsvPreparations]
    BY <1>1, SMTT(30) DEF CancelledInQueue, Ends, TypeOK, CsvPreparations
  <2>2. QED
    BY <1>1, <2>1, SMTT(30) DEF CancelledInQueue, Goto, TypeOK
<1>3. /\ query' = query /\ drop' = drop /\ file' = file
      /\ \A u \in Tasks \ {t} : Kept(u)
  BY <1>1 DEF CancelledInQueue, Goto, Ends, TypeOK, CsvPreparations, Kept
<1>4. MapStep(t) /\ Advances(t)
  BY <1>1 DEF CancelledInQueue, Goto, Ends, TypeOK, CsvPreparations, MapStep, Advances,
     Over, TaskAgrees
<1>5. TaskAgrees(t)' /\ GoesOn(t)'
  BY <1>1, TaskFacts DEF CancelledInQueue, Goto, Ends, TypeOK, CsvPreparations,
     TaskAgrees, GoesOn, Over, Known
<1>6. CommitsCurrently(t)'
  BY <1>1 DEF CancelledInQueue, Goto, Ends, TypeOK, CsvPreparations, CommitsCurrently,
     Committing
<1>7. ArtifactMatches(t)'
  BY <1>1, TaskFacts DEF CancelledInQueue, Goto, Ends, TypeOK, CsvPreparations,
     ArtifactMatches
<1>8. \/ (HoldsPermit(t)' <=> HoldsPermit(t)) /\ active' = active
      \/ ~HoldsPermit(t) /\ HoldsPermit(t)' /\ active' = active + 1
      \/ HoldsPermit(t) /\ ~HoldsPermit(t)' /\ active' = active - 1
  BY <1>1 DEF CancelledInQueue, Goto, Ends, TypeOK, CsvPreparations, HoldsPermit,
     TaskAgrees
<1>9. QED
  BY <1>2, <1>3, <1>4, <1>5, <1>6, <1>7, <1>8, TaskStep DEF Agree

LEMMA StartBuildKept ==
  ASSUME PreparationInvariant, NEW t \in Tasks, StartBuild(t)
  PROVE  PreparationInvariant'
<1>1. TypeOK /\ TaskAgrees(t) /\ CommitsCurrently(t) /\ ArtifactMatches(t) /\ GoesOn(t)
  BY TaskFacts
<1>2. TypeOK'
  BY <1>1 DEF StartBuild, Goto, Changed, TypeOK, CsvPreparations
<1>3. /\ query' = query /\ drop' = drop /\ file' = file
      /\ \A u \in Tasks \ {t} : Kept(u)
  BY <1>1 DEF StartBuild, Goto, Changed, TypeOK, CsvPreparations, Kept
<1>4. MapStep(t) /\ Advances(t)
  BY <1>1 DEF StartBuild, Goto, Changed, TypeOK, CsvPreparations, MapStep, Advances,
     Over, TaskAgrees
<1>5. TaskAgrees(t)' /\ GoesOn(t)'
  BY <1>1, TaskFacts DEF StartBuild, Goto, Changed, TypeOK, CsvPreparations, TaskAgrees,
     GoesOn, Over, Known
<1>6. CommitsCurrently(t)'
  BY <1>1 DEF StartBuild, Goto, Changed, TypeOK, CsvPreparations, CommitsCurrently,
     Committing
<1>7. ArtifactMatches(t)'
  BY <1>1, TaskFacts DEF StartBuild, Goto, Changed, TypeOK, CsvPreparations,
     ArtifactMatches
<1>8. \/ (HoldsPermit(t)' <=> HoldsPermit(t)) /\ active' = active
      \/ ~HoldsPermit(t) /\ HoldsPermit(t)' /\ active' = active + 1
      \/ HoldsPermit(t) /\ ~HoldsPermit(t)' /\ active' = active - 1
  BY <1>1 DEF StartBuild, Goto, Changed, TypeOK, CsvPreparations, HoldsPermit, TaskAgrees
<1>9. QED
  BY <1>2, <1>3, <1>4, <1>5, <1>6, <1>7, <1>8, TaskStep DEF Agree

LEMMA FinishBuildKept ==
  ASSUME PreparationInvariant, NEW t \in Tasks, FinishBuild(t)
  PROVE  PreparationInvariant'
<1>1. TypeOK /\ TaskAgrees(t) /\ CommitsCurrently(t) /\ ArtifactMatches(t) /\ GoesOn(t)
  BY TaskFacts
<1>2. TypeOK'
  BY <1>1 DEF FinishBuild, Goto, Changed, TypeOK, CsvPreparations
<1>3. /\ query' = query /\ drop' = drop /\ file' = file
      /\ \A u \in Tasks \ {t} : Kept(u)
  BY <1>1 DEF FinishBuild, Goto, Changed, TypeOK, CsvPreparations, Kept
<1>4. MapStep(t) /\ Advances(t)
  BY <1>1 DEF FinishBuild, Goto, Changed, TypeOK, CsvPreparations, MapStep, Advances,
     Over, TaskAgrees
<1>5. TaskAgrees(t)' /\ GoesOn(t)'
  BY <1>1, TaskFacts DEF FinishBuild, Goto, Changed, TypeOK, CsvPreparations, TaskAgrees,
     GoesOn, Over, Known
<1>6. CommitsCurrently(t)'
  BY <1>1 DEF FinishBuild, Goto, Changed, TypeOK, CsvPreparations, CommitsCurrently,
     Committing
<1>7. ArtifactMatches(t)'
  BY <1>1, TaskFacts DEF FinishBuild, Goto, Changed, TypeOK, CsvPreparations,
     ArtifactMatches
<1>8. \/ (HoldsPermit(t)' <=> HoldsPermit(t)) /\ active' = active
      \/ ~HoldsPermit(t) /\ HoldsPermit(t)' /\ active' = active + 1
      \/ HoldsPermit(t) /\ ~HoldsPermit(t)' /\ active' = active - 1
  BY <1>1 DEF FinishBuild, Goto, Changed, TypeOK, CsvPreparations, HoldsPermit, TaskAgrees
<1>9. QED
  BY <1>2, <1>3, <1>4, <1>5, <1>6, <1>7, <1>8, TaskStep DEF Agree

LEMMA PublishEntryKept ==
  ASSUME PreparationInvariant, NEW t \in Tasks, PublishEntry(t)
  PROVE  PreparationInvariant'
<1>1. TypeOK /\ TaskAgrees(t) /\ CommitsCurrently(t) /\ ArtifactMatches(t) /\ GoesOn(t)
  BY TaskFacts
<1>2. TypeOK'
  BY <1>1 DEF PublishEntry, Goto, Changed, TypeOK, CsvPreparations
<1>3. /\ query' = query /\ drop' = drop /\ file' = file
      /\ \A u \in Tasks \ {t} : Kept(u)
  BY <1>1 DEF PublishEntry, Goto, Changed, TypeOK, CsvPreparations, Kept
<1>4. MapStep(t) /\ Advances(t)
  BY <1>1 DEF PublishEntry, Goto, Changed, TypeOK, CsvPreparations, MapStep, Advances,
     Over, TaskAgrees
<1>5. TaskAgrees(t)' /\ GoesOn(t)'
  BY <1>1, TaskFacts DEF PublishEntry, Goto, Changed, TypeOK, CsvPreparations,
     TaskAgrees, GoesOn, Over, Known
<1>6. CommitsCurrently(t)'
  BY <1>1 DEF PublishEntry, Goto, Changed, TypeOK, CsvPreparations, CommitsCurrently,
     Committing
<1>7. ArtifactMatches(t)'
  BY <1>1, TaskFacts DEF PublishEntry, Goto, Changed, TypeOK, CsvPreparations,
     ArtifactMatches
<1>8. \/ (HoldsPermit(t)' <=> HoldsPermit(t)) /\ active' = active
      \/ ~HoldsPermit(t) /\ HoldsPermit(t)' /\ active' = active + 1
      \/ HoldsPermit(t) /\ ~HoldsPermit(t)' /\ active' = active - 1
  BY <1>1 DEF PublishEntry, Goto, Changed, TypeOK, CsvPreparations, HoldsPermit,
     TaskAgrees
<1>9. QED
  BY <1>2, <1>3, <1>4, <1>5, <1>6, <1>7, <1>8, TaskStep DEF Agree

LEMMA ReopenKept ==
  ASSUME PreparationInvariant, NEW t \in Tasks, Reopen(t)
  PROVE  PreparationInvariant'
<1>1. TypeOK /\ TaskAgrees(t) /\ CommitsCurrently(t) /\ ArtifactMatches(t) /\ GoesOn(t)
  BY TaskFacts
<1>2. TypeOK'
  BY <1>1 DEF Reopen, Goto, Changed, TypeOK, CsvPreparations
<1>3. /\ query' = query /\ drop' = drop /\ file' = file
      /\ \A u \in Tasks \ {t} : Kept(u)
  BY <1>1 DEF Reopen, Goto, Changed, TypeOK, CsvPreparations, Kept
<1>4. MapStep(t) /\ Advances(t)
  BY <1>1 DEF Reopen, Goto, Changed, TypeOK, CsvPreparations, MapStep, Advances, Over,
     TaskAgrees
<1>5. TaskAgrees(t)' /\ GoesOn(t)'
  BY <1>1, TaskFacts DEF Reopen, Goto, Changed, TypeOK, CsvPreparations, TaskAgrees,
     GoesOn, Over, Known
<1>6. CommitsCurrently(t)'
  BY <1>1 DEF Reopen, Goto, Changed, TypeOK, CsvPreparations, CommitsCurrently, Committing
<1>7. ArtifactMatches(t)'
  BY <1>1, TaskFacts DEF Reopen, Goto, Changed, TypeOK, CsvPreparations, ArtifactMatches
<1>8. \/ (HoldsPermit(t)' <=> HoldsPermit(t)) /\ active' = active
      \/ ~HoldsPermit(t) /\ HoldsPermit(t)' /\ active' = active + 1
      \/ HoldsPermit(t) /\ ~HoldsPermit(t)' /\ active' = active - 1
  BY <1>1 DEF Reopen, Goto, Changed, TypeOK, CsvPreparations, HoldsPermit, TaskAgrees
<1>9. QED
  BY <1>2, <1>3, <1>4, <1>5, <1>6, <1>7, <1>8, TaskStep DEF Agree

LEMMA WorkerGivesUpKept ==
  ASSUME PreparationInvariant, NEW t \in Tasks, WorkerGivesUp(t)
  PROVE  PreparationInvariant'
<1>1. TypeOK /\ TaskAgrees(t) /\ CommitsCurrently(t) /\ ArtifactMatches(t) /\ GoesOn(t)
  BY TaskFacts
<1>2. TypeOK'
  <2>1. task' \in [Tasks -> CsvPreparations]
    BY <1>1 DEF WorkerGivesUp, Ends, TypeOK, CsvPreparations
  <2>2. QED
    BY <1>1, <2>1 DEF WorkerGivesUp, Goto, TypeOK
<1>3. /\ query' = query /\ drop' = drop /\ file' = file
      /\ \A u \in Tasks \ {t} : Kept(u)
  BY <1>1 DEF WorkerGivesUp, Goto, Ends, TypeOK, CsvPreparations, Kept
<1>4. MapStep(t) /\ Advances(t)
  BY <1>1 DEF WorkerGivesUp, Goto, Ends, TypeOK, CsvPreparations, MapStep, Advances,
     Over, TaskAgrees
<1>5. TaskAgrees(t)' /\ GoesOn(t)'
  BY <1>1, TaskFacts DEF WorkerGivesUp, Goto, Ends, TypeOK, CsvPreparations, TaskAgrees,
     GoesOn, Over, Known
<1>6. CommitsCurrently(t)'
  BY <1>1 DEF WorkerGivesUp, Goto, Ends, TypeOK, CsvPreparations, CommitsCurrently,
     Committing
<1>7. ArtifactMatches(t)'
  BY <1>1, TaskFacts DEF WorkerGivesUp, Goto, Ends, TypeOK, CsvPreparations,
     ArtifactMatches
<1>8. \/ (HoldsPermit(t)' <=> HoldsPermit(t)) /\ active' = active
      \/ ~HoldsPermit(t) /\ HoldsPermit(t)' /\ active' = active + 1
      \/ HoldsPermit(t) /\ ~HoldsPermit(t)' /\ active' = active - 1
  BY <1>1 DEF WorkerGivesUp, Goto, Ends, TypeOK, CsvPreparations, HoldsPermit, TaskAgrees
<1>9. QED
  BY <1>2, <1>3, <1>4, <1>5, <1>6, <1>7, <1>8, TaskStep DEF Agree

LEMMA CommitKept ==
  ASSUME PreparationInvariant, NEW t \in Tasks, Commit(t)
  PROVE  PreparationInvariant'
<1>1. TypeOK /\ TaskAgrees(t) /\ CommitsCurrently(t) /\ ArtifactMatches(t) /\ GoesOn(t)
  BY TaskFacts
<1>2. TypeOK'
  BY <1>1 DEF Commit, Goto, Ends, Unlocked, MayCommit, TypeOK, CsvPreparations
<1>3. /\ query' = query /\ drop' = drop /\ file' = file
      /\ \A u \in Tasks \ {t} : Kept(u)
  BY <1>1 DEF Commit, Goto, Ends, Unlocked, MayCommit, TypeOK, CsvPreparations, Kept
<1>4. MapStep(t) /\ Advances(t)
  BY <1>1 DEF Commit, Goto, Ends, Unlocked, MayCommit, TypeOK, CsvPreparations, MapStep,
     Advances, Over, TaskAgrees
<1>5. TaskAgrees(t)' /\ GoesOn(t)'
  <2>1. CASE MayCommit(t)
    BY <1>1, <2>1 DEF Commit, Goto, TypeOK, TaskAgrees, GoesOn, Over, Known
  <2>2. CASE ~MayCommit(t)
    BY <1>1, <2>2 DEF Commit, Goto, Ends, TypeOK, CsvPreparations, TaskAgrees, GoesOn,
       Over
  <2>3. QED
    BY <2>1, <2>2
<1>6. CommitsCurrently(t)'
  BY <1>1 DEF Commit, Goto, Ends, Unlocked, MayCommit, TypeOK, CsvPreparations,
     CommitsCurrently, Committing
<1>7. ArtifactMatches(t)'
  BY <1>1, TaskFacts DEF Commit, Goto, Ends, Unlocked, MayCommit, TypeOK,
     CsvPreparations, ArtifactMatches, Changed
<1>8. \/ (HoldsPermit(t)' <=> HoldsPermit(t)) /\ active' = active
      \/ ~HoldsPermit(t) /\ HoldsPermit(t)' /\ active' = active + 1
      \/ HoldsPermit(t) /\ ~HoldsPermit(t)' /\ active' = active - 1
  BY <1>1 DEF Commit, Goto, Ends, Unlocked, MayCommit, TypeOK, CsvPreparations,
     HoldsPermit, TaskAgrees
<1>9. QED
  BY <1>2, <1>3, <1>4, <1>5, <1>6, <1>7, <1>8, TaskStep DEF Agree

LEMMA StoreArtifactKept ==
  ASSUME PreparationInvariant, NEW t \in Tasks, StoreArtifact(t)
  PROVE  PreparationInvariant'
<1>1. TypeOK /\ TaskAgrees(t) /\ CommitsCurrently(t) /\ ArtifactMatches(t) /\ GoesOn(t)
  BY TaskFacts
<1>2. TypeOK'
  BY <1>1 DEF StoreArtifact, Goto, TypeOK, CsvPreparations
<1>3. /\ query' = query /\ drop' = drop /\ file' = file
      /\ \A u \in Tasks \ {t} : Kept(u)
  BY <1>1 DEF StoreArtifact, Goto, TypeOK, CsvPreparations, Kept
<1>4. MapStep(t) /\ Advances(t)
  BY <1>1 DEF StoreArtifact, Goto, TypeOK, CsvPreparations, MapStep, Advances, Over,
     TaskAgrees
<1>5. TaskAgrees(t)' /\ GoesOn(t)'
  BY <1>1, TaskFacts DEF StoreArtifact, Goto, TypeOK, CsvPreparations, TaskAgrees,
     GoesOn, Over, Known
<1>6. CommitsCurrently(t)'
  BY <1>1 DEF StoreArtifact, Goto, TypeOK, CsvPreparations, CommitsCurrently, Committing
<1>7. ArtifactMatches(t)'
  BY <1>1, TaskFacts DEF StoreArtifact, Goto, TypeOK, CsvPreparations, ArtifactMatches
<1>8. \/ (HoldsPermit(t)' <=> HoldsPermit(t)) /\ active' = active
      \/ ~HoldsPermit(t) /\ HoldsPermit(t)' /\ active' = active + 1
      \/ HoldsPermit(t) /\ ~HoldsPermit(t)' /\ active' = active - 1
  BY <1>1 DEF StoreArtifact, Goto, TypeOK, CsvPreparations, HoldsPermit, TaskAgrees
<1>9. QED
  BY <1>2, <1>3, <1>4, <1>5, <1>6, <1>7, <1>8, TaskStep DEF Agree

LEMMA SetReadyKept ==
  ASSUME PreparationInvariant, NEW t \in Tasks, SetReady(t)
  PROVE  PreparationInvariant'
<1>1. TypeOK /\ TaskAgrees(t) /\ CommitsCurrently(t) /\ ArtifactMatches(t) /\ GoesOn(t)
  BY TaskFacts
<1>2. TypeOK'
  BY <1>1 DEF SetReady, Goto, Ends, TypeOK, CsvPreparations
<1>3. /\ query' = query /\ drop' = drop /\ file' = file
      /\ \A u \in Tasks \ {t} : Kept(u)
  BY <1>1 DEF SetReady, Goto, Ends, TypeOK, CsvPreparations, Kept
<1>4. MapStep(t) /\ Advances(t)
  BY <1>1 DEF SetReady, Goto, Ends, TypeOK, CsvPreparations, MapStep, Advances, Over,
     TaskAgrees, CommitsCurrently, Committing
<1>5. TaskAgrees(t)' /\ GoesOn(t)'
  BY <1>1, TaskFacts DEF SetReady, Goto, Ends, TypeOK, CsvPreparations, TaskAgrees,
     GoesOn, Over, Known
<1>6. CommitsCurrently(t)'
  BY <1>1, NoneIsNoTask DEF SetReady, Goto, Ends, TypeOK, CsvPreparations,
     CommitsCurrently, Committing
<1>7. ArtifactMatches(t)'
  BY <1>1, TaskFacts DEF SetReady, Goto, Ends, TypeOK, CsvPreparations, ArtifactMatches,
     Changed
<1>8. \/ (HoldsPermit(t)' <=> HoldsPermit(t)) /\ active' = active
      \/ ~HoldsPermit(t) /\ HoldsPermit(t)' /\ active' = active + 1
      \/ HoldsPermit(t) /\ ~HoldsPermit(t)' /\ active' = active - 1
  BY <1>1 DEF SetReady, Goto, Ends, TypeOK, CsvPreparations, HoldsPermit, TaskAgrees
<1>9. QED
  BY <1>2, <1>3, <1>4, <1>5, <1>6, <1>7, <1>8, TaskStep DEF Agree

LEMMA ExitKept ==
  ASSUME PreparationInvariant, NEW t \in Tasks, Exit(t)
  PROVE  PreparationInvariant'
<1>1. TypeOK /\ TaskAgrees(t) /\ CommitsCurrently(t) /\ ArtifactMatches(t) /\ GoesOn(t)
  BY TaskFacts
<1>2. TypeOK'
  BY <1>1, PermitTaken, PreparationAssumption DEF HoldsPermit, Exit, Goto, Release,
     TypeOK, CsvPreparations
<1>3. /\ query' = query /\ drop' = drop /\ file' = file
      /\ \A u \in Tasks \ {t} : Kept(u)
  BY <1>1 DEF Exit, Goto, Release, TypeOK, CsvPreparations, Kept
<1>4. MapStep(t) /\ Advances(t)
  BY <1>1 DEF Exit, Goto, Release, TypeOK, CsvPreparations, MapStep, Advances, Over,
     TaskAgrees
<1>5. TaskAgrees(t)' /\ GoesOn(t)'
  BY <1>1, TaskFacts DEF Exit, Goto, Release, TypeOK, CsvPreparations, TaskAgrees,
     GoesOn, Over, Known
<1>6. CommitsCurrently(t)'
  BY <1>1 DEF Exit, Goto, Release, TypeOK, CsvPreparations, CommitsCurrently, Committing
<1>7. ArtifactMatches(t)'
  BY <1>1, TaskFacts DEF Exit, Goto, Release, TypeOK, CsvPreparations, ArtifactMatches,
     Changed
<1>8. \/ (HoldsPermit(t)' <=> HoldsPermit(t)) /\ active' = active
      \/ ~HoldsPermit(t) /\ HoldsPermit(t)' /\ active' = active + 1
      \/ HoldsPermit(t) /\ ~HoldsPermit(t)' /\ active' = active - 1
  BY <1>1 DEF Exit, Goto, Release, TypeOK, CsvPreparations, HoldsPermit, TaskAgrees
<1>9. QED
  BY <1>2, <1>3, <1>4, <1>5, <1>6, <1>7, <1>8, TaskStep DEF Agree

LEMMA PrepareCallKept ==
  ASSUME PreparationInvariant, NEW t \in Tasks, NEW z \in Sessions, PrepareCall(t, z)
  PROVE  PreparationInvariant'
<1>1. TypeOK /\ TaskAgrees(t) /\ CommitsCurrently(t) /\ ArtifactMatches(t) /\ GoesOn(t)
  BY TaskFacts
<1>2. TypeOK'
  <2>1. [task[t] EXCEPT !.session = z, !.fingerprint = file] \in CsvPreparations
    BY <1>1 DEF TypeOK, CsvPreparations
  <2>2. task' = [task EXCEPT ![t] = [task[t] EXCEPT !.session = z, !.fingerprint = file]]
    BY DEF PrepareCall
  <2>3. task' \in [Tasks -> CsvPreparations]
    BY <1>1, <2>1, <2>2 DEF TypeOK
  <2>4. QED
    BY <1>1, <2>3 DEF PrepareCall, Goto, TypeOK
<1>3. /\ query' = query /\ drop' = drop /\ file' = file
      /\ \A u \in Tasks \ {t} : Kept(u)
  BY <1>1 DEF PrepareCall, Goto, TypeOK, CsvPreparations, Kept
<1>4. MapStep(t) /\ Advances(t)
  BY <1>1 DEF PrepareCall, Goto, TypeOK, CsvPreparations, MapStep, Advances, Over
<1>5. TaskAgrees(t)' /\ GoesOn(t)'
  BY <1>1, TaskFacts DEF PrepareCall, Goto, TypeOK, CsvPreparations, TaskAgrees, GoesOn,
     Over, Known
<1>6. CommitsCurrently(t)'
  BY <1>1 DEF PrepareCall, Goto, TypeOK, CommitsCurrently, Committing
<1>7. ArtifactMatches(t)'
  BY <1>1 DEF PrepareCall, Goto, TypeOK, CsvPreparations, ArtifactMatches, TaskAgrees
<1>8. (HoldsPermit(t)' <=> HoldsPermit(t)) /\ active' = active
  BY <1>1 DEF PrepareCall, Goto, TypeOK, CsvPreparations, HoldsPermit, TaskAgrees
<1>9. QED
  BY <1>2, <1>3, <1>4, <1>5, <1>6, <1>7, <1>8, TaskStep DEF Agree

-----------------------------------------------------------------------------
(* The steps of a query *)

\* What a step of query q has to show.
LEMMA QueryStep ==
  ASSUME PreparationInvariant, TypeOK', NEW q \in Queries,
         \A p \in Queries \ {q} : query'[p] = query[p],
         UNCHANGED <<csv_preparations, locked, active, file, drop>>,
         \A u \in Tasks : Kept(u),
         query'[q].task # None => Known(query'[q].task),
         QueryAgrees(q)', FreshAndJustified(q)'
  PROVE  PreparationInvariant'
<1>1. \A u \in Tasks : Known(u)' => Known(u)
  <2>1. ASSUME NEW u \in Tasks, Known(u)' PROVE Known(u)
    BY <2>1, NoneIsNoTask DEF Known
  <2>2. QED
    BY <2>1
<1>2. file \in Nat
  BY DEF PreparationInvariant, TypeOK, Versions
<1>3. QED
  BY <1>1, <1>2, OtherStep

\* What the invariant says of the query that takes a step, and of its task.
LEMMA QueryFacts ==
  ASSUME PreparationInvariant, NEW q \in Queries
  PROVE  /\ TypeOK /\ QueryAgrees(q) /\ FreshAndJustified(q)
         /\ query[q] \in QueryStates /\ query[q].since \in Nat /\ file \in Nat
         /\ query[q].task # None => Known(query[q].task) /\ query[q].task \in Tasks
         /\ query[q].session \in Sessions /\ csv_preparations[query[q].session] # None =>
              Known(csv_preparations[query[q].session])
BY QueryClauses, TheirTasks DEF PreparationInvariant, TypeOK, QueryStates, Versions

\* The forms in which a step changes a query.
LEMMA QueryForms ==
  ASSUME TypeOK, NEW q \in Queries
  PROVE  /\ \A point \in {"recheck", "verify", "look", "wait", "take", "fetch"} :
              QueryGoto(q, point) => query' \in [Queries -> QueryStates]
         /\ \A outcome \in {"direct", "prepared", "cancelled"},
              content \in Versions \union {NoVersion, None} :
              Answer(q, outcome, content) => query' \in [Queries -> QueryStates]
         /\ \A s \in Sessions, kind \in {"query", "page"} :
              QueryCall(q, s, kind) => query' \in [Queries -> QueryStates]
<1>1. query[q] \in QueryStates /\ file \in Versions
  BY DEF TypeOK
<1>2. ASSUME NEW r \in QueryStates, query' = [query EXCEPT ![q] = r]
      PROVE  query' \in [Queries -> QueryStates]
  BY <1>2 DEF TypeOK
<1>3. ASSUME NEW point \in {"recheck", "verify", "look", "wait", "take", "fetch"},
             QueryGoto(q, point)
      PROVE  query' \in [Queries -> QueryStates]
  <2>1. [query[q] EXCEPT !.pc = point] \in QueryStates
    BY <1>1 DEF QueryStates
  <2>2. query' = [query EXCEPT ![q] = [query[q] EXCEPT !.pc = point]]
    BY <1>3 DEF QueryGoto
  <2>3. QED
    BY <1>2, <2>1, <2>2
<1>4. ASSUME NEW outcome \in {"direct", "prepared", "cancelled"},
             NEW content \in Versions \union {NoVersion, None},
             Answer(q, outcome, content)
      PROVE  query' \in [Queries -> QueryStates]
  <2>1. [query[q] EXCEPT !.pc = "done", !.outcome = outcome, !.content = content]
          \in QueryStates
    BY <1>1 DEF QueryStates
  <2>2. query' = [query EXCEPT ![q] = [query[q] EXCEPT !.pc = "done", !.outcome = outcome,
                                                      !.content = content]]
    BY <1>4 DEF Answer
  <2>3. QED
    BY <1>2, <2>1, <2>2
<1>5. ASSUME NEW s \in Sessions, NEW kind \in {"query", "page"}, QueryCall(q, s, kind)
      PROVE  query' \in [Queries -> QueryStates]
  <2>1. [query[q] EXCEPT !.pc = "look", !.kind = kind, !.session = s, !.since = file]
          \in QueryStates
    BY <1>1 DEF QueryStates
  <2>2. query' = [query EXCEPT ![q] = [query[q] EXCEPT !.pc = "look", !.kind = kind,
                                                      !.session = s, !.since = file]]
    BY <1>5 DEF QueryCall
  <2>3. QED
    BY <1>2, <2>1, <2>2
<1>6. QED
  BY <1>3, <1>4, <1>5

\* A step that leaves the tasks as they are keeps them.
LEMMA AllKept ==
  ASSUME task' = task, pc' = pc, version' = version
  PROVE  \A u \in Tasks : Kept(u)
BY DEF Kept

\* So does one that sets the cancellation flag of a task.
LEMMA FlagKeeps ==
  ASSUME TypeOK, NEW t \in Tasks, task' = [task EXCEPT ![t].cancel = TRUE],
         pc' = pc, version' = version
  PROVE  /\ task' \in [Tasks -> CsvPreparations]
         /\ \A u \in Tasks : Kept(u) /\ task'[u].artifact = task[u].artifact
<1>1. \A u \in Tasks : task[u] \in CsvPreparations
  BY DEF TypeOK
<1>2. task' = [task EXCEPT ![t] = [task[t] EXCEPT !.cancel = TRUE]]
  OBVIOUS
<1>3. [task[t] EXCEPT !.cancel = TRUE] \in CsvPreparations
  BY <1>1, FlagsSet
<1>4. \A u \in Tasks : task'[u] = task[u] \/ task'[u] = [task[u] EXCEPT !.cancel = TRUE]
  BY <1>2 DEF TypeOK
<1>5. \A u \in Tasks : Kept(u) /\ task'[u].artifact = task[u].artifact
  BY <1>1, <1>4 DEF Kept, CsvPreparations
<1>6. QED
  BY <1>2, <1>3, <1>5 DEF TypeOK

LEMMA LookKept ==
  ASSUME PreparationInvariant, NEW q \in Queries, Look(q)
  PROVE  PreparationInvariant'
<1>1. TypeOK'
  BY QueryFacts DEF Look, At, TypeOK, QueryStates
<1>2. /\ \A p \in Queries \ {q} : query'[p] = query[p]
      /\ UNCHANGED <<csv_preparations, locked, active, file, drop>>
      /\ \A u \in Tasks : Kept(u)
  BY QueryFacts, AllKept DEF Look, At, TypeOK
<1>3. query'[q].task # None => Known(query'[q].task)
  BY QueryFacts DEF Look, At, TypeOK, QueryStates, QueryAgrees
<1>4. QueryAgrees(q)' /\ FreshAndJustified(q)'
  BY QueryFacts DEF Look, At, TypeOK, QueryStates, QueryAgrees, FreshAndJustified, Changed
<1>5. QED
  BY <1>1, <1>2, <1>3, <1>4, QueryStep

LEMMA WaitKept ==
  ASSUME PreparationInvariant, NEW q \in Queries, Wait(q)
  PROVE  PreparationInvariant'
<1>1. TypeOK'
  BY QueryFacts DEF Wait, QueryGoto, At, Stopped, TypeOK, QueryStates
<1>2. /\ \A p \in Queries \ {q} : query'[p] = query[p]
      /\ UNCHANGED <<csv_preparations, locked, active, file, drop>>
      /\ \A u \in Tasks : Kept(u)
  BY QueryFacts, AllKept DEF Wait, QueryGoto, At, Stopped, TypeOK
<1>3. query'[q].task # None => Known(query'[q].task)
  BY QueryFacts DEF Wait, QueryGoto, At, Stopped, TypeOK, QueryStates, QueryAgrees
<1>4. QueryAgrees(q)' /\ FreshAndJustified(q)'
  BY QueryFacts DEF Wait, QueryGoto, At, Stopped, TypeOK, QueryStates, QueryAgrees,
     FreshAndJustified, Changed
<1>5. QED
  BY <1>1, <1>2, <1>3, <1>4, QueryStep

LEMMA RecheckKept ==
  ASSUME PreparationInvariant, NEW q \in Queries, Recheck(q)
  PROVE  PreparationInvariant'
<1>1. TypeOK'
  BY QueryFacts DEF Recheck, QueryGoto, At, Answer, TypeOK, QueryStates
<1>2. /\ \A p \in Queries \ {q} : query'[p] = query[p]
      /\ UNCHANGED <<csv_preparations, locked, active, file, drop>>
      /\ \A u \in Tasks : Kept(u)
  BY QueryFacts, AllKept DEF Recheck, QueryGoto, At, Answer, TypeOK
<1>3. query'[q].task # None => Known(query'[q].task)
  BY QueryFacts DEF Recheck, QueryGoto, At, Answer, TypeOK, QueryStates, QueryAgrees
<1>4. QueryAgrees(q)' /\ FreshAndJustified(q)'
  BY QueryFacts DEF Recheck, QueryGoto, At, Answer, TypeOK, QueryStates, QueryAgrees,
     FreshAndJustified, Changed
<1>5. QED
  BY <1>1, <1>2, <1>3, <1>4, QueryStep

LEMMA QueryCancelledKept ==
  ASSUME PreparationInvariant, NEW q \in Queries, QueryCancelled(q)
  PROVE  PreparationInvariant'
<1>1. TypeOK'
  <2>1. query' \in [Queries -> QueryStates]
    BY QueryFacts DEF QueryCancelled, Answer, TypeOK, QueryStates
  <2>2. QED
    BY <2>1, QueryFacts DEF QueryCancelled, TypeOK
<1>2. /\ \A p \in Queries \ {q} : query'[p] = query[p]
      /\ UNCHANGED <<csv_preparations, locked, active, file, drop>>
      /\ \A u \in Tasks : Kept(u)
  BY QueryFacts, AllKept DEF QueryCancelled, Answer, TypeOK
<1>3. query'[q].task # None => Known(query'[q].task)
  BY QueryFacts DEF QueryCancelled, Answer, TypeOK, QueryStates, QueryAgrees
<1>4. QueryAgrees(q)' /\ FreshAndJustified(q)'
  BY QueryFacts DEF QueryCancelled, Answer, TypeOK, QueryStates, QueryAgrees,
     FreshAndJustified, Changed
<1>5. QED
  BY <1>1, <1>2, <1>3, <1>4, QueryStep

LEMMA QueryCallKept ==
  ASSUME PreparationInvariant, NEW q \in Queries, NEW z \in Sessions,
         NEW kind \in {"query", "page"}, QueryCall(q, z, kind)
  PROVE  PreparationInvariant'
<1>1. TypeOK'
  <2>1. query' \in [Queries -> QueryStates]
    BY QueryFacts, QueryForms
  <2>2. QED
    BY <2>1, QueryFacts DEF QueryCall, TypeOK
<1>2. /\ \A p \in Queries \ {q} : query'[p] = query[p]
      /\ UNCHANGED <<csv_preparations, locked, active, file, drop>>
      /\ \A u \in Tasks : Kept(u)
  BY QueryFacts, AllKept DEF QueryCall, At, TypeOK
<1>3. query'[q].task # None => Known(query'[q].task)
  BY QueryFacts DEF QueryCall, At, TypeOK, QueryStates, QueryAgrees
<1>4. QueryAgrees(q)' /\ FreshAndJustified(q)'
  BY QueryFacts DEF QueryCall, At, TypeOK, QueryStates, QueryAgrees, FreshAndJustified,
     Changed
<1>5. QED
  BY <1>1, <1>2, <1>3, <1>4, QueryStep

LEMMA CheckKept ==
  ASSUME PreparationInvariant, NEW q \in Queries, Check(q)
  PROVE  PreparationInvariant'
<1>1. PICK t \in Tasks : t = query[q].task /\ Known(t)
  BY QueryFacts DEF Check, At, QueryAgrees
<1>2. /\ task[t].fingerprint \in Nat /\ task[t].fingerprint <= file
      /\ task[t].state \in {"Preparing", "Ready", "Failed", "Cancelled"}
  BY <1>1, KnownCalled DEF PreparationInvariant, TypeOK, CsvPreparations, Versions
<1>3. \/ task' = task
      \/ Changed(t) /\ task' = [task EXCEPT ![t].cancel = TRUE]
  BY <1>1 DEF Check
<1>4. /\ task' \in [Tasks -> CsvPreparations]
      /\ \A u \in Tasks : Kept(u)
  BY <1>3, QueryFacts, AllKept, FlagKeeps DEF Check, TypeOK
<1>5. query' \in [Queries -> QueryStates]
  BY QueryFacts, QueryForms DEF Check
<1>6. TypeOK'
  BY <1>4, <1>5, QueryFacts DEF Check, TypeOK
<1>7. /\ \A p \in Queries \ {q} : query'[p] = query[p]
      /\ UNCHANGED <<csv_preparations, locked, active, file, drop>>
      /\ query'[q].task = query[q].task
  BY QueryFacts DEF Check, QueryGoto, Answer, At, TypeOK, QueryStates
<1>8. QueryAgrees(q)' /\ FreshAndJustified(q)'
  <2>1. /\ task'[t].state = task[t].state /\ task'[t].fingerprint = task[t].fingerprint
        /\ Changed(t)' <=> Changed(t)
    BY <1>4, <1>7 DEF Kept, Changed
  <2>2. CASE Changed(t)
    BY <1>1, <1>7, <2>1, <2>2, QueryFacts DEF Check, QueryGoto, At, TypeOK, QueryStates,
       QueryAgrees, FreshAndJustified
  <2>3. CASE ~Changed(t)
    <3>1. query[q].since <= task[t].fingerprint
      BY <2>3, QueryFacts DEF Changed, QueryAgrees
    <3>2. QED
      BY <1>1, <1>2, <1>7, <2>1, <2>3, <3>1, QueryFacts DEF Check, QueryGoto, Answer, At,
         TypeOK, QueryStates, QueryAgrees, FreshAndJustified
  <2>4. QED
    BY <2>2, <2>3
<1>9. QED
  BY <1>1, <1>4, <1>6, <1>7, <1>8, QueryStep

LEMMA TakeArtifactKept ==
  ASSUME PreparationInvariant, NEW q \in Queries, TakeArtifact(q)
  PROVE  PreparationInvariant'
<1>1. PICK t \in Tasks : t = query[q].task /\ Known(t) /\ Changed(t)
  BY QueryFacts DEF TakeArtifact, At, QueryAgrees
<1>2. task' = [task EXCEPT ![t].artifact = None]
  BY <1>1 DEF TakeArtifact
<1>3. task' \in [Tasks -> CsvPreparations]
  BY <1>2, QueryFacts DEF TypeOK, CsvPreparations
<1>4. \A u \in Tasks : Kept(u)
  BY <1>1, <1>2, QueryFacts DEF TakeArtifact, TypeOK, CsvPreparations, Kept
<1>5. query' \in [Queries -> QueryStates]
  BY QueryFacts, QueryForms DEF TakeArtifact
<1>6. TypeOK'
  BY <1>3, <1>5, QueryFacts DEF TakeArtifact, TypeOK
<1>7. /\ \A p \in Queries \ {q} : query'[p] = query[p]
      /\ UNCHANGED <<csv_preparations, locked, active, file, drop>>
      /\ query'[q].task = query[q].task
  BY QueryFacts DEF TakeArtifact, Answer, TypeOK, QueryStates
<1>8. Changed(t)'
  BY <1>1, <1>4, <1>7 DEF Kept, Changed
<1>9. QueryAgrees(q)' /\ FreshAndJustified(q)'
  BY <1>1, <1>7, <1>8, QueryFacts DEF TakeArtifact, Answer, TypeOK, QueryStates,
     QueryAgrees, FreshAndJustified
<1>10. QED
  BY <1>1, <1>4, <1>6, <1>7, <1>9, QueryStep

LEMMA FetchKept ==
  ASSUME PreparationInvariant, NEW q \in Queries, Fetch(q)
  PROVE  PreparationInvariant'
<1>1. PICK t \in Tasks : t = query[q].task /\ Known(t)
  BY QueryFacts DEF Fetch, At, QueryAgrees
<1>2. /\ ArtifactMatches(t) /\ task[t].fingerprint \in Versions
      /\ task[t].fingerprint <= file
      /\ task[t].state = "Ready" /\ query[q].since <= task[t].fingerprint
  BY <1>1, QueryFacts, TaskFacts, KnownCalled DEF Fetch, At, QueryAgrees
<1>3. query' \in [Queries -> QueryStates]
  BY <1>1, <1>2, QueryFacts, QueryForms DEF Fetch, ArtifactMatches
<1>4. TypeOK'
  BY <1>3, QueryFacts DEF Fetch, TypeOK
<1>5. /\ \A p \in Queries \ {q} : query'[p] = query[p]
      /\ UNCHANGED <<csv_preparations, locked, active, file, drop>>
      /\ \A u \in Tasks : Kept(u)
      /\ query'[q].task = query[q].task
  BY QueryFacts, AllKept DEF Fetch, Answer, TypeOK, QueryStates
<1>6. CASE task[t].artifact = None
  <2>1. Changed(t)'
    BY <1>2, <1>6 DEF Fetch, ArtifactMatches, Changed
  <2>2. QueryAgrees(q)' /\ FreshAndJustified(q)'
    BY <1>1, <1>6, <2>1, QueryFacts DEF Fetch, Answer, TypeOK, QueryStates, QueryAgrees,
       FreshAndJustified
  <2>3. QED
    BY <1>1, <1>4, <1>5, <2>2, QueryStep
<1>7. CASE task[t].artifact # None
  <2>1. task[t].artifact \in query[q].since..file
    BY <1>2, <1>7, QueryFacts DEF ArtifactMatches, Versions
  <2>2. QueryAgrees(q)' /\ FreshAndJustified(q)'
    BY <1>1, <1>7, <2>1, QueryFacts DEF Fetch, Answer, TypeOK, QueryStates, QueryAgrees,
       FreshAndJustified
  <2>3. QED
    BY <1>1, <1>4, <1>5, <2>2, QueryStep
<1>8. QED
  BY <1>6, <1>7

-----------------------------------------------------------------------------
(* Cancellations, drops and the file *)

\* A step of no query and no drop, which does not commit.
LEMMA FlagStep ==
  ASSUME PreparationInvariant, TypeOK', file <= file',
         UNCHANGED <<csv_preparations, locked, active, query>>,
         \A u \in Tasks : Kept(u),
         \A d \in Drops : /\ drop'[d].task = drop[d].task
                          /\ drop'[d] = drop[d] \/ DropAgrees(d)'
  PROVE  PreparationInvariant'
<1>1. \A u \in Tasks : Known(u)' => Known(u)
  BY DEF Known
<1>2. QED
  BY <1>1, OtherStep

LEMMA CancelCallKept ==
  ASSUME PreparationInvariant, NEW z \in Sessions, CancelCall(z)
  PROVE  PreparationInvariant'
<1>1. TypeOK /\ file \in Nat
  BY DEF PreparationInvariant, TypeOK, Versions
<1>2. cancels' \in 0..MaxCancels
  BY <1>1, PreparationAssumption DEF CancelCall, TypeOK
<1>3. TypeOK'
  BY <1>1, <1>2 DEF CancelCall, TypeOK
<1>4. QED
  BY <1>1, <1>3, AllKept, FlagStep DEF CancelCall

LEMMA CancelFlagKept ==
  ASSUME PreparationInvariant, NEW t \in Tasks, CancelFlag(t)
  PROVE  PreparationInvariant'
<1>1. TypeOK /\ file \in Nat
  BY DEF PreparationInvariant, TypeOK, Versions
<1>2. task' \in [Tasks -> CsvPreparations] /\ \A u \in Tasks : Kept(u)
  BY <1>1, FlagKeeps DEF CancelFlag
<1>3. TypeOK'
  BY <1>1, <1>2 DEF CancelFlag, TypeOK
<1>4. QED
  BY <1>1, <1>2, <1>3, FlagStep DEF CancelFlag

LEMMA FileChangesKept ==
  ASSUME PreparationInvariant, FileChanges
  PROVE  PreparationInvariant'
<1>1. TypeOK
  BY DEF PreparationInvariant
<1>2. TypeOK' /\ file <= file'
  BY <1>1, PreparationAssumption DEF FileChanges, TypeOK, Versions
<1>3. QED
  BY <1>2, AllKept, FlagStep DEF FileChanges

LEMMA DropCallKept ==
  ASSUME PreparationInvariant, NEW d \in Drops, NEW z \in Sessions, DropCall(d, z)
  PROVE  PreparationInvariant'
<1>1. TypeOK /\ file \in Nat /\ DropAgrees(d)
  BY DropClauses DEF PreparationInvariant, TypeOK, Versions
<1>2. TypeOK'
  BY <1>1 DEF DropCall, TypeOK, DropStates
<1>3. \A u \in Tasks : Known(u)' => Known(u)
  BY <1>1, NoneIsNoTask DEF DropCall, TypeOK, DropStates, Known
<1>4. \A e \in Drops : drop'[e] = drop[e] \/ DropAgrees(e)'
  BY <1>1 DEF DropCall, TypeOK, DropStates, DropAgrees
<1>5. QED
  BY <1>1, <1>2, <1>3, <1>4, AllKept, OtherStep DEF DropCall, Unlocked

LEMMA DropCancelsKept ==
  ASSUME PreparationInvariant, NEW d \in Drops, DropCancels(d)
  PROVE  PreparationInvariant'
<1>1. TypeOK /\ file \in Nat /\ DropAgrees(d) /\ drop[d] \in DropStates
  BY DropClauses DEF PreparationInvariant, TypeOK, Versions
<1>2. drop[d].task \in Tasks
  BY <1>1 DEF DropCancels, DropAgrees, DropStates
<1>3. task' \in [Tasks -> CsvPreparations] /\ \A u \in Tasks : Kept(u)
  BY <1>1, <1>2, FlagKeeps DEF DropCancels
<1>4. TypeOK'
  BY <1>1, <1>3 DEF DropCancels, TypeOK, DropStates
<1>5. \A e \in Drops : /\ drop'[e].task = drop[e].task
                       /\ drop'[e] = drop[e] \/ DropAgrees(e)'
  BY <1>1 DEF DropCancels, TypeOK, DropStates, DropAgrees
<1>6. QED
  BY <1>1, <1>3, <1>4, <1>5, FlagStep DEF DropCancels

LEMMA DropEndsKept ==
  ASSUME PreparationInvariant, NEW d \in Drops, DropWaits(d) \/ DropTimesOut(d)
  PROVE  PreparationInvariant'
<1>1. TypeOK /\ file \in Nat /\ DropAgrees(d) /\ drop[d] \in DropStates
  BY DropClauses DEF PreparationInvariant, TypeOK, Versions
<1>2. drop[d].task \in Tasks
  BY <1>1 DEF DropWaits, DropTimesOut, DropAgrees, DropStates
<1>3. TypeOK'
  BY <1>1 DEF DropWaits, DropTimesOut, TypeOK, DropStates
<1>4. DropWaits(d) => Over(drop[d].task)
  BY <1>2, TaskFacts DEF DropWaits, Stopped, TaskAgrees
<1>5. \A e \in Drops : /\ drop'[e].task = drop[e].task
                       /\ drop'[e] = drop[e] \/ DropAgrees(e)'
  BY <1>1, <1>4 DEF DropWaits, DropTimesOut, TypeOK, DropStates, DropAgrees, Over
<1>6. QED
  BY <1>1, <1>3, <1>5, AllKept, FlagStep DEF DropWaits, DropTimesOut

-----------------------------------------------------------------------------
(* The theorems *)

LEMMA PreparationsAgreeInitially ==
  ASSUME Init
  PROVE  PreparationInvariant
<1>1. TypeOK
  BY PreparationAssumption DEF Init, TypeOK, CsvPreparations, QueryStates, DropStates,
     Versions, Tasks
<1>2. ASSUME NEW t \in Tasks PROVE Agree(t) /\ ~HoldsPermit(t)
  BY NoneIsNoTask DEF Init, Agree, TaskAgrees, CommitsCurrently, ArtifactMatches, GoesOn,
     Committing, Over, Known, HoldsPermit
<1>3. \A q \in Queries : QueryAgrees(q) /\ FreshAndJustified(q)
  BY DEF Init, QueryAgrees, FreshAndJustified
<1>4. \A d \in Drops : DropAgrees(d)
  BY DEF Init, DropAgrees
<1>5. active = Cardinality({t \in Tasks : HoldsPermit(t)})
  <2>1. {t \in Tasks : HoldsPermit(t)} = {}
    BY <1>2
  <2>2. QED
    BY <2>1, FS_EmptySet DEF Init
<1>6. QED
  BY <1>1, <1>2, <1>3, <1>4, <1>5, QueryClauses, DropClauses
     DEF PreparationInvariant, PreparationsGoOn, Agree

LEMMA PreparationStep ==
  ASSUME PreparationInvariant, [Next]_vars
  PROVE  PreparationInvariant'
<1>1. ASSUME NEW t \in Tasks, Prepare(t) PROVE PreparationInvariant'
  BY <1>1, InsertKept, LookupKept, PreparationFailsKept, RestoreKept, AcquirePermitKept,
     CancelledInQueueKept, StartBuildKept, FinishBuildKept, PublishEntryKept, ReopenKept,
     WorkerGivesUpKept, CommitKept, StoreArtifactKept, SetReadyKept, ExitKept
     DEF Prepare
<1>2. ASSUME NEW q \in Queries, Proceed(q) \/ QueryCancelled(q)
      PROVE  PreparationInvariant'
  BY <1>2, LookKept, CheckKept, TakeArtifactKept, WaitKept, RecheckKept, FetchKept,
     QueryCancelledKept DEF Proceed
<1>3. CASE UNCHANGED vars
  <2>1. TypeOK /\ file \in Nat
    BY DEF PreparationInvariant, TypeOK, Versions
  <2>2. TypeOK'
    BY <1>3, <2>1 DEF vars, TypeOK
  <2>3. QED
    BY <1>3, <2>1, <2>2, AllKept, FlagStep DEF vars
<1>4. CASE Next
  BY <1>1, <1>2, <1>4, CancelFlagKept, PrepareCallKept, QueryCallKept, DropCancelsKept,
     DropEndsKept, DropCallKept, CancelCallKept, FileChangesKept DEF Next
<1>5. QED
  BY <1>3, <1>4

\* Every task, query and drop agrees with the others in every state: the invariant of
\* prepare_csv_session, its workers, source_after_csv_preparation and drop_session.
THEOREM PreparationsAgree == Spec => []PreparationInvariant
<1>1. Init => PreparationInvariant
  BY PreparationsAgreeInitially
<1>2. PreparationInvariant /\ [Next]_vars => PreparationInvariant'
  BY PreparationStep
<1>3. QED
  BY <1>1, <1>2, PTL DEF Spec

\* Type correctness, which also says that the limiter of the CSV preparations never
\* grants more than MAX_CONCURRENT_CSV_PREPARATIONS permits.
THEOREM PreparationsTyped == Spec => []TypeOK
<1>1. PreparationInvariant => TypeOK
  BY DEF PreparationInvariant
<1>2. QED
  BY <1>1, PreparationsAgree, PTL

\* What a query or a page reads from an artifact is one version of the file, and none
\* older than the file was when it was asked for.
THEOREM PreparedIsFreshAlways == Spec => []PreparedIsFresh
<1>1. PreparationInvariant => PreparedIsFresh
  BY DEF PreparationInvariant
<1>2. QED
  BY <1>1, PreparationsAgree, PTL

\* drop_session returns Ok only after the worker of the task it removed is done.
THEOREM DropQuiescesPreparationAlways == Spec => []DropQuiescesPreparation
<1>1. PreparationInvariant => DropQuiescesPreparation
  BY DEF PreparationInvariant
<1>2. QED
  BY <1>1, PreparationsAgree, PTL

\* A known task that is Preparing has somebody who goes on with it, and every permit has
\* a worker that will return it.
THEOREM PreparationsGoOnAlways == Spec => []PreparationsGoOn
<1>1. PreparationInvariant => PreparationsGoOn
  BY DEF PreparationInvariant
<1>2. QED
  BY <1>1, PreparationsAgree, PTL

\* Only commit_csv_preparation_ready makes a task Ready.
LEMMA OnlySetReady ==
  ASSUME PreparationInvariant, [Next]_vars, NEW t \in Tasks,
         task'[t].state = "Ready", task[t].state # "Ready"
  PROVE  pc[t] = "ready"
<1>1. TypeOK /\ \A u \in Tasks : task[u] \in CsvPreparations
  BY DEF PreparationInvariant, TypeOK
<1>2. \A u \in Tasks : task' # [task EXCEPT ![u].cancel = TRUE]
  BY <1>1, FlagKeeps DEF TypeOK, CsvPreparations
<1>3. \A u \in Tasks, state \in {"Failed", "Cancelled"} : ~Ends(u, state)
  BY <1>1 DEF Ends, TypeOK, CsvPreparations
<1>4. task' # task
  OBVIOUS
<1>5. CASE \E u \in Tasks : Prepare(u)
  <2>1. PICK u \in Tasks : Prepare(u)
    BY <1>5
  <2>2. CASE Insert(u) \/ Lookup(u) \/ StoreArtifact(u)
    <3>1. \/ task'[t] = task[t]
          \/ task'[t] = [task[t] EXCEPT !.cancel = TRUE]
          \/ task'[t] = [task[t] EXCEPT !.worker = TRUE]
          \/ task'[t] = [task[t] EXCEPT !.artifact = version[t]]
      BY <1>1, <2>2 DEF Insert, Lookup, StoreArtifact, TypeOK
    <3>2. QED
      BY <1>1, <3>1 DEF CsvPreparations
  <2>3. CASE SetReady(u)
    BY <1>1, <2>3 DEF SetReady, Ends, TypeOK, CsvPreparations
  <2>4. QED
    BY <1>3, <1>4, <2>1, <2>2, <2>3
       DEF Prepare, PreparationFails, Restore, AcquirePermit, CancelledInQueue, StartBuild,
           FinishBuild, PublishEntry, Reopen, WorkerGivesUp, Commit, Exit
<1>6. CASE \E u \in Tasks : CancelFlag(u) \/ \E s \in Sessions : PrepareCall(u, s)
  <2>1. PICK u \in Tasks : CancelFlag(u) \/ \E s \in Sessions : PrepareCall(u, s)
    BY <1>6
  <2>2. CASE CancelFlag(u)
    BY <1>2, <2>2 DEF CancelFlag
  <2>3. CASE \E s \in Sessions : PrepareCall(u, s)
    <3>1. PICK s \in Sessions : PrepareCall(u, s)
      BY <2>3
    <3>2. task'[t].state = task[t].state
      BY <1>1, <3>1 DEF PrepareCall, TypeOK, CsvPreparations
    <3>3. QED
      BY <3>2
  <2>4. QED
    BY <2>1, <2>2, <2>3
<1>7. CASE \E q \in Queries :
             \/ Proceed(q) \/ QueryCancelled(q)
             \/ \E s \in Sessions, kind \in {"query", "page"} : QueryCall(q, s, kind)
  <2>1. PICK q \in Queries :
             \/ Proceed(q) \/ QueryCancelled(q)
             \/ \E s \in Sessions, kind \in {"query", "page"} : QueryCall(q, s, kind)
    BY <1>7
  <2>2. CASE Check(q) \/ TakeArtifact(q)
    <3>1. query[q].task \in Tasks
      BY <2>2, QueryFacts DEF Check, TakeArtifact, At, QueryAgrees
    <3>2. QED
      BY <1>1, <1>2, <1>4, <2>2, <3>1 DEF Check, TakeArtifact, TypeOK, CsvPreparations
  <2>3. QED
    BY <1>4, <2>1, <2>2 DEF Proceed, Look, Wait, Recheck, Fetch, QueryCancelled, QueryCall
<1>8. CASE \E d \in Drops : \/ DropCancels(d) \/ DropWaits(d) \/ DropTimesOut(d)
                            \/ \E s \in Sessions : DropCall(d, s)
  <2>1. PICK d \in Drops : \/ DropCancels(d) \/ DropWaits(d) \/ DropTimesOut(d)
                           \/ \E s \in Sessions : DropCall(d, s)
    BY <1>8
  <2>2. CASE DropCancels(d)
    <3>1. drop[d].task \in Tasks
      BY <1>1, <2>2, DropClauses
         DEF PreparationInvariant, DropCancels, DropAgrees, TypeOK, DropStates
    <3>2. QED
      BY <1>2, <2>2, <3>1 DEF DropCancels
  <2>3. QED
    BY <1>4, <2>1, <2>2 DEF DropWaits, DropTimesOut, DropCall
<1>9. QED
  BY <1>4, <1>5, <1>6, <1>7, <1>8 DEF Next, vars, CancelCall, FileChanges

\* A task becomes Ready while it is the task of its session: one that was replaced, or
\* whose session was dropped, never does.
THEOREM ReadyIsCurrentAlways == Spec => ReadyIsCurrent
<1>1. PreparationInvariant /\ [Next]_vars
        => [\A t \in Tasks :
              task'[t].state = "Ready" /\ task[t].state # "Ready"
                => csv_preparations[task[t].session] = t]_vars
  BY OnlySetReady, TaskFacts DEF CommitsCurrently, Committing
<1>2. QED
  BY <1>1, PreparationsAgree, PTL DEF Spec, ReadyIsCurrent

=============================================================================
