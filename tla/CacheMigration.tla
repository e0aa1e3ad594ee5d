---------------------------- MODULE CacheMigration ----------------------------
(***************************************************************************)
(* The move of the CSV cache to another root                               *)
(* (src-tauri/src/storage/csv_cache/migration.rs, migration/recovery.rs,   *)
(* src-tauri/src/commands/cache_migration.rs and the callers of            *)
(* AppState::query_service in src-tauri/src/commands/mod.rs).              *)
(*                                                                         *)
(* A window (process) has one thread that moves the cache and threads that *)
(* run commands: query_service, which recovers an interrupted move before  *)
(* it opens the cache, and update_settings.  Windows share the disk: the   *)
(* saved settings, the journal and two cache roots, each with an owner     *)
(* file, a redirect, a transaction marker and the entries.  They exclude   *)
(* each other with the control lock, the global lock of a root and the     *)
(* leases of its entries; the system releases all three when one ends.     *)
(*                                                                         *)
(* A key is the identity of a source file and its parser, so an entry that *)
(* is "whole" is the right one.  A directory that holds some of its files  *)
(* is "part", one that holds none is "empty".  Every file operation that a *)
(* crash may separate from the next one is an action, except in evictions: *)
(* one removes the whole directory of each entry it takes, and one that    *)
(* fails or is cut short has taken some of them.  A marker belongs to the  *)
(* operation of the journal: it is there or not.                           *)
(***************************************************************************)
EXTENDS Integers, FiniteSets, FiniteSetsExt

CONSTANTS
  Windows,             \* processes of the application
  Callers,             \* command threads of a window
  Keys,                \* cache keys, numbered in the order a move takes them
  Home, Away,          \* the default root and the one a user chooses
  None,
  MaxMoves,            \* bound on the moves begun
  MaxCrashes,          \* bound on the windows that end without notice
  MaxFaults            \* bound on the file operations that fail

ASSUME MigrationAssumption ==
  /\ Home # Away /\ None \notin {Home, Away}
  /\ Keys \subseteq Nat /\ IsFiniteSet(Keys)
  /\ "mover" \notin Callers /\ None \notin Windows \X (Callers \union {"mover"})
  /\ MaxMoves \in Nat /\ MaxCrashes \in Nat /\ MaxFaults \in Nat

VARIABLES
  setting,             \* csv_cache_directory of the saved settings
  journal,             \* .csv-cache-migration.json, or None
  dir,                 \* "absent", "bare" (no owner file) or "owned", of each root
  redirect, marker,    \* the redirect and the transaction marker of each root
  entry, staged,       \* the entries of each root; the staged entries of the target
  live,                \* the keys whose entry is in the cache
  control, global,     \* holders of the control lock and of each root's lock
  mutex, service,      \* of each window: the holder of the query_service mutex,
                       \* the root of the service behind it
  busy, up,            \* of each window: a move runs; its setup has ended
  handles, leases,     \* of each window: the roots its threads have a service for;
                       \* the entries they hold leases of
  pc, at,              \* of each thread: control point and the root it works on
  work,                \* the move that the holder of the control lock works on
  moves, crashes, faults

disk == <<setting, journal, dir, redirect, marker, entry, staged, live>>
locks == <<control, global, mutex>>
window == <<service, busy, up, handles, leases>>
bounds == <<moves, crashes, faults>>
vars == <<disk, locks, window, pc, at, work, bounds>>

Roots == {Home, Away}
Threads == Windows \X (Callers \union {"mover"})
Mover(w) == <<w, "mover">>
Commands(w) == {w} \X Callers

\* A directory of an entry: what it holds, and whether .migration-entry.json is there.
Entries == [files : {"none", "empty", "part", "whole"}, tag : BOOLEAN]
NoEntry == [files |-> "none", tag |-> FALSE]
WholeEntry == [files |-> "whole", tag |-> FALSE]

Journals == [source : Roots, target : Roots, absent : BOOLEAN,
             prior : Roots \union {None}, keys : SUBSET Keys, started : BOOLEAN]

ASSUME NoneIsNoJournal == None \notin Journals

\* journal is the copy in memory; todo are the keys still to do, failed says that
\* a source entry could not be removed; forward that the move is completed.
Works == [journal : Journals, todo : SUBSET Keys, failed : BOOLEAN, forward : BOOLEAN]

NoWork == [journal |-> [source |-> Home, target |-> Away, absent |-> FALSE,
                        prior |-> None, keys |-> {}, started |-> FALSE],
           todo |-> {}, failed |-> FALSE, forward |-> FALSE]

\* Control points: the steps of migrate_to up to its commit; those of rollback and
\* finish_committed, which recovery shares; those of the other commands.
Moving == {"preview", "control", "check", "create", "own", "lock", "journal", "mark source",
           "mark target", "copy", "unredirect", "redirect", "commit", "reopen", "install"}
Settling == {"roll back", "undo redirect", "restore redirect", "verify", "clean",
             "remove directory", "untag", "unmark one", "unmark other", "drop journal",
             "prune", "prune owner", "prune directory"}
Calling == {"mutex", "recover", "inspect", "read", "open", "update control", "update mutex",
            "update limit"}

TypeOK ==
  /\ setting \in Roots /\ journal \in Journals \union {None}
  /\ dir \in [Roots -> {"absent", "bare", "owned"}]
  /\ redirect \in [Roots -> Roots \union {None}] /\ marker \in [Roots -> BOOLEAN]
  /\ entry \in [Roots -> [Keys -> Entries]] /\ staged \in [Keys -> Entries]
  /\ live \in SUBSET Keys
  /\ control \in Threads \union {None} /\ global \in [Roots -> Threads \union {None}]
  /\ mutex \in [Windows -> Threads \union {None}]
  /\ service \in [Windows -> Roots \union {None}]
  /\ busy \in [Windows -> BOOLEAN] /\ up \in [Windows -> BOOLEAN]
  /\ handles \in [Windows -> SUBSET Roots] /\ leases \in [Windows -> SUBSET (Roots \X Keys)]
  /\ pc \in [Threads -> {"idle"} \union Moving \union Settling \union Calling]
  /\ at \in [Threads -> Roots] /\ work \in Works
  /\ moves \in 0..MaxMoves /\ crashes \in 0..MaxCrashes /\ faults \in 0..MaxFaults

\* The cache has never been moved, or it has and Home holds the redirect of that move.
Init ==
  /\ setting \in Roots /\ journal = None
  /\ dir = [r \in Roots |-> IF r = Away /\ setting = Home THEN "absent" ELSE "owned"]
  /\ redirect = [r \in Roots |-> IF r = Home /\ setting = Away THEN Away ELSE None]
  /\ marker = [r \in Roots |-> FALSE]
  /\ live \in SUBSET Keys
  /\ entry = [r \in Roots |-> [k \in Keys |->
                IF r = setting /\ k \in live THEN WholeEntry ELSE NoEntry]]
  /\ staged = [k \in Keys |-> NoEntry]
  /\ control = None /\ global = [r \in Roots |-> None] /\ mutex = [w \in Windows |-> None]
  /\ service = [w \in Windows |-> None]
  /\ busy = [w \in Windows |-> FALSE] /\ up = [w \in Windows |-> FALSE]
  /\ handles = [w \in Windows |-> {}] /\ leases = [w \in Windows |-> {}]
  /\ pc = [t \in Threads |-> "idle"] /\ at = [t \in Threads |-> Home] /\ work = NoWork
  /\ moves = 0 /\ crashes = 0 /\ faults = 0

-----------------------------------------------------------------------------
Goto(t, point) == pc' = [pc EXCEPT ![t] = point]

WorksOn(t, r) == at' = [at EXCEPT ![t] = r]

Fault == faults < MaxFaults /\ faults' = faults + 1

NoFault == UNCHANGED faults

SharedLock(r, k) == TRUE   \* fault: the entry is locked like a lease

\* No lease of a window keeps the entry from being locked exclusively.
Unleased(r, k) == \A w \in Windows : <<r, k>> \notin leases[w]

AllUnleased(r) == \A k \in Keys : entry[r][k].files # "none" => Unleased(r, k)

\* The checks of lock_global and of ensure_configured_directory.
Usable(r) == setting = r /\ redirect[r] = None /\ ~marker[r]

\* destination: the folder is not there, or an empty one of the application.
Destination(r) ==
  \/ dir[r] = "absent"
  \/ /\ dir[r] = "owned" /\ ~marker[r]
     /\ \A k \in Keys : entry[r][k].files = "none"

\* The locks a thread holds are released when its function returns; its move is over.
ReleaseLocks(t) ==
  /\ control' = IF control = t THEN None ELSE control
  /\ work' = IF control = t THEN NoWork ELSE work
  /\ global' = [r \in Roots |-> IF global[r] = t THEN None ELSE global[r]]

-----------------------------------------------------------------------------
(* Use of the cache: each operation holds the lock of its root throughout *)

Reaches(w, r) == r \in handles[w] /\ global[r] = None /\ Usable(r)

Lookup(w, r, k) ==
  /\ Reaches(w, r) /\ entry[r][k].files = "whole"
  /\ leases' = [leases EXCEPT ![w] = @ \union {<<r, k>>}]
  /\ UNCHANGED <<disk, locks, service, busy, up, handles, pc, at, work, bounds>>

\* The lease ends without the lock of the root.
Release(w, r, k) ==
  /\ <<r, k>> \in leases[w]
  /\ leases' = [leases EXCEPT ![w] = @ \ {<<r, k>>}]
  /\ UNCHANGED <<disk, locks, service, busy, up, handles, pc, at, work, bounds>>

\* An entry in use is passed over.
Evictable(r) == {k \in Keys : entry[r][k].files = "whole" /\ Unleased(r, k)}

\* The entries of a root without those evicted, whose directories go whole.
Without(r, gone) == [k \in Keys |-> IF k \in gone THEN NoEntry ELSE entry[r][k]]

\* An entry that is there is used; else others make room and it is leased at once.
Publish(w, r, k) ==
  /\ Reaches(w, r)
  /\ \/ /\ entry[r][k].files = "whole" /\ UNCHANGED <<entry, live>>
     \/ /\ entry[r][k].files = "none"
        /\ \E gone \in SUBSET Evictable(r) :
             /\ entry' = [entry EXCEPT ![r] = [Without(r, gone) EXCEPT ![k] = WholeEntry]]
             /\ live' = (live \ gone) \union {k}
  /\ leases' = [leases EXCEPT ![w] = @ \union {<<r, k>>}]
  /\ UNCHANGED <<setting, journal, dir, redirect, marker, staged, locks, service, busy, up,
                 handles, pc, at, work, bounds>>

Evict(w, r, gone) ==
  /\ Reaches(w, r)
  /\ entry' = [entry EXCEPT ![r] = Without(r, gone)]
  /\ live' = live \ gone
  /\ UNCHANGED <<setting, journal, dir, redirect, marker, staged, locks, window, pc, at,
                 work, bounds>>

\* reclaim_for_query and reclaim_under_pressure, until there is space.
Reclaim(w, r) == \E gone \in (SUBSET Evictable(r)) \ {{}} : Evict(w, r, gone)

ClearInactive(w, r) == Evictable(r) # {} /\ Evict(w, r, Evictable(r))

-----------------------------------------------------------------------------
(* A move, up to its commit *)

Source == work.journal.source
Target == work.journal.target

Other(r) == IF r = Home THEN Away ELSE Home

\* migrate_to returns: the locks go and the mover opens the selected root again.
Leave(t) == ReleaseLocks(t) /\ Goto(t, "reopen")

\* An error before the journal is written; also one while begin writes the markers.
Refused(t) == Leave(t) /\ UNCHANGED <<disk, mutex, window, at, moves, crashes>>

Step(t, point) ==
  /\ Goto(t, point)
  /\ UNCHANGED <<locks, window, at, work, moves, crashes>>

Idle(w) ==   \* fault: also without a cache
  \A c \in Commands(w) : pc[c] \notin {"update control", "update mutex", "update limit"}

\* start_csv_cache_migration_inner: no file opens, no document is open, no settings
\* are applied.  Without a service the source must be unavailable, which it is not.
Admits(w) ==
  /\ \A c \in Commands(w) : pc[c] \notin {"update control", "update mutex", "update limit"}
  /\ service[w] # None

StartMove(w) ==
  /\ ~busy[w] /\ moves < MaxMoves
  /\ mutex[w] = None /\ Admits(w)
  /\ moves' = moves + 1
  /\ busy' = [busy EXCEPT ![w] = TRUE]
  /\ WorksOn(Mover(w), service[w])
  /\ Goto(Mover(w), "preview")
  /\ UNCHANGED <<disk, locks, service, up, handles, leases, work, crashes, faults>>

\* The service goes and the thread of the move begins.
Preview(w) ==
  LET m == Mover(w)
      source == at[m]
  IN
  /\ pc[m] = "preview" /\ global[source] = None
  /\ IF Usable(source) /\ Destination(Other(source)) /\ AllUnleased(source)
     THEN /\ mutex[w] = None
          /\ service' = [service EXCEPT ![w] = None]
          /\ Goto(m, "control") /\ UNCHANGED <<busy, at>>
     ELSE /\ busy' = [busy EXCEPT ![w] = FALSE]
          /\ Goto(m, "idle") /\ WorksOn(m, Home) /\ UNCHANGED service
  /\ UNCHANGED <<disk, locks, up, handles, leases, work, bounds>>

\* shutdown waits three seconds for the threads of the old service.
TakeControl(w) ==
  LET m == Mover(w) IN
  /\ pc[m] = "control" /\ control = None
  /\ \E stopped \in SUBSET handles[w] : handles' = [handles EXCEPT ![w] = @ \ stopped]
  /\ IF journal # None THEN Leave(m)
     ELSE control' = m /\ Goto(m, "check") /\ UNCHANGED <<global, work>>
  /\ UNCHANGED <<disk, mutex, service, busy, up, leases, at, bounds>>

NewWork(source) ==
  LET target == Other(source) IN
  [NoWork EXCEPT !.journal = [source |-> source, target |-> target,
                              absent |-> dir[target] = "absent", prior |-> redirect[target],
                              keys |-> {k \in Keys : entry[source][k].files = "whole"},
                              started |-> FALSE]]

\* The checks of migrate_to under the lock of the source; also a cancelled move or
\* one that lacks space.
Check(w) ==
  LET m == Mover(w)
      source == at[m]
      target == Other(source)
  IN
  /\ pc[m] = "check" /\ global[source] = None
  /\ \/ Refused(m)
     \/ /\ Usable(source) /\ Destination(target) /\ AllUnleased(source)
        /\ global' = [global EXCEPT ![source] = m]
        /\ work' = NewWork(source)
        /\ Goto(m, IF dir[target] = "absent" THEN "create" ELSE "lock")
        /\ UNCHANGED <<disk, control, mutex, window, at, moves, crashes>>
  /\ NoFault

CreateTarget(w) ==
  LET m == Mover(w) IN
  /\ pc[m] = "create"
  /\ \/ Fault /\ Refused(m)
     \/ /\ NoFault /\ dir' = [dir EXCEPT ![Target] = "bare"]
        /\ Step(m, "own")
        /\ UNCHANGED <<setting, journal, redirect, marker, entry, staged, live>>

\* A folder in which the owner file was begun is not removed.
OwnTarget(w) ==
  LET m == Mover(w) IN
  /\ pc[m] = "own"
  /\ \/ /\ Fault /\ Leave(m)
        /\ \E left \in {"absent", "bare"} : dir' = [dir EXCEPT ![Target] = left]
        /\ UNCHANGED <<mutex, window, at, moves, crashes>>
     \/ /\ NoFault /\ dir' = [dir EXCEPT ![Target] = "owned"]
        /\ Step(m, "lock")
  /\ UNCHANGED <<setting, journal, redirect, marker, entry, staged, live>>

\* The lock of the target and the entry locks are tried, not waited for.
LockTarget(w) ==
  LET m == Mover(w) IN
  /\ pc[m] = "lock"
  /\ IF /\ global[Target] = None /\ Destination(Target)
        /\ \A k \in work.journal.keys : Unleased(Source, k)
     THEN /\ global' = [global EXCEPT ![Target] = m]
          /\ Goto(m, "journal")
          /\ UNCHANGED <<disk, control, mutex, window, at, work, moves, crashes>>
     ELSE Refused(m)
  /\ NoFault

WriteJournal(w) ==
  LET m == Mover(w) IN
  /\ pc[m] = "journal"
  /\ \/ Fault /\ Refused(m)
     \/ /\ NoFault /\ journal' = work.journal
        /\ Step(m, "mark source")
        /\ UNCHANGED <<setting, dir, redirect, marker, entry, staged, live>>

Mark(w, point, r, then) ==
  LET m == Mover(w) IN
  /\ pc[m] = point
  /\ \/ Fault /\ Refused(m)
     \/ /\ NoFault /\ marker' = [marker EXCEPT ![r] = TRUE]
        /\ work' = [work EXCEPT !.todo = work.journal.keys]
        /\ Goto(m, then)
        /\ UNCHANGED <<setting, journal, dir, redirect, entry, staged, live, locks, window,
                       at, moves, crashes>>

MarkSource(w) == Mark(w, "mark source", Source, "mark target")
MarkTarget(w) == Mark(w, "mark target", Target, "copy")

\* The next state of a staged entry: its directory, its tag, its files.
Grown(e) ==
  CASE e.files = "none" -> [files |-> "empty", tag |-> FALSE]
    [] e.files = "empty" -> [files |-> "part", tag |-> TRUE]
    [] e.files = "part" -> [files |-> "whole", tag |-> TRUE]

Copy(w) ==
  LET m == Mover(w)
      k == Min(work.todo)
  IN
  /\ pc[m] = "copy" /\ work.todo # {}
  /\ IF staged[k].files # "whole"
     THEN staged' = [staged EXCEPT ![k] = Grown(@)] /\ UNCHANGED <<entry, work>>
     ELSE /\ entry' = [entry EXCEPT ![Target][k] = staged[k]]
          /\ staged' = [staged EXCEPT ![k] = NoEntry]
          /\ work' = [work EXCEPT !.todo = @ \ {k}]
  /\ UNCHANGED <<setting, journal, dir, redirect, marker, live, locks, window, pc, at, bounds>>

Copied(w) ==
  LET m == Mover(w) IN
  /\ pc[m] = "copy" /\ work.todo = {}
  /\ Step(m, "unredirect")
  /\ UNCHANGED <<disk, faults>>

\* The move is cancelled, or an operation fails, before the settings are saved.
Abandon(w) ==
  LET m == Mover(w) IN
  /\ \/ pc[m] \in {"copy", "unredirect"} /\ NoFault
     \/ pc[m] \in {"redirect", "commit"} /\ Fault
  /\ work' = [work EXCEPT !.todo = work.journal.keys]
  /\ Goto(m, "roll back")
  /\ UNCHANGED <<disk, locks, window, at, moves, crashes>>

Unredirect(w) ==
  LET m == Mover(w) IN
  /\ pc[m] = "unredirect"
  /\ redirect' = [redirect EXCEPT ![Target] = None]
  /\ Step(m, "redirect")
  /\ UNCHANGED <<setting, journal, dir, marker, entry, staged, live, faults>>

Redirect(w) ==
  LET m == Mover(w) IN
  /\ pc[m] = "redirect"
  /\ redirect' = [redirect EXCEPT ![Source] = Target]
  /\ Step(m, "commit")
  /\ UNCHANGED <<setting, journal, dir, marker, entry, staged, live, faults>>

Commit(w) ==
  LET m == Mover(w) IN
  /\ pc[m] = "commit"
  /\ setting' = Target
  /\ work' = [work EXCEPT !.todo = work.journal.keys, !.forward = TRUE]
  /\ Goto(m, "verify")
  /\ UNCHANGED <<journal, dir, redirect, marker, entry, staged, live, locks, window, at,
                 bounds>>

-----------------------------------------------------------------------------
(* rollback and finish_committed, by the mover or by a command that recovers *)

\* query_service returns; setup, its first call in a window, has ended.
Return(c) ==
  /\ ReleaseLocks(c)
  /\ mutex' = [mutex EXCEPT ![c[1]] = IF @ = c THEN None ELSE @]
  /\ up' = [up EXCEPT ![c[1]] = TRUE]
  /\ Goto(c, "idle") /\ WorksOn(c, Home)

\* The function ends with an error, or has ended without one.
Failed(t) == IF t[2] = "mover" THEN Leave(t) /\ UNCHANGED <<mutex, up, at>> ELSE Return(t)

Settled(t) ==
  /\ ReleaseLocks(t)
  /\ Goto(t, IF t[2] = "mover" THEN "reopen" ELSE "read")

\* A step of the holder of the control lock; any of them may fail.
Settle(t, point, then) ==
  /\ pc[t] = point
  /\ Goto(t, then)
  /\ UNCHANGED <<locks, window, at, bounds>>

Fail(t) ==
  /\ pc[t] \in Settling /\ Fault
  /\ Failed(t)
  /\ UNCHANGED <<disk, service, busy, handles, leases, moves, crashes>>

\* What remove_entry leaves: the tag goes last, the directory after it.
Shrunk(e) ==
  CASE e.files = "whole" -> [files |-> "part", tag |-> TRUE]
    [] e.files = "part" -> [files |-> "empty", tag |-> FALSE]
    [] e.files = "empty" -> NoEntry

\* A directory that is neither empty nor tagged belongs to somebody else.
Owned(e) == e.files = "empty" \/ e.tag

RollBack(t) ==
  LET k == Min(work.todo)
      left == IF staged[k].files # "none" THEN staged[k] ELSE entry[Target][k]
  IN
  /\ pc[t] = "roll back" /\ work.todo # {}
  /\ CASE left.files # "none" /\ ~Owned(left) ->
            Failed(t) /\ UNCHANGED <<staged, entry>>
       [] left.files # "none" /\ Owned(left) ->
            /\ IF staged[k].files # "none"
               THEN staged' = [staged EXCEPT ![k] = Shrunk(@)] /\ UNCHANGED entry
               ELSE entry' = [entry EXCEPT ![Target][k] = Shrunk(@)] /\ UNCHANGED staged
            /\ UNCHANGED <<work, pc, control, global, mutex, up, at>>
       [] left.files = "none" ->
            /\ work' = [work EXCEPT !.todo = @ \ {k}]
            /\ UNCHANGED <<staged, entry, pc, control, global, mutex, up, at>>
  /\ UNCHANGED <<setting, journal, dir, redirect, marker, live, service, busy, handles, leases,
                 bounds>>

RolledBack(t) ==
  /\ work.todo = {} /\ Settle(t, "roll back", "undo redirect")
  /\ UNCHANGED <<disk, work>>

\* fault: the redirect written by the move stays
KeepRedirect(t) ==
  /\ Settle(t, "undo redirect", "restore redirect")
  /\ UNCHANGED <<disk, work>>

UndoRedirect(t) ==
  /\ Settle(t, "undo redirect", "restore redirect")
  /\ redirect' = [redirect EXCEPT ![Source] = None]
  /\ UNCHANGED <<setting, journal, dir, marker, entry, staged, live, work>>

RestoreRedirect(t) ==
  LET prior == work.journal.prior IN
  /\ Settle(t, "restore redirect", "unmark one")
  /\ redirect' = [redirect EXCEPT ![Target] = IF prior = None THEN @ ELSE prior]
  /\ UNCHANGED <<setting, journal, dir, marker, entry, staged, live, work>>

\* finish_committed deletes nothing before every copy is found whole.
Verify(t) ==
  /\ pc[t] = "verify"
  /\ IF work.journal.started \/ \A k \in work.journal.keys : entry[Target][k].files = "whole"
     THEN /\ journal' = [work.journal EXCEPT !.started = TRUE]
          /\ work' = [work EXCEPT !.journal.started = TRUE]
          /\ Goto(t, "clean")
          /\ UNCHANGED <<locks, up, at>>
     ELSE Failed(t) /\ UNCHANGED journal
  /\ UNCHANGED <<setting, dir, redirect, marker, entry, staged, live, service, busy, handles,
                 leases, bounds>>

\* A source entry: it is tagged if it is whole, then its files go and the tag last.
Clean(t) ==
  LET k == Min(work.todo)
      e == entry[Source][k]
      Put(new) == entry' = [entry EXCEPT ![Source][k] = new]
  IN
  /\ pc[t] = "clean" /\ work.todo # {}
  /\ CASE e.tag ->
            Put(Shrunk(e)) /\ UNCHANGED work
              /\ Goto(t, IF e.files = "part" THEN "remove directory" ELSE "clean")
       [] ~e.tag /\ e.files = "whole" ->
            Put([e EXCEPT !.tag = TRUE]) /\ UNCHANGED <<work, pc>>
       [] ~e.tag /\ e.files = "none" ->
            work' = [work EXCEPT !.todo = @ \ {k}] /\ UNCHANGED <<entry, pc>>
       [] ~e.tag /\ e.files \in {"empty", "part"} ->
            /\ work' = [work EXCEPT !.todo = @ \ {k}, !.failed = TRUE]
            /\ UNCHANGED <<entry, pc>>
  /\ UNCHANGED <<setting, journal, dir, redirect, marker, staged, live, locks, window, at, bounds>>

RemoveDirectory(t) ==
  LET k == Min(work.todo) IN
  /\ Settle(t, "remove directory", "clean")
  /\ entry' = [entry EXCEPT ![Source][k] = NoEntry]
  /\ work' = [work EXCEPT !.todo = @ \ {k}]
  /\ UNCHANGED <<setting, journal, dir, redirect, marker, staged, live>>

\* A source entry that cannot be removed is left; the others are still cleaned.
CleanFails(t) ==
  /\ pc[t] \in {"clean", "remove directory"} /\ work.todo # {} /\ Fault
  /\ work' = [work EXCEPT !.todo = @ \ {Min(work.todo)}, !.failed = TRUE]
  /\ Goto(t, "clean")
  /\ UNCHANGED <<disk, locks, window, at, moves, crashes>>

Cleaned(t) ==
  /\ work.todo = {} /\ Settle(t, "clean", "untag")
  /\ work' = [work EXCEPT !.todo = work.journal.keys]
  /\ UNCHANGED disk

Untag(t) ==
  LET k == Min(work.todo) IN
  /\ pc[t] = "untag"
  /\ IF work.todo = {} THEN Goto(t, "unmark one") /\ UNCHANGED <<entry, work>>
     ELSE /\ entry' = [entry EXCEPT ![Target][k].tag = FALSE]
          /\ work' = [work EXCEPT !.todo = @ \ {k}]
          /\ UNCHANGED pc
  /\ UNCHANGED <<setting, journal, dir, redirect, marker, staged, live, locks, window, at, bounds>>

\* rollback frees the source first, finish_committed the target.
UnmarkOne(t) ==
  /\ Settle(t, "unmark one", "unmark other")
  /\ marker' = [marker EXCEPT ![IF work.forward THEN Target ELSE Source] = FALSE]
  /\ UNCHANGED <<setting, journal, dir, redirect, entry, staged, live, work>>

UnmarkOther(t) ==
  /\ Settle(t, "unmark other", "drop journal")
  /\ marker' = [marker EXCEPT ![IF work.forward THEN Source ELSE Target] = FALSE]
  /\ UNCHANGED <<setting, journal, dir, redirect, entry, staged, live, work>>

\* The journal stays if a source entry does.  A rolled back target that was created
\* for the move is unlocked and removed.
DropJournal(t) ==
  /\ pc[t] = "drop journal"
  /\ journal' = IF work.failed THEN journal ELSE None
  /\ IF ~work.forward /\ work.journal.absent
     THEN /\ global' = [global EXCEPT ![Target] = None]
          /\ Goto(t, "prune") /\ UNCHANGED <<control, work>>
     ELSE Settled(t)
  /\ UNCHANGED <<setting, dir, redirect, marker, entry, staged, live, mutex, window, at,
                 bounds>>

\* remove_empty_created_target: only what the application made, and only if empty.
Prune(t) ==
  /\ pc[t] = "prune"
  /\ IF /\ dir[Target] = "owned" /\ redirect[Target] = None /\ ~marker[Target]
        /\ \A k \in Keys : entry[Target][k].files = "none" /\ staged[k].files = "none"
     THEN Goto(t, "prune owner") /\ UNCHANGED <<control, global, work>>
     ELSE Settled(t)
  /\ UNCHANGED <<disk, mutex, window, at, bounds>>

PruneOwner(t) ==
  /\ Settle(t, "prune owner", "prune directory")
  /\ dir' = [dir EXCEPT ![Target] = "bare"]
  /\ UNCHANGED <<setting, journal, redirect, marker, entry, staged, live, work>>

PruneDirectory(t) ==
  /\ pc[t] = "prune directory"
  /\ dir' = [dir EXCEPT ![Target] = "absent"]
  /\ Settled(t)
  /\ UNCHANGED <<setting, journal, redirect, marker, entry, staged, live, mutex, window, at,
                 bounds>>

-----------------------------------------------------------------------------
(* query_service *)

\* Setup is the first call of a window; nothing else runs before it has ended.
BeginQuery(c) ==
  LET w == c[1] IN
  /\ pc[c] = "idle" /\ ~busy[w]
  /\ up[w] \/ \A t \in Commands(w) : pc[t] = "idle"
  /\ WorksOn(c, setting)
  /\ Goto(c, "mutex")
  /\ UNCHANGED <<disk, locks, window, work, bounds>>

\* With a service the call ends here, whether its root is still the selected one or not.
TakeMutex(c) ==
  LET w == c[1] IN
  /\ pc[c] = "mutex" /\ mutex[w] = None
  /\ IF service[w] # None THEN Goto(c, "idle") /\ UNCHANGED mutex
     ELSE mutex' = [mutex EXCEPT ![w] = c] /\ Goto(c, "recover")
  /\ WorksOn(c, Home)
  /\ UNCHANGED <<disk, control, global, window, work, bounds>>

Recover(c) ==
  /\ pc[c] = "recover" /\ control = None
  /\ IF journal = None THEN Goto(c, "read") /\ UNCHANGED control
     ELSE control' = c /\ Goto(c, "inspect")
  /\ UNCHANGED <<disk, global, mutex, window, at, work, bounds>>

AlwaysRollsBack(j) == FALSE   \* fault: the settings are not consulted

\* The saved settings decide: the move is completed if they name its target.
Completes(j) == setting = j.target

\* The entries that recovery locks; one that is leased makes it fail.
Recoverable(j) ==
  /\ \A k \in j.keys : entry[j.source][k].files # "none" => Unleased(j.source, k)
  /\ ~Completes(j) =>
       \A k \in j.keys : entry[j.target][k].files # "none" => Unleased(j.target, k)

Inspect(c) ==
  LET j == journal IN
  /\ pc[c] = "inspect"
  /\ global[j.source] = None /\ (dir[j.target] # "absent" => global[j.target] = None)
  /\ IF /\ dir[j.source] = "owned" /\ dir[j.target] # "bare"
        /\ Recoverable(j) /\ ~(j.started /\ ~Completes(j))
     THEN /\ global' = [r \in Roots |-> IF dir[r] = "absent" THEN global[r] ELSE c]
          /\ work' = [journal |-> j, todo |-> j.keys, failed |-> FALSE,
                      forward |-> Completes(j)]
          /\ redirect' = IF Completes(j) /\ redirect[j.source] = None
                         THEN [redirect EXCEPT ![j.source] = j.target] ELSE redirect
          /\ Goto(c, IF Completes(j) THEN "verify" ELSE "roll back")
          /\ UNCHANGED <<control, mutex, up, at>>
     ELSE Return(c) /\ UNCHANGED redirect
  /\ UNCHANGED <<setting, journal, dir, marker, entry, staged, live, service, busy, handles,
                 leases, bounds>>

Read(c) ==
  /\ pc[c] = "read"
  /\ WorksOn(c, setting)
  /\ Goto(c, "open")
  /\ UNCHANGED <<disk, locks, window, work, bounds>>

\* open_configured: the service does not know its settings yet, so only the redirect
\* and the marker of the root can refuse it.  Entries over the budget go.
Opens(r) == dir[r] = "owned" /\ redirect[r] = None /\ ~marker[r]

Evicted(r) ==
  \E gone \in SUBSET Evictable(r) :
    /\ entry' = [entry EXCEPT ![r] = Without(r, gone)]
    /\ live' = IF r = setting THEN live \ gone ELSE live

Serve(w, r) ==
  /\ service' = [service EXCEPT ![w] = r]
  /\ handles' = [handles EXCEPT ![w] = @ \union {r}]

Open(c) ==
  /\ pc[c] = "open" /\ global[at[c]] = None
  /\ Return(c)
  /\ \/ Opens(at[c]) /\ NoFault /\ Evicted(at[c]) /\ Serve(c[1], at[c])
     \/ ~Opens(at[c]) /\ NoFault /\ UNCHANGED <<entry, live, service, handles>>
     \/ Fault /\ UNCHANGED <<entry, live, service, handles>>
  /\ UNCHANGED <<setting, journal, dir, redirect, marker, staged, busy, leases, moves,
                 crashes>>

\* The mover opens the selected root without recovery; it is bound under the mutex.
Reopen(w) ==
  LET m == Mover(w) IN
  /\ pc[m] = "reopen"
  /\ WorksOn(m, setting)
  /\ Goto(m, "install")
  /\ UNCHANGED <<disk, locks, window, work, bounds>>

Install(w) ==
  LET m == Mover(w) IN
  /\ pc[m] = "install" /\ global[at[m]] = None
  /\ \/ /\ Opens(at[m]) /\ NoFault /\ mutex[w] = None
        /\ Evicted(at[m]) /\ Serve(w, at[m])
     \/ ~Opens(at[m]) /\ NoFault /\ UNCHANGED <<entry, live, service, handles>>
     \/ Fault /\ UNCHANGED <<entry, live, service, handles>>
  /\ busy' = [busy EXCEPT ![w] = FALSE]
  /\ Goto(m, "idle") /\ WorksOn(m, Home)
  /\ UNCHANGED <<setting, journal, dir, redirect, marker, staged, locks, up, leases, work,
                 moves, crashes>>

-----------------------------------------------------------------------------
(* update_settings: the control lock, then the mutex, then the lock of the cache *)

BeginUpdate(c) ==
  /\ pc[c] = "idle" /\ up[c[1]] /\ ~busy[c[1]]
  /\ Goto(c, "update control")
  /\ UNCHANGED <<disk, locks, window, at, work, bounds>>

UpdateControl(c) ==
  /\ pc[c] = "update control" /\ control = None
  /\ control' = c /\ Goto(c, "update mutex")
  /\ UNCHANGED <<disk, global, mutex, window, at, work, bounds>>

\* Without a service, or with one of another root, the call ends here.
UpdateMutex(c) ==
  LET w == c[1] IN
  /\ pc[c] = "update mutex" /\ mutex[w] = None
  /\ IF service[w] = setting
     THEN mutex' = [mutex EXCEPT ![w] = c] /\ Goto(c, "update limit")
          /\ UNCHANGED <<control, global, work, up, at>>
     ELSE Return(c)
  /\ UNCHANGED <<disk, service, busy, handles, leases, bounds>>

UpdateLimit(c) ==
  LET r == service[c[1]] IN
  /\ pc[c] = "update limit" /\ global[r] = None
  /\ IF Usable(r) THEN Evicted(r) ELSE UNCHANGED <<entry, live>>
  /\ Return(c)
  /\ UNCHANGED <<setting, journal, dir, redirect, marker, staged, service, busy, handles,
                 leases, bounds>>

-----------------------------------------------------------------------------
\* The window ends without notice: its memory, its locks and its leases are gone.
Crash(w) ==
  LET gone(t) == t # None /\ t[1] = w
      Own == {w} \X (Callers \union {"mover"})
  IN
  /\ crashes < MaxCrashes /\ crashes' = crashes + 1
  /\ control' = IF gone(control) THEN None ELSE control
  /\ work' = IF gone(control) THEN NoWork ELSE work
  /\ global' = [r \in Roots |-> IF gone(global[r]) THEN None ELSE global[r]]
  /\ mutex' = [mutex EXCEPT ![w] = None] /\ service' = [service EXCEPT ![w] = None]
  /\ busy' = [busy EXCEPT ![w] = FALSE] /\ up' = [up EXCEPT ![w] = FALSE]
  /\ handles' = [handles EXCEPT ![w] = {}] /\ leases' = [leases EXCEPT ![w] = {}]
  /\ pc' = [t \in Threads |-> IF t \in Own THEN "idle" ELSE pc[t]]
  /\ at' = [t \in Threads |-> IF t \in Own THEN Home ELSE at[t]]
  /\ UNCHANGED <<disk, moves, faults>>

MoverNext(w) ==
  \/ Preview(w) \/ TakeControl(w) \/ Check(w) \/ CreateTarget(w) \/ OwnTarget(w)
  \/ LockTarget(w) \/ WriteJournal(w) \/ MarkSource(w) \/ MarkTarget(w) \/ Copy(w)
  \/ Copied(w) \/ Unredirect(w) \/ Redirect(w) \/ Commit(w) \/ Reopen(w) \/ Install(w)

SettleNext(t) ==
  \/ RollBack(t) \/ RolledBack(t) \/ UndoRedirect(t) \/ RestoreRedirect(t)
  \/ Verify(t) \/ Clean(t) \/ RemoveDirectory(t) \/ Cleaned(t) \/ Untag(t)
  \/ UnmarkOne(t) \/ UnmarkOther(t) \/ DropJournal(t)
  \/ Prune(t) \/ PruneOwner(t) \/ PruneDirectory(t)

CallNext(c) ==
  \/ TakeMutex(c) \/ Recover(c) \/ Inspect(c) \/ Read(c) \/ Open(c)
  \/ UpdateControl(c) \/ UpdateMutex(c) \/ UpdateLimit(c)

Next ==
  \/ \E w \in Windows : StartMove(w) \/ MoverNext(w) \/ Abandon(w) \/ Crash(w)
  \/ \E t \in Threads : SettleNext(t) \/ Fail(t) \/ CleanFails(t)
  \/ \E c \in Windows \X Callers : BeginQuery(c) \/ BeginUpdate(c) \/ CallNext(c)
  \/ \E w \in Windows, r \in Roots, k \in Keys :
       Lookup(w, r, k) \/ Release(w, r, k) \/ Publish(w, r, k)
  \/ \E w \in Windows, r \in Roots : Reclaim(w, r) \/ ClearInactive(w, r)

Spec == Init /\ [][Next]_vars

\* A thread that can go on does, and a lock that is freed again and again is not kept
\* from a thread that waits for it.  Nothing else need happen: files need not fail,
\* windows need not end and nobody need use the cache.
Fairness ==
  /\ \A w \in Windows : SF_vars(MoverNext(w))
  /\ \A t \in Threads : WF_vars(SettleNext(t))
  /\ \A c \in Windows \X Callers : SF_vars(CallNext(c))

FairSpec == Spec /\ Fairness

-----------------------------------------------------------------------------
(* Properties *)

\* Whatever is interrupted, cancelled or refused, and whenever: every entry of the
\* cache is whole in the root that the saved settings name.
CacheFollowsSetting == \A k \in live : entry[setting][k].files = "whole"

\* An entry somebody reads is neither deleted nor moved away, by this window or another.
LeasedWhole ==
  \A w \in Windows : \A l \in leases[w] : entry[l[1]][l[2]].files = "whole"

\* What a move marks to keep others out never outlives its journal, and the root that
\* the settings name can be opened again once there is no journal.
SelectedOpens ==
  journal = None =>
    /\ dir[setting] = "owned" /\ redirect[setting] = None
    /\ \A r \in Roots : ~marker[r] /\ (\A k \in Keys : ~entry[r][k].tag)
    /\ \A k \in Keys : staged[k] = NoEntry

\* Every command returns and every move ends, however the windows interleave.
CallsReturn == \A t \in Threads : pc[t] # "idle" ~> pc[t] = "idle"

=============================================================================
