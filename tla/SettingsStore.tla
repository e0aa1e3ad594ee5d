----------------------------- MODULE SettingsStore -----------------------------
(***************************************************************************)
(* The settings file of the application (src-tauri/src/storage/settings.rs)*)
(*                                                                         *)
(* A save writes a temporary file, moves settings.json away to a backup,   *)
(* moves the temporary file to settings.json and removes the backup.  A    *)
(* load that finds no settings.json takes a save for interrupted and moves *)
(* the newest backup back; one that cannot read or parse settings.json     *)
(* quarantines it and saves the defaults.  The callers are the threads     *)
(* that use the store: update_settings and the cache migration save under  *)
(* the lock of lock_csv_cache_control, everyone loads without any lock.    *)
(* Every file operation is one action and the process may end after any.   *)
(*                                                                         *)
(* A file is named by the save that made its name (unique_path) and holds  *)
(* the text of one write; a rename moves it.  The numbers of the writes    *)
(* are also their modification times, which a rename keeps.                *)
(***************************************************************************)
EXTENDS Integers, FiniteSets, FiniteSetsExt

CONSTANTS
  Callers,             \* threads that load and save
  None,                \* no file, no caller
  MaxWrites,           \* bound on the files ever written
  MaxLoads,            \* bound on the loads begun
  MaxCrashes,          \* bound on the ends of the process
  MaxFaults            \* bound on the file operations of a save that fail although
                       \* their files are there

ASSUME SettingsAssumption ==
  /\ None \notin Callers \union (0..MaxWrites)
  /\ MaxWrites \in Nat \ {0} /\ MaxLoads \in Nat
  /\ MaxCrashes \in Nat /\ MaxFaults \in Nat

VARIABLES
  file,                \* what settings.json holds, or None
  temporaries,         \* the settings.tmp-* files, by name and content
  previous,            \* the settings.previous-* files: name -> content or None
  corrupt,             \* contents of the settings.corrupt-* files
  content,             \* the text of each write
  next,                \* number of the next write
  saving,              \* the caller that holds lock_csv_cache_control, or None
  pc, local,           \* control point and locals of each caller
  durable, attempted,  \* the settings a user relies on; those of a save that
                       \* has neither returned nor been lost
  loads, crashes, faults

files == <<file, temporaries, previous, corrupt>>
writes == <<content, next>>
user == <<durable, attempted>>
bounds == <<loads, crashes, faults>>
vars == <<files, writes, saving, pc, local, user, bounds>>

Writes == 1..MaxWrites
Default == 0           \* AppSettingsV1::default()

\* The settings of a write are its number, or those it migrates or restores;
\* "old" is the wire format of an earlier version; a "broken" file has no format
\* or cannot be read.
Contents == [settings : 0..MaxWrites, form : {"current", "old", "broken"}]

\* op and value are the command; write is the number of its save; backup is the
\* file that restore_interrupted_save chose and stale the temporaries it saw;
\* then is what a load that saves does afterwards; result is what the caller gets.
Locals == [op : {"none", "load", "update"}, value : 0..MaxWrites,
           write : 0..MaxWrites, backup : 0..MaxWrites, stale : SUBSET Writes,
           then : {"none", "return", "invalid"},
           result : {"none", "Ok", "Invalid", "Io"}]

NoLocals == [op |-> "none", value |-> Default, write |-> 0, backup |-> 0,
             stale |-> {}, then |-> "none", result |-> "none"]

TypeOK ==
  /\ file \in Writes \union {None}
  /\ temporaries \in SUBSET Writes /\ corrupt \in SUBSET Writes
  /\ previous \in [Writes -> Writes \union {None}]
  /\ content \in [Writes -> Contents]
  /\ next \in 1..(MaxWrites + 1)
  /\ saving \in Callers \union {None}
  /\ pc \in [Callers -> {"idle", "load", "restore", "rename backup", "clean", "read",
                         "quarantine", "write", "look", "back up", "publish",
                         "publish new", "undo", "remove backup", "done"}]
  /\ local \in [Callers -> Locals]
  /\ durable \in 0..MaxWrites /\ attempted \in SUBSET Writes
  /\ loads \in 0..MaxLoads /\ crashes \in 0..MaxCrashes
  /\ faults \in 0..MaxFaults

\* The application starts with no settings, with those of this or of an earlier
\* version, or with a file somebody has damaged.
Init ==
  /\ \E form \in {"current", "old", "broken"} :
       content = [w \in Writes |-> [settings |-> w, form |-> form]]
  /\ file \in {None, 1}
  /\ temporaries = {} /\ corrupt = {}
  /\ previous = [w \in Writes |-> None]
  /\ next = 2
  /\ saving = None
  /\ pc = [c \in Callers |-> "idle"]
  /\ local = [c \in Callers |-> NoLocals]
  /\ durable = IF file = 1 /\ content[1].form # "broken" THEN 1 ELSE Default
  /\ attempted = {}
  /\ loads = 0 /\ crashes = 0 /\ faults = 0

-----------------------------------------------------------------------------
Goto(c, point) == pc' = [pc EXCEPT ![c] = point]

Fault == faults < MaxFaults /\ faults' = faults + 1

Return(c, result) ==
  /\ Goto(c, "done")
  /\ local' = [local EXCEPT ![c].result = result]

\* The load of the settings has ended: the command, or the first part of
\* update_settings, which goes on with the settings it was called with.
LoadEnds(c, result, value) ==
  IF local[c].op = "load" \/ result = "Io"
  THEN /\ Goto(c, "done")
       /\ local' = [local EXCEPT ![c].result = result, ![c].value = value]
  ELSE Goto(c, "write") /\ local' = [local EXCEPT ![c].then = "none"]

\* The save of a migration or of the defaults belongs to a load.
SaveEnds(c) ==
  CASE local[c].then = "none" -> Return(c, "Ok")
    [] local[c].then = "return" -> LoadEnds(c, "Ok", local[c].value)
    [] local[c].then = "invalid" -> LoadEnds(c, "Invalid", Default)

-----------------------------------------------------------------------------
(* Commands *)

Load(c) ==
  /\ pc[c] = "idle" /\ loads < MaxLoads
  /\ loads' = loads + 1
  /\ local' = [local EXCEPT ![c] = [NoLocals EXCEPT !.op = "load"]]
  /\ Goto(c, "load")
  /\ UNCHANGED <<files, writes, saving, user, crashes, faults>>

\* update_settings and the commit of a cache migration: load, then save.
Update(c) ==
  /\ pc[c] = "idle" /\ saving = None /\ next <= MaxWrites
  /\ saving' = c
  /\ local' = [local EXCEPT ![c] = [NoLocals EXCEPT !.op = "update"]]
  /\ Goto(c, "load")
  /\ UNCHANGED <<files, writes, user, bounds>>

\* The caller has its answer.  A load during a save of another thread may return
\* the settings before or after it; any other load settles an interrupted save.
Answered(c) ==
  LET done == local[c] IN
  /\ pc[c] = "done"
  /\ IF done.result = "Io"
     THEN attempted' = attempted \ {done.write} /\ UNCHANGED durable
     ELSE IF saving \notin {None, c} THEN UNCHANGED user
     ELSE /\ durable' = IF done.op = "update" THEN done.write
                        ELSE IF done.value \in attempted THEN done.value
                        ELSE durable
          /\ attempted' = {}
  /\ saving' = IF done.op = "update" THEN None ELSE saving
  /\ local' = [local EXCEPT ![c] = NoLocals]
  /\ Goto(c, "idle")
  /\ UNCHANGED <<files, writes, bounds>>

\* The process ends; the files stay.
Crash ==
  /\ crashes < MaxCrashes /\ \E c \in Callers : pc[c] # "idle"
  /\ crashes' = crashes + 1
  /\ pc' = [c \in Callers |-> "idle"]
  /\ local' = [c \in Callers |-> NoLocals]
  /\ saving' = None
  /\ UNCHANGED <<files, writes, user, loads, faults>>

-----------------------------------------------------------------------------
(* load *)

Exists(c) ==
  /\ pc[c] = "load"
  /\ Goto(c, IF file = None THEN "restore" ELSE "read")
  /\ UNCHANGED <<files, writes, saving, local, user, bounds>>

Backups == {b \in Writes : previous[b] # None}

AnyBackup(b) == TRUE  \* fault: the first backup found

\* The backup with the latest modification time; a rename keeps that time.
Newest(b) == \A other \in Backups : previous[other] <= previous[b]

\* restore_interrupted_save reads the directory.
ReadDirectory(c) ==
  /\ pc[c] = "restore"
  /\ IF Backups = {} THEN LoadEnds(c, "Ok", Default)
     ELSE \E b \in Backups :
            /\ Newest(b)
            /\ local' = [local EXCEPT ![c].backup = b, ![c].stale = temporaries]
            /\ Goto(c, "rename backup")
  /\ UNCHANGED <<files, writes, saving, user, bounds>>

\* A rename replaces what is there.
RestoreBackup(c) ==
  LET b == local[c].backup IN
  /\ pc[c] = "rename backup"
  /\ IF previous[b] = None
     THEN LoadEnds(c, "Io", Default) /\ UNCHANGED files
     ELSE /\ file' = previous[b]
          /\ previous' = [previous EXCEPT ![b] = None]
          /\ Goto(c, "clean")
          /\ UNCHANGED <<temporaries, corrupt, local>>
  /\ UNCHANGED <<writes, saving, user, bounds>>

RemoveStale(c) ==
  /\ pc[c] = "clean"
  /\ temporaries' = temporaries \ local[c].stale
  /\ Goto(c, "read")
  /\ UNCHANGED <<file, previous, corrupt, writes, saving, local, user, bounds>>

Invalid(f) == content[f].form = "broken"

\* The file is read and parsed: settings of an earlier version are migrated and
\* saved, anything else is invalid.
Read(c) ==
  /\ pc[c] = "read"
  /\ IF file = None THEN Goto(c, "quarantine") /\ UNCHANGED local
     ELSE IF Invalid(file) THEN Goto(c, "quarantine") /\ UNCHANGED local
     ELSE IF content[file].form = "old"
     THEN /\ Goto(c, "write")
          /\ local' = [local EXCEPT ![c].then = "return",
                                    ![c].value = content[file].settings]
     ELSE LoadEnds(c, "Ok", content[file].settings)
  /\ UNCHANGED <<files, writes, saving, user, bounds>>

\* recover_invalid and preserve_corrupt: whatever settings.json is now is kept
\* aside and the defaults are saved.
Quarantine(c) ==
  /\ pc[c] = "quarantine"
  /\ IF file = None
     THEN LoadEnds(c, "Io", Default) /\ UNCHANGED <<file, corrupt>>
     ELSE /\ corrupt' = corrupt \union {file} /\ file' = None
          /\ Goto(c, "write")
          /\ local' = [local EXCEPT ![c].then = "invalid", ![c].value = Default]
  /\ UNCHANGED <<temporaries, previous, writes, saving, user, bounds>>

-----------------------------------------------------------------------------
(* save *)

\* fault: the number of the settings is taken after the write
NextSettings(c) == IF local[c].then = "none" THEN next + 1 ELSE local[c].value

\* The settings a save writes: new ones, named by the write, or those of a load.
Settings(c) == IF local[c].then = "none" THEN next ELSE local[c].value

\* The temporary file is written and synced, or nothing is left of it; the checks
\* of update_settings between its load and its save may also end it here.
WriteTemporary(c) ==
  /\ pc[c] = "write" /\ next <= MaxWrites
  /\ \/ /\ content' = [content EXCEPT ![next] = [settings |-> Settings(c),
                                                 form |-> "current"]]
        /\ temporaries' = temporaries \union {next}
        /\ local' = [local EXCEPT ![c].write = next]
        /\ attempted' = IF local[c].then = "none" THEN attempted \union {next}
                        ELSE attempted
        /\ next' = next + 1
        /\ Goto(c, "look")
        /\ UNCHANGED faults
     \/ /\ Fault /\ Return(c, "Io")
        /\ UNCHANGED <<writes, temporaries, attempted>>
  /\ UNCHANGED <<file, previous, corrupt, saving, durable, loads, crashes>>

LookForFile(c) ==
  /\ pc[c] = "look"
  /\ Goto(c, IF file = None THEN "publish new" ELSE "back up")
  /\ UNCHANGED <<files, writes, saving, local, user, bounds>>

\* A save that cannot move the file away fails and leaves its temporary file.
BackUp(c) ==
  /\ pc[c] = "back up"
  /\ \/ /\ file # None
        /\ previous' = [previous EXCEPT ![local[c].write] = file]
        /\ file' = None
        /\ Goto(c, "publish")
        /\ UNCHANGED <<temporaries, corrupt, local, faults>>
     \/ /\ IF file # None THEN Fault ELSE UNCHANGED faults
        /\ Return(c, "Io")
        /\ UNCHANGED files
  /\ UNCHANGED <<writes, saving, user, loads, crashes>>

Publish(c) ==
  LET w == local[c].write IN
  /\ pc[c] = "publish"
  /\ \/ /\ w \in temporaries
        /\ file' = w /\ temporaries' = temporaries \ {w}
        /\ Goto(c, "remove backup")
        /\ UNCHANGED faults
     \/ /\ IF w \in temporaries THEN Fault ELSE UNCHANGED faults
        /\ Goto(c, "undo")
        /\ UNCHANGED <<file, temporaries>>
  /\ UNCHANGED <<previous, corrupt, writes, saving, local, user, loads, crashes>>

\* The backup goes back, unless that fails as well, and the temporary file goes.
Undo(c) ==
  LET w == local[c].write IN
  /\ pc[c] = "undo"
  /\ \/ /\ previous[w] # None
        /\ file' = previous[w] /\ previous' = [previous EXCEPT ![w] = None]
        /\ UNCHANGED faults
     \/ /\ IF previous[w] # None THEN Fault ELSE UNCHANGED faults
        /\ UNCHANGED <<file, previous>>
  /\ temporaries' = temporaries \ {w}
  /\ Return(c, "Io")
  /\ UNCHANGED <<corrupt, writes, saving, user, loads, crashes>>

\* A backup that cannot be removed stays.
RemoveBackup(c) ==
  /\ pc[c] = "remove backup"
  /\ \/ previous' = [previous EXCEPT ![local[c].write] = None] /\ UNCHANGED faults
     \/ Fault /\ UNCHANGED previous
  /\ SaveEnds(c)
  /\ UNCHANGED <<file, temporaries, corrupt, writes, saving, user, loads, crashes>>

\* The first save of all, or one after a quarantine.
PublishNew(c) ==
  LET w == local[c].write IN
  /\ pc[c] = "publish new"
  /\ \/ /\ w \in temporaries
        /\ file' = w /\ temporaries' = temporaries \ {w}
        /\ SaveEnds(c)
        /\ UNCHANGED faults
     \/ /\ IF w \in temporaries THEN Fault ELSE UNCHANGED faults
        /\ Return(c, "Io")
        /\ UNCHANGED <<file, temporaries>>
  /\ UNCHANGED <<previous, corrupt, writes, saving, user, loads, crashes>>

-----------------------------------------------------------------------------
Step(c) ==
  \/ Exists(c) \/ ReadDirectory(c) \/ RestoreBackup(c) \/ RemoveStale(c)
  \/ Read(c) \/ Quarantine(c)
  \/ WriteTemporary(c) \/ LookForFile(c) \/ BackUp(c) \/ Publish(c)
  \/ Undo(c) \/ RemoveBackup(c) \/ PublishNew(c)

Next == Crash \/ \E c \in Callers : Load(c) \/ Update(c) \/ Answered(c) \/ Step(c)

Spec == Init /\ [][Next]_vars

-----------------------------------------------------------------------------
(* Properties *)

\* A load returns the settings of the last save that succeeded or, if the
\* process ended during a later one, of that one; an earlier generation never
\* comes back, whichever backups crashes have left (save, restore_interrupted_save).
LoadReturnsSaved ==
  \A c \in Callers :
    pc[c] = "done" /\ local[c].op = "load" /\ local[c].result = "Ok"
      => local[c].value \in attempted \union {durable}

\* When nobody uses the store, and no process has ended, no file operation has
\* failed and no file was damaged or old, settings.json holds what the last
\* successful save returned: the "atomic" settings of docs/DEVELOPMENT_PLAN.md.
SavedSettingsStay ==
  /\ crashes = 0 /\ faults = 0 /\ \A w \in Writes : content[w].form = "current"
  /\ durable # Default /\ \A c \in Callers : pc[c] = "idle"
  => file # None /\ content[file].settings = durable

\* The control points of a save that has written its file.
Publishing == {"look", "back up", "publish", "publish new", "undo", "remove backup"}

\* A caller that restores has a backup to restore, one that publishes a file to publish.
FilesNamed ==
  \A c \in Callers :
    /\ pc[c] = "rename backup" => local[c].backup \in Writes
    /\ pc[c] \in Publishing => local[c].write \in Writes

-----------------------------------------------------------------------------
(* The inductive invariant behind LoadReturnsSaved (StorageProofs), for one *)
(* caller: what a load finds is one of the settings it may return.          *)

SettingsOf(f) == IF Invalid(f) THEN Default ELSE content[f].settings

\* The settings a load would find: those of settings.json, of the newest backup when
\* there is none, or the defaults.
Found(v) ==
  \/ file # None /\ v = SettingsOf(file)
  \/ file = None /\ Backups = {} /\ v = Default
  \/ file = None /\ \E b \in Backups : Newest(b) /\ v = SettingsOf(previous[b])

Returnable == attempted \union {durable}

\* A backup is older than settings.json and than every other file backed up later, and
\* only the first file may be damaged.
FilesOrdered ==
  /\ file # None => /\ file < next
                    /\ file # 1 => content[file].form = "current"
                    /\ content[file].settings <= file
                    /\ \A b \in Backups : previous[b] < file
  /\ \A b \in Backups : /\ previous[b] < next
                        /\ ~Invalid(previous[b])
                        /\ previous[b] # 1 => content[previous[b]].form = "current"
                        /\ content[previous[b]].settings <= previous[b]
  /\ \A a, b \in Backups : previous[a] = previous[b] => a = b
  /\ \A w \in attempted : w < next
  /\ \A v \in 0..MaxWrites : Found(v) => v \in Returnable

\* The save of a migration or of the defaults writes what the load has found.
SaveAgrees(l) ==
  /\ l.then = "none" => l.op = "update"
  /\ l.then # "none" => l.value \in Returnable /\ l.value < next
  /\ l.then = "invalid" => l.value = Default

\* The file that a save has written: nobody has a newer one.
WrittenAgrees(l) ==
  /\ l.write + 1 = next
  /\ content[l.write] = [settings |-> IF l.then = "none" THEN l.write ELSE l.value,
                         form |-> "current"]
  /\ l.then = "none" <=> l.write \in attempted

\* An answer is what a load would find now; after an error it is not what was to be
\* written.
AnswerAgrees(l) ==
  /\ l.result \in {"Ok", "Invalid", "Io"}
  /\ \A v \in 0..MaxWrites : Found(v) =>
       /\ l.result = "Ok" => v = IF l.op = "update" THEN l.write ELSE l.value
       /\ l.result = "Invalid" => v = Default
       /\ l.result = "Io" => (v # l.write \/ l.write \notin attempted)
  /\ l.result = "Ok" /\ l.op = "load" => l.value \in Returnable
  /\ l.result = "Invalid" => l.op = "load" /\ l.value = Default /\ Default \in Returnable

\* What a caller with locals l at a control point has found out of the files and what
\* still holds.
PointAgrees(point, l) ==
  /\ l.write < next
  /\ point # "idle" => l.op \in {"load", "update"}
  /\ point \in {"load", "restore", "rename backup", "clean", "read", "quarantine", "write"} =>
       l.write \notin attempted
  /\ point = "restore" => file = None
  /\ point = "rename backup" => file = None /\ l.backup \in Backups /\ Newest(l.backup)
  /\ point \in {"clean", "read"} => file # None
  /\ point = "quarantine" => file # None /\ Invalid(file)
  /\ point \in {"write", "look"} => IF file = None THEN Backups = {} ELSE ~Invalid(file)
  /\ point \in {"write"} \union Publishing => SaveAgrees(l)
  /\ point \in Publishing => WrittenAgrees(l)
  /\ point \in {"look", "back up"} /\ file # None => file < l.write
  /\ point = "back up" => file # None /\ ~Invalid(file)
  /\ point \in {"publish", "undo"} => file = None /\ l.write \in Backups /\ Newest(l.write)
  /\ point \in {"publish", "publish new", "undo"} => \A b \in Backups : previous[b] < l.write
  /\ point = "publish new" => file = None /\ Backups = {}
  /\ point = "remove backup" => file = l.write
  /\ point = "done" => AnswerAgrees(l)

LoadInvariant ==
  /\ TypeOK /\ FilesNamed /\ FilesOrdered
  /\ \A c \in Callers : PointAgrees(pc[c], local[c])

===============================================================================
