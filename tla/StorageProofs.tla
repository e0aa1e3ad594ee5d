----------------------------- MODULE StorageProofs -----------------------------
(***************************************************************************)
(* The theorems about the storage of the application: the settings file,    *)
(* the directories of query temporary storage of all processes, and the     *)
(* reservations of that storage in one process.                             *)
(*                                                                          *)
(* For the settings file the argument is LoadInvariant: whatever a load     *)
(* would find now (settings.json, or the newest backup, or the defaults) is *)
(* one of the settings it may return, and the backups and settings.json are *)
(* ordered by the writes that made them, so that a rename which puts a file *)
(* back or away leaves what a load would find.                              *)
(***************************************************************************)
EXTENDS SettingsStore, FiniteSetTheorems, TLAPS

-----------------------------------------------------------------------------
(* SettingsStore *)

\* The control points of a caller.
Points == {"idle", "load", "restore", "rename backup", "clean", "read", "quarantine",
           "write", "look", "back up", "publish", "publish new", "undo",
           "remove backup", "done"}

\* A caller goes to a control point with new locals.
Moves(c, point, l) ==
  /\ pc' = [pc EXCEPT ![c] = point]
  /\ local' = [local EXCEPT ![c] = l]

-----------------------------------------------------------------------------
(* Locals *)

\* The defaults are settings; so is what a write is named by.
LEMMA DefaultTyped == Default \in 0..MaxWrites /\ Writes \subseteq 0..MaxWrites
BY SettingsAssumption DEF Default, Writes

\* The locals of a command that begins.
LEMMA NoLocalsTyped ==
  /\ NoLocals \in Locals
  /\ \A op \in {"none", "load", "update"} : [NoLocals EXCEPT !.op = op] \in Locals
<1>1. NoLocals \in Locals
  <2>1. 0 \in 0..MaxWrites /\ Default = 0 /\ {} \in SUBSET Writes
    BY DefaultTyped DEF Default
  <2>2. QED
    BY <2>1 DEF Locals, NoLocals
<1>2. ASSUME NEW l \in Locals, NEW op \in {"none", "load", "update"}
      PROVE  [l EXCEPT !.op = op] \in Locals
  BY DEF Locals
<1>3. QED
  BY <1>1, <1>2

\* The locals with a result.
LEMMA ResultTyped ==
  ASSUME NEW l \in Locals, NEW r \in {"none", "Ok", "Invalid", "Io"}
  PROVE  /\ [l EXCEPT !.result = r] \in Locals
         /\ \A v \in 0..MaxWrites : [l EXCEPT !.result = r, !.value = v] \in Locals
BY DEF Locals

\* The locals of a load that goes on to a save.
LEMMA ThenTyped ==
  ASSUME NEW l \in Locals, NEW t \in {"none", "return", "invalid"}
  PROVE  /\ [l EXCEPT !.then = t] \in Locals
         /\ \A v \in 0..MaxWrites : [l EXCEPT !.then = t, !.value = v] \in Locals
BY DEF Locals

\* The locals of a save that has written its file.
LEMMA WriteTyped ==
  ASSUME NEW l \in Locals, NEW w \in Writes
  PROVE  [l EXCEPT !.write = w] \in Locals
BY DefaultTyped DEF Locals

\* The locals of a load that has chosen a backup.
LEMMA BackupTyped ==
  ASSUME NEW l \in Locals, NEW b \in Writes, NEW ts \in SUBSET Writes
  PROVE  [l EXCEPT !.backup = b, !.stale = ts] \in Locals
BY DefaultTyped DEF Locals

\* A load that ends returns its result, or lets the save of its update begin.
LEMMA LoadEndsTo ==
  ASSUME local \in [Callers -> Locals], NEW c \in Callers, NEW result, NEW value,
         LoadEnds(c, result, value)
  PROVE  \/ /\ local[c].op = "load" \/ result = "Io"
            /\ Moves(c, "done", [local[c] EXCEPT !.result = result, !.value = value])
         \/ /\ local[c].op # "load" /\ result # "Io"
            /\ Moves(c, "write", [local[c] EXCEPT !.then = "none"])
BY DEF LoadEnds, Goto, Moves

\* A command that returns is done.
LEMMA ReturnsTo ==
  ASSUME local \in [Callers -> Locals], NEW c \in Callers, NEW result, Return(c, result)
  PROVE  Moves(c, "done", [local[c] EXCEPT !.result = result])
BY DEF Return, Goto, Moves

\* A save that ends returns Ok, or lets its load end.
LEMMA SaveEndsTo ==
  ASSUME local \in [Callers -> Locals], NEW c \in Callers, SaveEnds(c)
  PROVE  \/ local[c].then = "none" /\ Return(c, "Ok")
         \/ local[c].then = "return" /\ LoadEnds(c, "Ok", local[c].value)
         \/ local[c].then = "invalid" /\ LoadEnds(c, "Invalid", Default)
<1>1. local[c].then \in {"none", "return", "invalid"}
  BY DEF Locals
<1>2. QED
  BY <1>1 DEF SaveEnds

-----------------------------------------------------------------------------
(* Types *)

\* The types need the names of the files: a step reads previous at the name in its locals.
TypeInvariant == TypeOK /\ FilesNamed

\* What a caller may have at a control point.
Fits(point, l) ==
  /\ point \in Points /\ l \in Locals
  /\ point = "rename backup" => l.backup \in Writes
  /\ point \in Publishing => l.write \in Writes

\* A caller that moves to a point it fits leaves the others alone.
LEMMA MovesTyped ==
  ASSUME TypeInvariant, NEW c \in Callers, NEW point, NEW l, Moves(c, point, l), Fits(point, l)
  PROVE  /\ pc' \in [Callers -> Points] /\ local' \in [Callers -> Locals]
         /\ FilesNamed'
<1>1. pc \in [Callers -> Points] /\ local \in [Callers -> Locals]
  BY DEF TypeInvariant, TypeOK, Points
<1>2. /\ pc'[c] = point /\ local'[c] = l
      /\ \A d \in Callers : d # c => pc'[d] = pc[d] /\ local'[d] = local[d]
  BY <1>1 DEF Moves
<1>3. FilesNamed'
  BY <1>2 DEF TypeInvariant, FilesNamed, Fits
<1>4. QED
  BY <1>1, <1>3 DEF Moves, Fits

\* The end of a load keeps the types.
LEMMA LoadEndsTyped ==
  ASSUME TypeInvariant, NEW c \in Callers, NEW result \in {"Ok", "Invalid", "Io"},
         NEW value \in 0..MaxWrites, LoadEnds(c, result, value)
  PROVE  \E point, l : Moves(c, point, l) /\ Fits(point, l)
<1>1. local \in [Callers -> Locals] /\ local[c] \in Locals
  BY DEF TypeInvariant, TypeOK
<1>2. CASE Moves(c, "done", [local[c] EXCEPT !.result = result, !.value = value])
  <2>1. PICK l : l = [local[c] EXCEPT !.result = result, !.value = value]
    OBVIOUS
  <2>2. Fits("done", l)
    BY <1>1, <2>1, ResultTyped DEF Fits, Points, Publishing
  <2>3. QED
    BY <1>2, <2>1, <2>2
<1>3. CASE Moves(c, "write", [local[c] EXCEPT !.then = "none"])
  <2>1. PICK l : l = [local[c] EXCEPT !.then = "none"]
    OBVIOUS
  <2>2. Fits("write", l)
    BY <1>1, <2>1, ThenTyped DEF Fits, Points, Publishing
  <2>3. QED
    BY <1>3, <2>1, <2>2
<1>4. QED
  BY <1>1, <1>2, <1>3, LoadEndsTo

\* So does the end of a save that fails.
LEMMA ReturnTyped ==
  ASSUME TypeInvariant, NEW c \in Callers, NEW result \in {"Ok", "Invalid", "Io"},
         Return(c, result)
  PROVE  \E point, l : Moves(c, point, l) /\ Fits(point, l)
<1>1. local \in [Callers -> Locals] /\ local[c] \in Locals
  BY DEF TypeInvariant, TypeOK
<1>2. PICK l : l = [local[c] EXCEPT !.result = result]
  OBVIOUS
<1>3. Fits("done", l)
  BY <1>1, <1>2, ResultTyped DEF Fits, Points, Publishing
<1>4. QED
  BY <1>1, <1>2, <1>3, ReturnsTo

\* So does the end of a save.
LEMMA SaveEndsTyped ==
  ASSUME TypeInvariant, NEW c \in Callers, SaveEnds(c)
  PROVE  \E point, l : Moves(c, point, l) /\ Fits(point, l)
<1>1. local \in [Callers -> Locals] /\ local[c].value \in 0..MaxWrites
  BY DEF TypeInvariant, TypeOK, Locals
<1>2. QED
  BY <1>1, DefaultTyped, SaveEndsTo, LoadEndsTyped, ReturnTyped

\* A step of a caller that only goes on.
LEMMA GoesOn ==
  ASSUME TypeInvariant, NEW c \in Callers, NEW point \in Points, Goto(c, point),
         UNCHANGED local, pc[c] \in Publishing \/ point \notin Publishing,
         point # "rename backup"
  PROVE  \E l : Moves(c, point, l) /\ Fits(point, l)
<1>1. local \in [Callers -> Locals] /\ local[c] \in Locals
  BY DEF TypeInvariant, TypeOK
<1>2. Moves(c, point, local[c])
  BY <1>1 DEF Goto, Moves
<1>3. Fits(point, local[c])
  BY <1>1 DEF Fits, TypeInvariant, FilesNamed
<1>4. QED
  BY <1>2, <1>3

\* The types of all but the locals.
StoreTyped ==
  /\ file \in Writes \union {None}
  /\ temporaries \in SUBSET Writes /\ corrupt \in SUBSET Writes
  /\ previous \in [Writes -> Writes \union {None}]
  /\ content \in [Writes -> Contents]
  /\ next \in 1..(MaxWrites + 1)
  /\ saving \in Callers \union {None}
  /\ durable \in 0..MaxWrites /\ attempted \in SUBSET Writes
  /\ loads \in 0..MaxLoads /\ crashes \in 0..MaxCrashes
  /\ faults \in 0..MaxFaults

\* The types of the store and those of the callers.
LEMMA TypesSplit ==
  TypeInvariant <=> /\ StoreTyped /\ FilesNamed
                    /\ pc \in [Callers -> Points] /\ local \in [Callers -> Locals]
BY DEF TypeInvariant, StoreTyped, TypeOK, Points

\* A step of one caller keeps the types when it keeps those of the store.
LEMMA StepTyped ==
  ASSUME TypeInvariant, NEW c \in Callers, StoreTyped',
         \E point, l : Moves(c, point, l) /\ Fits(point, l)
  PROVE  TypeInvariant'
<1>1. /\ pc' \in [Callers -> Points] /\ local' \in [Callers -> Locals]
      /\ FilesNamed'
  BY MovesTyped
<1>2. QED
  BY <1>1 DEF TypeInvariant, StoreTyped, TypeOK, Points

\* The commands begin and are answered, and the process ends.
LEMMA CommandsTyped ==
  ASSUME TypeInvariant, Crash \/ \E c \in Callers : Load(c) \/ Update(c) \/ Answered(c)
  PROVE  TypeInvariant'
<1>1. StoreTyped /\ pc \in [Callers -> Points] /\ local \in [Callers -> Locals]
  BY TypesSplit
<1>2. CASE Crash
  <2>1. StoreTyped'
    BY <1>1, <1>2, SettingsAssumption DEF Crash, StoreTyped, files, writes, user
  <2>2. pc' \in [Callers -> Points] /\ local' \in [Callers -> Locals] /\ FilesNamed'
    BY <1>2, NoLocalsTyped DEF Crash, Points, FilesNamed, Publishing
  <2>3. QED
    BY <2>1, <2>2 DEF TypeInvariant, StoreTyped, TypeOK, Points
<1>3. ASSUME NEW c \in Callers, NEW op \in {"none", "load", "update"}, NEW point \in {"idle", "load"},
             Moves(c, point, [NoLocals EXCEPT !.op = op]), StoreTyped'
      PROVE  TypeInvariant'
  <2>1. PICK l : l = [NoLocals EXCEPT !.op = op]
    OBVIOUS
  <2>2. Fits(point, l)
    BY <2>1, NoLocalsTyped DEF Fits, Points, Publishing
  <2>3. QED
    BY <1>3, <2>1, <2>2, StepTyped
<1>4. ASSUME NEW c \in Callers, Load(c)
      PROVE  TypeInvariant'
  <2>1. StoreTyped'
    BY <1>1, <1>4, SettingsAssumption DEF Load, StoreTyped, files, writes, user
  <2>2. Moves(c, "load", [NoLocals EXCEPT !.op = "load"])
    BY <1>4 DEF Load, Goto, Moves
  <2>3. QED
    BY <1>3, <2>1, <2>2
<1>5. ASSUME NEW c \in Callers, Update(c)
      PROVE  TypeInvariant'
  <2>1. StoreTyped'
    BY <1>1, <1>5 DEF Update, StoreTyped, files, writes, user, bounds
  <2>2. Moves(c, "load", [NoLocals EXCEPT !.op = "update"])
    BY <1>5 DEF Update, Goto, Moves
  <2>3. QED
    BY <1>3, <2>1, <2>2
<1>6. ASSUME NEW c \in Callers, Answered(c)
      PROVE  TypeInvariant'
  <2>1. local[c].write \in 0..MaxWrites /\ local[c].value \in 0..MaxWrites
    BY <1>1 DEF Locals
  <2>2. durable' \in 0..MaxWrites /\ attempted' \in SUBSET Writes
    BY <1>1, <1>6, <2>1 DEF Answered, StoreTyped, user
  <2>3. saving' \in Callers \union {None}
    BY <1>1, <1>6 DEF Answered, StoreTyped
  <2>4. StoreTyped'
    BY <1>1, <1>6, <2>2, <2>3 DEF Answered, StoreTyped, files, writes, bounds
  <2>5. Moves(c, "idle", NoLocals)
    BY <1>6 DEF Answered, Goto, Moves
  <2>6. Fits("idle", NoLocals)
    BY NoLocalsTyped DEF Fits, Points, Publishing
  <2>7. QED
    BY <2>4, <2>5, <2>6, StepTyped
<1>7. QED
  BY <1>2, <1>4, <1>5, <1>6

\* The steps of a load.
LEMMA LoadTyped ==
  ASSUME TypeInvariant, NEW c \in Callers,
         \/ Exists(c) \/ ReadDirectory(c) \/ RestoreBackup(c) \/ RemoveStale(c)
         \/ Read(c) \/ Quarantine(c)
  PROVE  TypeInvariant'
<1>1. /\ StoreTyped /\ pc \in [Callers -> Points] /\ local \in [Callers -> Locals]
      /\ local[c] \in Locals
  BY TypesSplit
<1>2. CASE Exists(c)
  <2>1. \E point \in {"restore", "read"} : Goto(c, point)
    BY <1>2 DEF Exists
  <2>2. UNCHANGED local /\ StoreTyped'
    BY <1>1, <1>2 DEF Exists, StoreTyped, files, writes, user, bounds
  <2>3. QED
    BY <2>1, <2>2, GoesOn, StepTyped DEF Points, Publishing
<1>3. CASE ReadDirectory(c)
  <2>1. StoreTyped'
    BY <1>1, <1>3 DEF ReadDirectory, StoreTyped, files, writes, user, bounds
  <2>2. CASE LoadEnds(c, "Ok", Default)
    BY <2>1, <2>2, DefaultTyped, LoadEndsTyped, StepTyped
  <2>3. ASSUME NEW b \in Backups,
               local' = [local EXCEPT ![c].backup = b, ![c].stale = temporaries],
               Goto(c, "rename backup")
        PROVE  TypeInvariant'
    <3>1. b \in Writes /\ temporaries \in SUBSET Writes
      BY <1>1 DEF Backups, StoreTyped
    <3>2. PICK l : l = [local[c] EXCEPT !.backup = b, !.stale = temporaries]
      OBVIOUS
    <3>3. l \in Locals /\ l.backup = b
      BY <1>1, <3>1, <3>2, BackupTyped DEF Locals
    <3>4. Moves(c, "rename backup", l)
      BY <1>1, <2>3, <3>2 DEF Moves, Goto
    <3>5. Fits("rename backup", l)
      BY <3>1, <3>3 DEF Fits, Points, Publishing
    <3>6. QED
      BY <2>1, <3>4, <3>5, StepTyped
  <2>4. QED
    BY <1>3, <2>2, <2>3 DEF ReadDirectory
<1>4. CASE RestoreBackup(c)
  <2>1. local[c].backup \in Writes
    BY <1>4 DEF RestoreBackup, TypeInvariant, FilesNamed
  <2>2. StoreTyped'
    BY <1>1, <1>4, <2>1 DEF RestoreBackup, StoreTyped, files, writes, user, bounds
  <2>3. CASE LoadEnds(c, "Io", Default)
    BY <2>2, <2>3, DefaultTyped, LoadEndsTyped, StepTyped
  <2>4. CASE Goto(c, "clean") /\ UNCHANGED local
    BY <2>2, <2>4, GoesOn, StepTyped DEF Points, Publishing
  <2>5. QED
    BY <1>4, <2>3, <2>4 DEF RestoreBackup
<1>5. CASE RemoveStale(c)
  <2>1. StoreTyped' /\ Goto(c, "read") /\ UNCHANGED local
    BY <1>1, <1>5 DEF RemoveStale, StoreTyped, writes, user, bounds
  <2>2. QED
    BY <2>1, GoesOn, StepTyped DEF Points, Publishing
<1>6. CASE Read(c)
  <2>1. StoreTyped'
    BY <1>1, <1>6 DEF Read, StoreTyped, files, writes, user, bounds
  <2>2. CASE Goto(c, "quarantine") /\ UNCHANGED local
    BY <2>1, <2>2, GoesOn, StepTyped DEF Points, Publishing
  <2>3. CASE file # None
    <3>1. content[file].settings \in 0..MaxWrites
      BY <1>1, <2>3 DEF StoreTyped, Contents
    <3>2. CASE LoadEnds(c, "Ok", content[file].settings)
      BY <2>1, <3>1, <3>2, LoadEndsTyped, StepTyped
    <3>3. CASE /\ Goto(c, "write")
               /\ local' = [local EXCEPT ![c].then = "return",
                                         ![c].value = content[file].settings]
      <4>1. PICK l : l = [local[c] EXCEPT !.then = "return", !.value = content[file].settings]
        OBVIOUS
      <4>2. Moves(c, "write", l)
        BY <1>1, <3>3, <4>1 DEF Moves, Goto
      <4>3. Fits("write", l)
        BY <1>1, <3>1, <4>1, ThenTyped DEF Fits, Points, Publishing
      <4>4. QED
        BY <2>1, <4>2, <4>3, StepTyped
    <3>4. QED
      BY <1>6, <2>2, <2>3, <3>2, <3>3 DEF Read
  <2>4. QED
    BY <1>6, <2>2, <2>3 DEF Read
<1>7. CASE Quarantine(c)
  <2>1. StoreTyped'
    BY <1>1, <1>7 DEF Quarantine, StoreTyped, writes, user, bounds
  <2>2. CASE LoadEnds(c, "Io", Default)
    BY <2>1, <2>2, DefaultTyped, LoadEndsTyped, StepTyped
  <2>3. CASE /\ Goto(c, "write")
             /\ local' = [local EXCEPT ![c].then = "invalid", ![c].value = Default]
    <3>1. PICK l : l = [local[c] EXCEPT !.then = "invalid", !.value = Default]
      OBVIOUS
    <3>2. Moves(c, "write", l)
      BY <1>1, <2>3, <3>1 DEF Moves, Goto
    <3>3. Fits("write", l)
      BY <1>1, <3>1, DefaultTyped, ThenTyped DEF Fits, Points, Publishing
    <3>4. QED
      BY <2>1, <3>2, <3>3, StepTyped
  <2>4. QED
    BY <1>7, <2>2, <2>3 DEF Quarantine
<1>8. QED
  BY <1>2, <1>3, <1>4, <1>5, <1>6, <1>7

\* A failed file operation is counted within its bound.
LEMMA FaultTyped ==
  ASSUME StoreTyped, Fault
  PROVE  faults' \in 0..MaxFaults
BY SettingsAssumption DEF StoreTyped, Fault

\* The steps of a save.
LEMMA SaveTyped ==
  ASSUME TypeInvariant, NEW c \in Callers,
         \/ WriteTemporary(c) \/ LookForFile(c) \/ BackUp(c) \/ Publish(c)
         \/ Undo(c) \/ RemoveBackup(c) \/ PublishNew(c)
  PROVE  TypeInvariant'
<1>1. /\ StoreTyped /\ pc \in [Callers -> Points] /\ local \in [Callers -> Locals]
      /\ local[c] \in Locals
  BY TypesSplit
<1>2. CASE WriteTemporary(c)
  <2>1. next \in Writes
    BY <1>1, <1>2 DEF WriteTemporary, StoreTyped, Writes
  <2>2. CASE Fault /\ Return(c, "Io") /\ UNCHANGED <<writes, temporaries, attempted>>
    <3>1. StoreTyped'
      BY <1>1, <1>2, <2>2, FaultTyped DEF WriteTemporary, StoreTyped, writes
    <3>2. QED
      BY <2>2, <3>1, ReturnTyped, StepTyped
  <2>3. CASE /\ content' = [content EXCEPT ![next] = [settings |-> Settings(c), form |-> "current"]]
             /\ temporaries' = temporaries \union {next}
             /\ local' = [local EXCEPT ![c].write = next]
             /\ attempted' = IF local[c].then = "none" THEN attempted \union {next} ELSE attempted
             /\ next' = next + 1
             /\ Goto(c, "look")
             /\ UNCHANGED faults
    <3>1. Settings(c) \in 0..MaxWrites
      BY <1>1, <2>1, DefaultTyped DEF Settings, Locals
    <3>2. [settings |-> Settings(c), form |-> "current"] \in Contents
      BY <3>1 DEF Contents
    <3>3. next' \in 1..(MaxWrites + 1)
      BY <1>1, <1>2, <2>3, SettingsAssumption DEF WriteTemporary, StoreTyped
    <3>4. StoreTyped'
      BY <1>1, <1>2, <2>1, <2>3, <3>2, <3>3 DEF WriteTemporary, StoreTyped
    <3>5. PICK l : l = [local[c] EXCEPT !.write = next]
      OBVIOUS
    <3>6. Moves(c, "look", l)
      BY <1>1, <2>3, <3>5 DEF Moves, Goto
    <3>7. l \in Locals /\ l.write = next
      BY <1>1, <2>1, <3>5, WriteTyped DEF Locals
    <3>8. Fits("look", l)
      BY <2>1, <3>7 DEF Fits, Points
    <3>9. QED
      BY <3>4, <3>6, <3>8, StepTyped
  <2>4. QED
    BY <1>2, <2>2, <2>3 DEF WriteTemporary
<1>3. CASE LookForFile(c)
  <2>1. \E point \in {"publish new", "back up"} : Goto(c, point)
    BY <1>3 DEF LookForFile
  <2>2. UNCHANGED local /\ StoreTyped' /\ pc[c] \in Publishing
    BY <1>1, <1>3 DEF LookForFile, StoreTyped, files, writes, user, bounds, Publishing
  <2>3. QED
    BY <2>1, <2>2, GoesOn, StepTyped DEF Points
<1>4. CASE BackUp(c)
  <2>1. pc[c] \in Publishing /\ local[c].write \in Writes
    BY <1>4 DEF BackUp, Publishing, TypeInvariant, FilesNamed
  <2>2. faults' \in 0..MaxFaults
    BY <1>1, <1>4, FaultTyped DEF BackUp, StoreTyped
  <2>3. StoreTyped'
    BY <1>1, <1>4, <2>1, <2>2 DEF BackUp, StoreTyped, files, writes, user
  <2>4. CASE Return(c, "Io")
    BY <2>3, <2>4, ReturnTyped, StepTyped
  <2>5. CASE Goto(c, "publish") /\ UNCHANGED local
    BY <2>1, <2>3, <2>5, GoesOn, StepTyped DEF Points
  <2>6. QED
    BY <1>4, <2>4, <2>5 DEF BackUp
<1>5. CASE Publish(c)
  <2>1. pc[c] \in Publishing /\ local[c].write \in Writes
    BY <1>5 DEF Publish, Publishing, TypeInvariant, FilesNamed
  <2>2. faults' \in 0..MaxFaults
    BY <1>1, <1>5, FaultTyped DEF Publish, StoreTyped
  <2>3. StoreTyped'
    BY <1>1, <1>5, <2>1, <2>2 DEF Publish, StoreTyped, writes, user
  <2>4. UNCHANGED local /\ \E point \in {"undo", "remove backup"} : Goto(c, point)
    BY <1>5 DEF Publish
  <2>5. QED
    BY <2>1, <2>3, <2>4, GoesOn, StepTyped DEF Points
<1>6. CASE Undo(c)
  <2>1. local[c].write \in Writes
    BY <1>6 DEF Undo, Publishing, TypeInvariant, FilesNamed
  <2>2. faults' \in 0..MaxFaults
    BY <1>1, <1>6, FaultTyped DEF Undo, StoreTyped
  <2>3. StoreTyped'
    BY <1>1, <1>6, <2>1, <2>2 DEF Undo, StoreTyped, writes, user
  <2>4. Return(c, "Io")
    BY <1>6 DEF Undo
  <2>5. QED
    BY <2>3, <2>4, ReturnTyped, StepTyped
<1>7. CASE RemoveBackup(c)
  <2>1. local[c].write \in Writes
    BY <1>7 DEF RemoveBackup, Publishing, TypeInvariant, FilesNamed
  <2>2. faults' \in 0..MaxFaults
    BY <1>1, <1>7, FaultTyped DEF RemoveBackup, StoreTyped
  <2>3. StoreTyped'
    BY <1>1, <1>7, <2>1, <2>2 DEF RemoveBackup, StoreTyped, writes, user
  <2>4. QED
    BY <1>7, <2>3, SaveEndsTyped, StepTyped DEF RemoveBackup
<1>8. CASE PublishNew(c)
  <2>1. local[c].write \in Writes
    BY <1>8 DEF PublishNew, Publishing, TypeInvariant, FilesNamed
  <2>2. faults' \in 0..MaxFaults
    BY <1>1, <1>8, FaultTyped DEF PublishNew, StoreTyped
  <2>3. StoreTyped'
    BY <1>1, <1>8, <2>1, <2>2 DEF PublishNew, StoreTyped, writes, user
  <2>4. SaveEnds(c) \/ Return(c, "Io")
    BY <1>8 DEF PublishNew
  <2>5. QED
    BY <2>3, <2>4, SaveEndsTyped, ReturnTyped, StepTyped
<1>9. QED
  BY <1>2, <1>3, <1>4, <1>5, <1>6, <1>7, <1>8

\* Every step keeps the types.
LEMMA TypesStep == TypeInvariant /\ [Next]_vars => TypeInvariant'
<1> SUFFICES ASSUME TypeInvariant, [Next]_vars  PROVE TypeInvariant'
  OBVIOUS
<1>1. CASE Next
  BY <1>1, CommandsTyped, LoadTyped, SaveTyped DEF Next, Step
<1>2. CASE UNCHANGED vars
  BY <1>2 DEF vars, files, writes, user, bounds, TypeInvariant, TypeOK, FilesNamed
<1>3. QED
  BY <1>1, <1>2

\* The types hold at the start.
LEMMA TypesInit == Init => TypeInvariant
<1> SUFFICES ASSUME Init  PROVE TypeInvariant
  OBVIOUS
<1>1. 1 \in Writes /\ next = 2 /\ next \in 1..(MaxWrites + 1)
  BY SettingsAssumption DEF Init, Writes
<1>2. content \in [Writes -> Contents]
  BY DefaultTyped DEF Init, Contents
<1>3. StoreTyped
  BY <1>1, <1>2, DefaultTyped, SettingsAssumption DEF Init, StoreTyped
<1>4. /\ pc \in [Callers -> Points] /\ local \in [Callers -> Locals] /\ FilesNamed
  BY NoLocalsTyped DEF Init, Points, FilesNamed, Publishing
<1>5. QED
  BY <1>3, <1>4, TypesSplit

\* The variables of the store keep their types, and a step of a save or of a restore finds
\* the name of its file in the locals of its caller, for any callers, crashes and faults.
THEOREM SettingsTyped == Spec => []TypeOK
<1>1. TypeInvariant => TypeOK
  BY DEF TypeInvariant
<1>2. QED
  BY <1>1, TypesInit, TypesStep, PTL DEF Spec

\* What a load finds, and what it may return, is the same as before.
DiskSame == UNCHANGED <<file, previous, content, next, attempted, durable>>

\* A step that leaves the files leaves what was found out of them.
LEMMA DiskKept ==
  ASSUME DiskSame
  PROVE  /\ FilesOrdered => FilesOrdered'
         /\ \A v : Found(v)' <=> Found(v)
         /\ \A point, l : PointAgrees(point, l) => PointAgrees(point, l)'
<1>1. /\ file' = file /\ previous' = previous /\ content' = content /\ next' = next
      /\ attempted' = attempted /\ durable' = durable
  BY DEF DiskSame
<1>2. Backups' = Backups /\ Returnable' = Returnable
  BY <1>1 DEF Backups, Returnable
<1>3. \A b : Newest(b)' <=> Newest(b)
  BY <1>1, <1>2 DEF Newest
<1>4. \A f : Invalid(f)' = Invalid(f) /\ SettingsOf(f)' = SettingsOf(f)
  BY <1>1 DEF Invalid, SettingsOf
<1>5. \A v : Found(v)' <=> Found(v)
  BY <1>1, <1>2, <1>3, <1>4 DEF Found
<1>6. FilesOrdered => FilesOrdered'
  BY <1>1, <1>2, <1>4, <1>5 DEF FilesOrdered
<1>7. \A l : SaveAgrees(l) <=> SaveAgrees(l)'
  BY <1>1, <1>2 DEF SaveAgrees
<1>8. \A l : WrittenAgrees(l) <=> WrittenAgrees(l)'
  BY <1>1 DEF WrittenAgrees
<1>9. \A l : AnswerAgrees(l) <=> AnswerAgrees(l)'
  BY <1>1, <1>2, <1>5 DEF AnswerAgrees
<1>10. ASSUME NEW point, NEW l, PointAgrees(point, l)
       PROVE  PointAgrees(point, l)'
  BY <1>1, <1>2, <1>3, <1>4, <1>7, <1>8, <1>9, <1>10 DEF PointAgrees
<1>11. QED
  BY <1>5, <1>6, <1>10

\* The caller goes on to a point where what it knows holds.
Agreed(c) == \E point, l : Moves(c, point, l) /\ PointAgrees(point, l)'

\* A load may end with what a load would find now.
LEMMA LoadEndsAgrees ==
  ASSUME TypeInvariant, NEW c \in Callers, NEW result \in {"Ok", "Invalid", "Io"},
         NEW value \in 0..MaxWrites, LoadEnds(c, result, value), result # "Io",
         local[c].op \in {"load", "update"},
         local[c].write < next', local[c].write \notin attempted',
         IF file' = None THEN Backups' = {} ELSE ~Invalid(file)',
         \A v \in 0..MaxWrites : Found(v)' => v = value,
         value \in Returnable',
         result = "Invalid" => value = Default
  PROVE  Agreed(c)
<1>1. local \in [Callers -> Locals] /\ local[c] \in Locals
  BY DEF TypeInvariant, TypeOK
<1>2. CASE /\ local[c].op = "load"
           /\ Moves(c, "done", [local[c] EXCEPT !.result = result, !.value = value])
  <2>1. PICK l : l = [local[c] EXCEPT !.result = result, !.value = value]
    OBVIOUS
  <2>2. /\ l.op = "load" /\ l.result = result /\ l.value = value
        /\ l.write = local[c].write
    BY <1>1, <1>2, <2>1 DEF Locals
  <2>3. AnswerAgrees(l)'
    BY <2>2 DEF AnswerAgrees
  <2>4. PointAgrees("done", l)'
    BY <2>2, <2>3 DEF PointAgrees, Publishing
  <2>5. QED
    BY <1>2, <2>1, <2>4 DEF Agreed
<1>3. CASE local[c].op # "load" /\ Moves(c, "write", [local[c] EXCEPT !.then = "none"])
  <2>1. PICK l : l = [local[c] EXCEPT !.then = "none"]
    OBVIOUS
  <2>2. l.op = "update" /\ l.then = "none" /\ l.write = local[c].write
    BY <1>1, <1>3, <2>1 DEF Locals
  <2>3. PointAgrees("write", l)'
    BY <2>2 DEF PointAgrees, Publishing, SaveAgrees
  <2>4. QED
    BY <1>3, <2>1, <2>3 DEF Agreed
<1>4. QED
  BY <1>1, <1>2, <1>3, LoadEndsTo

\* An update may succeed when its settings are found, and a save fail when they are not.
LEMMA ReturnAgrees ==
  ASSUME TypeInvariant, NEW c \in Callers, NEW result \in {"Ok", "Io"}, Return(c, result),
         local[c].op \in {"load", "update"}, local[c].write < next',
         result = "Ok" => /\ local[c].op = "update"
                          /\ \A v \in 0..MaxWrites : Found(v)' => v = local[c].write,
         result = "Io" => \A v \in 0..MaxWrites :
                            Found(v)' => (v # local[c].write \/ local[c].write \notin attempted')
  PROVE  Agreed(c)
<1>1. local \in [Callers -> Locals] /\ local[c] \in Locals
  BY DEF TypeInvariant, TypeOK
<1>2. PICK l : l = [local[c] EXCEPT !.result = result]
  OBVIOUS
<1>3. l.op = local[c].op /\ l.result = result /\ l.write = local[c].write
  BY <1>1, <1>2 DEF Locals
<1>4. AnswerAgrees(l)'
  BY <1>3 DEF AnswerAgrees
<1>5. PointAgrees("done", l)'
  BY <1>3, <1>4 DEF PointAgrees, Publishing
<1>6. QED
  BY <1>1, <1>2, <1>5, ReturnsTo DEF Agreed

\* The end of a save whose file is settings.json.
LEMMA SaveEndsAgrees ==
  ASSUME TypeInvariant, NEW c \in Callers, SaveEnds(c), local[c].op \in {"load", "update"},
         local[c].write \in Writes, file' = local[c].write,
         UNCHANGED <<content, next, attempted, durable>>,
         SaveAgrees(local[c]), WrittenAgrees(local[c])
  PROVE  Agreed(c)
<1>1. local \in [Callers -> Locals] /\ local[c] \in Locals
  BY DEF TypeInvariant, TypeOK
<1>2. PICK w : w = local[c].write
  OBVIOUS
<1>3. /\ file' = w /\ w # None /\ content' = content /\ next' = next
      /\ attempted' = attempted /\ Returnable' = Returnable
  BY <1>2, SettingsAssumption DEF Writes, Returnable
<1>4. ~Invalid(file)' /\ SettingsOf(file)' = content[w].settings
  BY <1>2, <1>3 DEF WrittenAgrees, Invalid, SettingsOf
<1>5. \A v : Found(v)' => v = content[w].settings
  BY <1>3, <1>4 DEF Found
<1>6. w < next'
  <2>1. w + 1 = next /\ w \in Int
    BY <1>2, SettingsAssumption DEF WrittenAgrees, Writes
  <2>2. QED
    BY <1>3, <2>1
<1>7. CASE local[c].then = "none" /\ Return(c, "Ok")
  <2>1. local[c].op = "update" /\ content[w].settings = w
    BY <1>2, <1>7 DEF SaveAgrees, WrittenAgrees
  <2>2. QED
    BY <1>2, <1>5, <1>6, <1>7, <2>1, ReturnAgrees
<1>8. ASSUME NEW result \in {"Ok", "Invalid"}, NEW value, value = local[c].value,
             local[c].then # "none", result = "Invalid" => value = Default,
             LoadEnds(c, result, value)
      PROVE  Agreed(c)
  <2>1. /\ content[w].settings = value /\ w \notin attempted' /\ value \in Returnable'
        /\ value \in 0..MaxWrites
    BY <1>1, <1>2, <1>3, <1>8 DEF SaveAgrees, WrittenAgrees, Locals
  <2>2. QED
    BY <1>2, <1>3, <1>4, <1>5, <1>6, <1>8, <2>1, LoadEndsAgrees
<1>9. local[c].then = "invalid" => local[c].value = Default
  BY DEF SaveAgrees
<1>10. QED
  BY <1>1, <1>7, <1>8, <1>9, SaveEndsTo

\* With a second caller a load may quarantine or miss what a save is moving.
OneCaller == \A a, b \in Callers : a = b

\* What the invariant says of a caller and its files.
Before(c) ==
  /\ TypeInvariant /\ FilesOrdered /\ PointAgrees(pc[c], local[c])

\* The numbers of the files can be compared.
LEMMA FilesInts ==
  ASSUME TypeInvariant
  PROVE  /\ Writes \subseteq Nat /\ None \notin 0..MaxWrites /\ MaxWrites \in Nat
         /\ next \in Nat /\ 0 < next
         /\ file # None => file \in Writes
         /\ \A b \in Backups : b \in Writes /\ previous[b] \in Writes
         /\ \A w \in Writes : w \in Nat /\ w > 0 /\ w \in 0..MaxWrites
         /\ \A w \in Writes : content[w].settings \in 0..MaxWrites
         /\ 0 \notin attempted
<1>1. StoreTyped
  BY TypesSplit
<1>2. Writes \subseteq Nat /\ None \notin 0..MaxWrites /\ MaxWrites \in Nat
  BY SettingsAssumption DEF Writes
<1>3. \A w \in Writes : w \in Nat /\ w > 0 /\ w \in 0..MaxWrites
  BY SettingsAssumption DEF Writes
<1>4. next \in Nat /\ 0 < next
  BY <1>1, <1>2 DEF StoreTyped
<1>5. \A w \in Writes : content[w].settings \in 0..MaxWrites
  BY <1>1 DEF StoreTyped, Contents
<1>6. /\ file # None => file \in Writes
      /\ \A b \in Backups : b \in Writes /\ previous[b] \in Writes
      /\ 0 \notin attempted
  BY <1>1, <1>3 DEF StoreTyped, Backups
<1>7. QED
  BY <1>2, <1>3, <1>4, <1>5, <1>6

\* A command that begins knows nothing of the files.
LEMMA CommandAgrees ==
  ASSUME OneCaller, NEW c \in Callers, Before(c), Load(c) \/ Update(c)
  PROVE  FilesOrdered' /\ Agreed(c)
<1>1. PICK op \in {"load", "update"} : Moves(c, "load", [NoLocals EXCEPT !.op = op])
  BY DEF Load, Update, Goto, Moves
<1>2. PICK l : l = [NoLocals EXCEPT !.op = op]
  OBVIOUS
<1>3. l.op = op /\ l.write = 0
  BY <1>2 DEF NoLocals
<1>4. PointAgrees("load", l)
  BY <1>1, <1>3, FilesInts DEF PointAgrees, Before, Publishing
<1>5. DiskSame
  BY DEF Load, Update, DiskSame, files, writes, user
<1>6. QED
  BY <1>1, <1>2, <1>4, <1>5, DiskKept DEF Before, Agreed

\* What an answer says is what a load would find, so it becomes what the user relies on.
LEMMA AnsweredAgrees ==
  ASSUME OneCaller, NEW c \in Callers, Before(c), Answered(c)
  PROVE  FilesOrdered' /\ Agreed(c)
<1>1. AnswerAgrees(local[c]) /\ local[c].op \in {"load", "update"}
  BY DEF Answered, PointAgrees, Before
<1>2. /\ file' = file /\ previous' = previous /\ content' = content /\ next' = next
  BY DEF Answered, files, writes
<1>3. \A v : Found(v)' <=> Found(v)
  BY <1>2 DEF Found, Backups, Newest, SettingsOf, Invalid
<1>4. saving \in {None, c}
  BY DEF OneCaller, Before, TypeInvariant, TypeOK
<1>5. ASSUME NEW v \in 0..MaxWrites, Found(v)
      PROVE  v \in Returnable'
  <2>1. v \in attempted \/ v = durable
    BY <1>5 DEF Before, FilesOrdered, Returnable
  <2>2. CASE local[c].result = "Io"
    BY <1>1, <1>5, <2>1, <2>2 DEF AnswerAgrees, Answered, Returnable
  <2>3. CASE local[c].result # "Io" /\ local[c].op = "update"
    BY <1>1, <1>4, <1>5, <2>3 DEF AnswerAgrees, Answered, Returnable
  <2>4. CASE local[c].result # "Io" /\ local[c].op = "load"
    <3>1. v = local[c].value
      BY <1>1, <1>5, <2>4 DEF AnswerAgrees
    <3>2. QED
      BY <1>4, <2>1, <2>4, <3>1 DEF Answered, Returnable
  <2>5. QED
    BY <1>1, <2>2, <2>3, <2>4
<1>6. attempted' \subseteq attempted
  BY <1>4 DEF Answered, user
<1>7. FilesOrdered'
  BY <1>2, <1>3, <1>5, <1>6 DEF Before, FilesOrdered, Backups, Invalid
<1>8. Moves(c, "idle", NoLocals)
  BY DEF Answered, Goto, Moves
<1>9. PICK l : l = NoLocals
  OBVIOUS
<1>10. PointAgrees("idle", l)'
  BY <1>2, <1>9, FilesInts DEF PointAgrees, Before, Publishing, NoLocals
<1>11. QED
  BY <1>7, <1>8, <1>9, <1>10 DEF Agreed

\* A caller that only goes on, with the files as they are.
LEMMA GoesOnAgrees ==
  ASSUME NEW c \in Callers, Before(c), NEW point, Goto(c, point), UNCHANGED local, DiskSame,
         PointAgrees(point, local[c])
  PROVE  FilesOrdered' /\ Agreed(c)
<1>1. local[c] \in Locals /\ Moves(c, point, local[c])
  BY DEF Goto, Moves, Before, TypeInvariant, TypeOK
<1>2. PICK l : l = local[c]
  OBVIOUS
<1>3. PointAgrees(point, l)'
  BY <1>2, DiskKept
<1>4. QED
  BY <1>1, <1>2, <1>3, DiskKept DEF Before, Agreed

\* The steps that only look whether settings.json is there, and the removal of the temporaries.
LEMMA ExistsAgrees ==
  ASSUME NEW c \in Callers, Before(c), Exists(c) \/ RemoveStale(c) \/ LookForFile(c)
  PROVE  FilesOrdered' /\ Agreed(c)
<1>1. DiskSame /\ UNCHANGED local
  BY DEF Exists, RemoveStale, LookForFile, DiskSame, files, writes, user
<1>2. PICK l : l = local[c]
  OBVIOUS
<1>3. CASE Exists(c)
  <2>1. /\ l.write < next /\ l.op \in {"load", "update"} /\ l.write \notin attempted
    BY <1>2, <1>3 DEF Exists, Before, PointAgrees
  <2>2. CASE file = None
    <3>1. PointAgrees("restore", l)
      BY <2>1, <2>2 DEF PointAgrees, Publishing
    <3>2. QED
      BY <1>1, <1>2, <1>3, <2>2, <3>1, GoesOnAgrees DEF Exists
  <2>3. CASE file # None
    <3>1. PointAgrees("read", l)
      BY <2>1, <2>3 DEF PointAgrees, Publishing
    <3>2. QED
      BY <1>1, <1>2, <1>3, <2>3, <3>1, GoesOnAgrees DEF Exists
  <2>4. QED
    BY <2>2, <2>3
<1>4. CASE RemoveStale(c)
  <2>1. PointAgrees("read", l)
    BY <1>2, <1>4 DEF RemoveStale, Before, PointAgrees, Publishing
  <2>2. QED
    BY <1>1, <1>2, <1>4, <2>1, GoesOnAgrees DEF RemoveStale
<1>5. CASE LookForFile(c)
  <2>1. PICK point \in {"publish new", "back up"} : /\ Goto(c, point)
                                                    /\ point = "publish new" <=> file = None
    BY <1>5 DEF LookForFile
  <2>2. /\ l.write < next /\ l.op \in {"load", "update"} /\ SaveAgrees(l) /\ WrittenAgrees(l)
        /\ IF file = None THEN Backups = {} ELSE ~Invalid(file)
        /\ file # None => file < l.write
    BY <1>2, <1>5 DEF LookForFile, Before, PointAgrees, Publishing
  <2>3. PointAgrees(point, l)
    BY <2>1, <2>2 DEF PointAgrees, Publishing
  <2>4. QED
    BY <1>1, <1>2, <2>1, <2>3, GoesOnAgrees
<1>6. QED
  BY <1>3, <1>4, <1>5

\* With no settings.json and no backup the defaults are returned, else the newest backup is chosen.
LEMMA ReadDirectoryAgrees ==
  ASSUME NEW c \in Callers, Before(c), ReadDirectory(c)
  PROVE  FilesOrdered' /\ Agreed(c)
<1>1. DiskSame /\ local \in [Callers -> Locals] /\ local[c] \in Locals
  BY DEF ReadDirectory, DiskSame, files, writes, user, Before, TypeInvariant, TypeOK
<1>2. /\ file = None /\ local[c].op \in {"load", "update"} /\ local[c].write < next
      /\ local[c].write \notin attempted
  BY DEF ReadDirectory, Before, PointAgrees
<1>3. CASE Backups = {} /\ LoadEnds(c, "Ok", Default)
  <2>1. \A v : Found(v) <=> v = Default
    BY <1>2, <1>3 DEF Found
  <2>2. Default \in Returnable /\ Default \in 0..MaxWrites
    BY <2>1, DefaultTyped DEF Before, FilesOrdered
  <2>3. \A v : Found(v)' => v = Default
    BY <1>1, <2>1, DiskKept
  <2>4. /\ local[c].write < next' /\ local[c].write \notin attempted'
        /\ file' = None /\ Backups' = {} /\ Default \in Returnable'
    BY <1>1, <1>2, <1>3, <2>2 DEF DiskSame, Backups, Returnable
  <2>5. QED
    BY <1>1, <1>2, <1>3, <2>2, <2>3, <2>4, LoadEndsAgrees, DiskKept DEF Before
<1>4. ASSUME NEW b \in Backups, Newest(b),
             local' = [local EXCEPT ![c].backup = b, ![c].stale = temporaries],
             Goto(c, "rename backup")
      PROVE  FilesOrdered' /\ Agreed(c)
  <2>1. PICK l : l = [local[c] EXCEPT !.backup = b, !.stale = temporaries]
    OBVIOUS
  <2>2. l.backup = b /\ l.op = local[c].op /\ l.write = local[c].write
    BY <1>1, <2>1 DEF Locals
  <2>3. Moves(c, "rename backup", l)
    BY <1>1, <1>4, <2>1 DEF Moves, Goto
  <2>4. PointAgrees("rename backup", l)
    BY <1>2, <1>4, <2>2 DEF PointAgrees, Publishing
  <2>5. QED
    BY <1>1, <2>3, <2>4, DiskKept DEF Before, Agreed
<1>5. QED
  BY <1>3, <1>4 DEF ReadDirectory

\* What may be said of a file that is moved to settings.json or away from it.
Sound(f) ==
  /\ f \in Writes /\ f < next
  /\ f # 1 => content[f].form = "current"
  /\ content[f].settings <= f

\* settings.json and every backup are sound, so their settings are no newer than they are.
LEMMA FileSound ==
  ASSUME TypeInvariant, FilesOrdered
  PROVE  /\ file # None => Sound(file)
         /\ \A b \in Backups : Sound(previous[b]) /\ ~Invalid(previous[b])
         /\ \A w \in Writes : Sound(w) => SettingsOf(w) \in 0..MaxWrites /\ SettingsOf(w) <= w
<1>1. /\ file # None => Sound(file)
      /\ \A b \in Backups : Sound(previous[b]) /\ ~Invalid(previous[b])
  BY FilesInts DEF FilesOrdered, Sound
<1>2. ASSUME NEW w \in Writes, Sound(w)
      PROVE  SettingsOf(w) \in 0..MaxWrites /\ SettingsOf(w) <= w
  BY <1>2, FilesInts, DefaultTyped DEF Sound, SettingsOf, Default
<1>3. QED
  BY <1>1, <1>2

\* settings.json gives way to the newest backup, or that backup comes back: a load would
\* find the same as before.
LEMMA MovedBack ==
  ASSUME TypeInvariant, FilesOrdered, file = None, NEW b \in Backups, Newest(b),
         file' = previous[b], previous' = [previous EXCEPT ![b] = None],
         UNCHANGED <<content, next, attempted, durable>>
  PROVE  /\ FilesOrdered'
         /\ file' = previous[b] /\ file' # None /\ ~Invalid(file)'
         /\ \A v : Found(v)' <=> v = SettingsOf(previous[b])
         /\ \A a \in Backups' : a \in Backups /\ previous'[a] = previous[a]
<1>1. /\ content' = content /\ next' = next /\ attempted' = attempted /\ durable' = durable
      /\ Returnable' = Returnable /\ previous \in [Writes -> Writes \union {None}]
  BY DEF Returnable, TypeInvariant, TypeOK
<1>2. PICK f : f = previous[b]
  OBVIOUS
<1>3. /\ f \in Writes /\ f # None /\ file' = f /\ Sound(f) /\ ~Invalid(f)
  BY <1>2, FileSound, FilesInts DEF Backups
<1>4. \A a \in Backups' : a \in Backups /\ a # b /\ previous'[a] = previous[a]
  BY <1>1 DEF Backups
<1>5. \A a \in Backups' : previous'[a] < f
  <2>1. ASSUME NEW a \in Backups'
        PROVE  previous[a] <= f /\ previous[a] # f /\ previous[a] \in Nat /\ f \in Nat
    BY <1>2, <1>4, FilesInts DEF Newest, FilesOrdered
  <2>2. QED
    BY <1>4, <2>1
<1>6. ~Invalid(file)' /\ SettingsOf(file)' = SettingsOf(f)
  BY <1>1, <1>3 DEF Invalid, SettingsOf
<1>7. \A v : Found(v)' <=> v = SettingsOf(f)
  BY <1>3, <1>6 DEF Found
<1>8. SettingsOf(f) \in 0..MaxWrites /\ SettingsOf(f) \in Returnable
  <2>1. SettingsOf(f) \in 0..MaxWrites
    BY <1>3, FileSound
  <2>2. Found(SettingsOf(f))
    BY <1>2 DEF Found
  <2>3. QED
    BY <2>1, <2>2 DEF FilesOrdered
<1>9. FilesOrdered'
  <2>1. file' # None => /\ file' < next'
                        /\ file' # 1 => content'[file'].form = "current"
                        /\ content'[file'].settings <= file'
                        /\ \A a \in Backups' : previous'[a] < file'
    BY <1>1, <1>3, <1>5 DEF Sound
  <2>2. \A a \in Backups' :
          /\ previous'[a] < next' /\ ~Invalid(previous[a])'
          /\ previous'[a] # 1 => content'[previous'[a]].form = "current"
          /\ content'[previous'[a]].settings <= previous'[a]
    BY <1>1, <1>4 DEF FilesOrdered, Invalid
  <2>3. \A a, d \in Backups' : previous'[a] = previous'[d] => a = d
    BY <1>4 DEF FilesOrdered
  <2>4. \A w \in attempted' : w < next'
    BY <1>1 DEF FilesOrdered
  <2>5. \A v \in 0..MaxWrites : Found(v)' => v \in Returnable'
    BY <1>1, <1>7, <1>8
  <2>6. QED
    BY <2>1, <2>2, <2>3, <2>4, <2>5 DEF FilesOrdered, Invalid
<1>10. QED
  BY <1>2, <1>3, <1>4, <1>6, <1>7, <1>9

\* The chosen backup becomes settings.json.
LEMMA RestoreBackupAgrees ==
  ASSUME NEW c \in Callers, Before(c), RestoreBackup(c)
  PROVE  FilesOrdered' /\ Agreed(c)
<1>1. local \in [Callers -> Locals] /\ local[c] \in Locals
  BY DEF Before, TypeInvariant, TypeOK
<1>2. PICK l : l = local[c]
  OBVIOUS
<1>3. /\ file = None /\ l.backup \in Backups /\ Newest(l.backup) /\ previous[l.backup] # None
      /\ l.op \in {"load", "update"} /\ l.write < next /\ l.write \notin attempted
  BY <1>2 DEF RestoreBackup, Before, PointAgrees, Backups
<1>4. /\ file' = previous[l.backup] /\ previous' = [previous EXCEPT ![l.backup] = None]
      /\ Goto(c, "clean") /\ UNCHANGED local
      /\ content' = content /\ next' = next /\ attempted' = attempted /\ durable' = durable
  BY <1>2, <1>3 DEF RestoreBackup, writes, user
<1>5. FilesOrdered' /\ file' # None
  BY <1>3, <1>4, MovedBack DEF Before
<1>6. PointAgrees("clean", l)'
  BY <1>3, <1>4, <1>5 DEF PointAgrees, Publishing
<1>7. Moves(c, "clean", l)
  BY <1>1, <1>2, <1>4 DEF Moves, Goto
<1>8. QED
  BY <1>5, <1>6, <1>7 DEF Agreed

\* What is read is what a load finds.
LEMMA ReadAgrees ==
  ASSUME NEW c \in Callers, Before(c), Read(c)
  PROVE  FilesOrdered' /\ Agreed(c)
<1>1. DiskSame /\ local \in [Callers -> Locals] /\ local[c] \in Locals
  BY DEF Read, DiskSame, files, writes, user, Before, TypeInvariant, TypeOK
<1>2. /\ file # None /\ local[c].op \in {"load", "update"} /\ local[c].write < next
      /\ local[c].write \notin attempted
  BY DEF Read, Before, PointAgrees
<1>3. \A v : Found(v) <=> v = SettingsOf(file)
  BY <1>2 DEF Found
<1>4. CASE Invalid(file)
  <2>1. PICK l : l = local[c]
    OBVIOUS
  <2>2. PointAgrees("quarantine", l)
    BY <1>2, <1>4, <2>1 DEF PointAgrees, Publishing
  <2>3. Goto(c, "quarantine") /\ UNCHANGED local
    BY <1>2, <1>4 DEF Read
  <2>4. QED
    BY <1>1, <2>1, <2>2, <2>3, GoesOnAgrees
<1>5. CASE ~Invalid(file)
  <2>1. PICK v : v = content[file].settings
    OBVIOUS
  <2>2. /\ v = SettingsOf(file) /\ v \in 0..MaxWrites /\ v < next /\ v \in Returnable
    <3>1. v = SettingsOf(file)
      BY <1>5, <2>1 DEF SettingsOf
    <3>2. v \in 0..MaxWrites /\ v <= file /\ file < next /\ file \in Nat /\ next \in Nat
      BY <1>2, <2>1, FilesInts DEF Before, FilesOrdered
    <3>3. v \in Returnable
      BY <1>3, <3>1, <3>2 DEF Before, FilesOrdered
    <3>4. QED
      BY <3>1, <3>2, <3>3, DefaultTyped
  <2>3. CASE LoadEnds(c, "Ok", v)
    <3>1. \A u : Found(u)' => u = v
      BY <1>1, <1>3, <2>2, DiskKept
    <3>2. /\ local[c].write < next' /\ local[c].write \notin attempted'
          /\ file' # None /\ ~Invalid(file)' /\ v \in Returnable'
      BY <1>1, <1>2, <1>5, <2>2 DEF DiskSame, Invalid, Returnable
    <3>3. Agreed(c)
      BY <1>2, <2>2, <2>3, <3>1, <3>2, LoadEndsAgrees DEF Before
    <3>4. QED
      BY <1>1, <3>3, DiskKept DEF Before
  <2>4. CASE /\ Goto(c, "write")
             /\ local' = [local EXCEPT ![c].then = "return", ![c].value = v]
    <3>1. PICK l : l = [local[c] EXCEPT !.then = "return", !.value = v]
      OBVIOUS
    <3>2. /\ l.then = "return" /\ l.value = v /\ l.op = local[c].op /\ l.write = local[c].write
      BY <1>1, <3>1 DEF Locals
    <3>3. Moves(c, "write", l)
      BY <1>1, <2>4, <3>1 DEF Moves, Goto
    <3>4. PointAgrees("write", l)
      BY <1>2, <1>5, <2>2, <3>2 DEF PointAgrees, Publishing, SaveAgrees
    <3>5. QED
      BY <1>1, <3>3, <3>4, DiskKept DEF Before, Agreed
  <2>5. QED
    BY <1>2, <1>5, <2>1, <2>3, <2>4 DEF Read
<1>6. QED
  BY <1>4, <1>5

\* Only the first file can be damaged, and then there is no backup: a load would find the defaults.
LEMMA QuarantineAgrees ==
  ASSUME NEW c \in Callers, Before(c), Quarantine(c)
  PROVE  FilesOrdered' /\ Agreed(c)
<1>1. local \in [Callers -> Locals] /\ local[c] \in Locals
  BY DEF Before, TypeInvariant, TypeOK
<1>2. /\ file # None /\ Invalid(file) /\ local[c].op \in {"load", "update"}
      /\ local[c].write < next /\ local[c].write \notin attempted
  BY DEF Quarantine, Before, PointAgrees
<1>3. file = 1
  BY <1>2, FileSound DEF Before, Sound, Invalid
<1>4. Backups = {}
  <2>1. ASSUME NEW b \in Backups
        PROVE  FALSE
    BY <1>2, <1>3, FilesInts DEF Before, FilesOrdered
  <2>2. QED
    BY <2>1
<1>5. /\ file' = None /\ previous' = previous /\ content' = content /\ next' = next
      /\ attempted' = attempted /\ durable' = durable /\ Goto(c, "write")
      /\ local' = [local EXCEPT ![c].then = "invalid", ![c].value = Default]
  BY <1>2 DEF Quarantine, writes, user
<1>6. Backups' = {} /\ Returnable' = Returnable
  BY <1>4, <1>5 DEF Backups, Returnable
<1>7. \A v : Found(v)' <=> v = Default
  BY <1>5, <1>6 DEF Found
<1>8. Default \in Returnable
  <2>1. Found(Default)
    BY <1>2 DEF Found, SettingsOf
  <2>2. QED
    BY <2>1, DefaultTyped DEF Before, FilesOrdered
<1>9. FilesOrdered'
  BY <1>5, <1>6, <1>7, <1>8 DEF Before, FilesOrdered
<1>10. PICK l : l = [local[c] EXCEPT !.then = "invalid", !.value = Default]
  OBVIOUS
<1>11. /\ l.then = "invalid" /\ l.value = Default /\ l.op = local[c].op
       /\ l.write = local[c].write
  BY <1>1, <1>10 DEF Locals
<1>12. Default < next'
  BY <1>5, FilesInts DEF Before, Default
<1>13. PointAgrees("write", l)'
  BY <1>2, <1>5, <1>6, <1>8, <1>11, <1>12 DEF PointAgrees, Publishing, SaveAgrees
<1>14. Moves(c, "write", l)
  BY <1>1, <1>5, <1>10 DEF Moves, Goto
<1>15. QED
  BY <1>9, <1>13, <1>14 DEF Agreed

\* The temporary file is newer than every file there is, and nobody finds it yet.
LEMMA WriteTemporaryAgrees ==
  ASSUME NEW c \in Callers, Before(c), WriteTemporary(c)
  PROVE  FilesOrdered' /\ Agreed(c)
<1>1. /\ local \in [Callers -> Locals] /\ local[c] \in Locals
      /\ content \in [Writes -> Contents] /\ next \in Nat
  BY FilesInts DEF Before, TypeInvariant, TypeOK
<1>2. /\ local[c].op \in {"load", "update"} /\ local[c].write < next
      /\ local[c].write \notin attempted /\ SaveAgrees(local[c])
      /\ IF file = None THEN Backups = {} ELSE ~Invalid(file)
  BY DEF WriteTemporary, Before, PointAgrees
<1>3. CASE Return(c, "Io") /\ UNCHANGED <<writes, temporaries, attempted>>
  <2>1. DiskSame
    BY <1>3 DEF WriteTemporary, DiskSame, writes
  <2>2. local[c].write < next' /\ local[c].write \notin attempted'
    BY <1>2, <2>1 DEF DiskSame
  <2>3. Agreed(c)
    BY <1>2, <1>3, <2>2, ReturnAgrees DEF Before
  <2>4. QED
    BY <2>1, <2>3, DiskKept DEF Before
<1>4. CASE /\ content' = [content EXCEPT ![next] = [settings |-> Settings(c), form |-> "current"]]
           /\ local' = [local EXCEPT ![c].write = next]
           /\ attempted' = IF local[c].then = "none" THEN attempted \union {next} ELSE attempted
           /\ next' = next + 1
           /\ Goto(c, "look")
  <2>1. next \in Writes
    BY <1>1, FilesInts DEF WriteTemporary, Writes, Before
  <2>2. /\ file' = file /\ previous' = previous /\ durable' = durable /\ Backups' = Backups
        /\ \A b : Newest(b)' <=> Newest(b)
    BY DEF WriteTemporary, Backups, Newest
  <2>3. /\ \A w \in Writes : w < next => content'[w] = content[w]
        /\ content'[next] = [settings |-> Settings(c), form |-> "current"]
    BY <1>1, <1>4, <2>1
  <2>4. \A w \in Writes : w < next =>
          SettingsOf(w)' = SettingsOf(w) /\ (Invalid(w)' <=> Invalid(w))
    BY <2>3 DEF SettingsOf, Invalid
  <2>5. /\ file # None => file \in Writes /\ file < next
        /\ \A b \in Backups : previous[b] \in Writes /\ previous[b] < next
        /\ \A w \in attempted : w \in Writes /\ w < next
    BY FilesInts DEF Before, FilesOrdered, TypeInvariant, TypeOK
  <2>6. \A v : Found(v)' => Found(v)
    BY <2>2, <2>4, <2>5 DEF Found
  <2>7. /\ Returnable \subseteq Returnable'
        /\ attempted \subseteq attempted'
        /\ attempted' \subseteq attempted \union {next}
        /\ next \in attempted' <=> local[c].then = "none"
        /\ next \notin attempted
    BY <1>1, <1>4, <2>2, <2>5 DEF Returnable
  <2>8. FilesOrdered'
    <3>1. file' # None => /\ file' < next'
                          /\ file' # 1 => content'[file'].form = "current"
                          /\ content'[file'].settings <= file'
                          /\ \A a \in Backups' : previous'[a] < file'
      BY <1>1, <1>4, <2>2, <2>3, <2>5, FilesInts DEF Before, FilesOrdered
    <3>2. \A a \in Backups' :
            /\ previous'[a] < next' /\ ~Invalid(previous[a])'
            /\ previous'[a] # 1 => content'[previous'[a]].form = "current"
            /\ content'[previous'[a]].settings <= previous'[a]
      <4>1. ASSUME NEW a \in Backups
            PROVE  /\ previous[a] < next + 1 /\ ~Invalid(previous[a])'
                   /\ previous[a] # 1 => content'[previous[a]].form = "current"
                   /\ content'[previous[a]].settings <= previous[a]
        <5>1. previous[a] \in Writes /\ previous[a] < next /\ previous[a] \in Nat
          BY <2>5, FilesInts DEF Before
        <5>2. content'[previous[a]] = content[previous[a]]
          BY <2>3, <5>1
        <5>3. ~Invalid(previous[a])'
          BY <2>2, <5>2 DEF Invalid, Before, FilesOrdered
        <5>4. QED
          BY <1>1, <5>1, <5>2, <5>3 DEF Before, FilesOrdered
      <4>2. QED
        BY <1>4, <2>2, <4>1
    <3>3. \A a, d \in Backups' : previous'[a] = previous'[d] => a = d
      BY <2>2 DEF Before, FilesOrdered
    <3>4. \A w \in attempted' : w < next'
      BY <1>1, <1>4, <2>5, <2>7, FilesInts DEF Before
    <3>5. \A v \in 0..MaxWrites : Found(v)' => v \in Returnable'
      BY <2>6, <2>7 DEF Before, FilesOrdered
    <3>6. QED
      BY <3>1, <3>2, <3>3, <3>4, <3>5 DEF FilesOrdered, Invalid
  <2>9. PICK l : l = [local[c] EXCEPT !.write = next]
    OBVIOUS
  <2>10. /\ l.write = next /\ l.op = local[c].op /\ l.then = local[c].then
         /\ l.value = local[c].value
    BY <1>1, <2>9 DEF Locals
  <2>11. SaveAgrees(l)'
    <3>1. l.value \in 0..MaxWrites
      BY <1>1, <2>10 DEF Locals
    <3>2. l.value < next => l.value < next'
      BY <1>1, <1>4, <3>1, FilesInts DEF Before
    <3>3. QED
      BY <1>2, <2>7, <2>10, <3>2 DEF SaveAgrees
  <2>12. WrittenAgrees(l)'
    BY <1>4, <2>3, <2>7, <2>10 DEF WrittenAgrees, Settings
  <2>13. /\ IF file' = None THEN Backups' = {} ELSE ~Invalid(file)'
         /\ file' # None => file' < l.write
    <3>1. file # None => ~Invalid(file)'
      BY <1>2, <2>2, <2>4, <2>5 DEF Invalid
    <3>2. QED
      BY <1>2, <2>2, <2>5, <2>10, <3>1
  <2>14. l.write < next'
    BY <1>1, <1>4, <2>10
  <2>15. PointAgrees("look", l)'
    BY <1>2, <2>10, <2>11, <2>12, <2>13, <2>14 DEF PointAgrees, Publishing
  <2>16. Moves(c, "look", l)
    BY <1>1, <1>4, <2>9 DEF Moves, Goto
  <2>17. QED
    BY <2>8, <2>15, <2>16 DEF Agreed
<1>5. QED
  BY <1>3, <1>4 DEF WriteTemporary

\* What holds of the caller between the write of its file and the end of its save.
LEMMA PublishingAgrees ==
  ASSUME NEW c \in Callers, Before(c), pc[c] \in Publishing
  PROVE  /\ local \in [Callers -> Locals] /\ local[c] \in Locals
         /\ local[c].op \in {"load", "update"}
         /\ SaveAgrees(local[c]) /\ WrittenAgrees(local[c])
         /\ local[c].write \in Writes /\ local[c].write \in Nat
         /\ next = local[c].write + 1 /\ local[c].write < next
         /\ content[local[c].write].form = "current"
         /\ content[local[c].write].settings \in 0..MaxWrites
         /\ content[local[c].write].settings <= local[c].write
         /\ content[local[c].write].settings \in Returnable
<1>1. /\ local \in [Callers -> Locals] /\ local[c] \in Locals
      /\ local[c].write \in Writes /\ local[c].write \in Nat
  BY FilesInts DEF Before, TypeInvariant, TypeOK, FilesNamed
<1>2. /\ local[c].op \in {"load", "update"}
      /\ SaveAgrees(local[c]) /\ WrittenAgrees(local[c])
  BY DEF Before, PointAgrees, Publishing
<1>3. next = local[c].write + 1 /\ content[local[c].write].form = "current"
  BY <1>2 DEF WrittenAgrees
<1>4. PICK v : v = content[local[c].write].settings
  OBVIOUS
<1>5. v \in 0..MaxWrites /\ v \in Nat
  BY <1>1, <1>4, FilesInts DEF Before
<1>6. v <= local[c].write /\ v \in Returnable
  <2>1. CASE local[c].then = "none"
    BY <1>1, <1>2, <1>4, <2>1 DEF WrittenAgrees, Returnable
  <2>2. CASE local[c].then # "none"
    BY <1>1, <1>2, <1>3, <1>4, <1>5, <2>2 DEF WrittenAgrees, SaveAgrees
  <2>3. QED
    BY <2>1, <2>2
<1>7. QED
  BY <1>1, <1>2, <1>3, <1>4, <1>5, <1>6

\* settings.json becomes the newest backup: a load would find the same.
LEMMA BackUpAgrees ==
  ASSUME NEW c \in Callers, Before(c), BackUp(c)
  PROVE  FilesOrdered' /\ Agreed(c)
<1>1. PICK l : l = local[c]
  OBVIOUS
<1>2. /\ local \in [Callers -> Locals] /\ l.op \in {"load", "update"}
      /\ SaveAgrees(l) /\ WrittenAgrees(l)
      /\ l.write \in Writes /\ l.write \in Nat /\ l.write < next
  BY <1>1, PublishingAgrees DEF BackUp, Publishing
<1>3. /\ file # None /\ ~Invalid(file) /\ file < l.write /\ file \in Writes /\ Sound(file)
      /\ file \in Nat
  BY <1>1, FilesInts, FileSound DEF BackUp, Before, PointAgrees
<1>4. CASE Return(c, "Io") /\ UNCHANGED files
  <2>1. DiskSame
    BY <1>4 DEF BackUp, DiskSame, files, writes, user
  <2>2. \A v \in 0..MaxWrites : Found(v) => v # l.write
    <3>1. SettingsOf(file) \in 0..MaxWrites /\ SettingsOf(file) <= file
      BY <1>3, FileSound DEF Before
    <3>2. SettingsOf(file) # l.write
      BY <1>2, <1>3, <3>1, FilesInts DEF Before
    <3>3. QED
      BY <1>3, <3>2 DEF Found
  <2>3. \A v \in 0..MaxWrites : Found(v)' => v # local[c].write
    BY <1>1, <2>1, <2>2, DiskKept
  <2>4. local[c].write < next' /\ local[c].op \in {"load", "update"}
    BY <1>1, <1>2, <2>1 DEF DiskSame
  <2>5. Agreed(c)
    BY <1>4, <2>3, <2>4, ReturnAgrees DEF Before
  <2>6. QED
    BY <2>1, <2>5, DiskKept DEF Before
<1>5. CASE /\ previous' = [previous EXCEPT ![local[c].write] = file]
           /\ file' = None /\ Goto(c, "publish") /\ UNCHANGED local
  <2>1. /\ content' = content /\ next' = next /\ attempted' = attempted /\ durable' = durable
        /\ Returnable' = Returnable /\ previous \in [Writes -> Writes \union {None}]
    BY DEF BackUp, writes, user, Returnable, Before, TypeInvariant, TypeOK
  <2>2. /\ previous'[l.write] = file /\ l.write \in Backups'
        /\ \A b \in Backups' : b # l.write => b \in Backups /\ previous'[b] = previous[b]
    BY <1>1, <1>2, <1>3, <1>5, <2>1 DEF Backups
  <2>3. \A b \in Backups : previous[b] < file /\ previous[b] \in Nat
    BY <1>3, FilesInts DEF Before, FilesOrdered
  <2>4. \A b \in Backups' : b # l.write => previous'[b] < file /\ previous'[b] \in Nat
    BY <2>2, <2>3
  <2>5. /\ Newest(l.write)'
        /\ \A b \in Backups' : Newest(b)' => b = l.write
    <3>1. \A b \in Backups' : previous'[b] <= previous'[l.write]
      BY <1>3, <2>2, <2>4
    <3>2. ASSUME NEW b \in Backups', b # l.write
          PROVE  ~(previous'[l.write] <= previous'[b])
      BY <1>3, <2>2, <2>4, <3>2
    <3>3. QED
      BY <2>2, <3>1, <3>2 DEF Newest
  <2>6. \A b \in Backups' : previous'[b] < l.write
    BY <1>2, <1>3, <2>2, <2>4
  <2>7. \A v : Found(v)' => Found(v)
    BY <1>3, <1>5, <2>1, <2>2, <2>5 DEF Found, SettingsOf, Invalid
  <2>8. FilesOrdered'
    <3>1. \A b \in Backups' :
            /\ previous'[b] < next' /\ ~Invalid(previous[b])'
            /\ previous'[b] # 1 => content'[previous'[b]].form = "current"
            /\ content'[previous'[b]].settings <= previous'[b]
      <4>1. /\ file < next' /\ content'[file].form # "broken"
            /\ file # 1 => content'[file].form = "current"
            /\ content'[file].settings <= file
        BY <1>3, <2>1 DEF Sound, Invalid
      <4>2. \A b \in Backups :
              /\ previous[b] < next' /\ content'[previous[b]].form # "broken"
              /\ previous[b] # 1 => content'[previous[b]].form = "current"
              /\ content'[previous[b]].settings <= previous[b]
        BY <2>1 DEF Before, FilesOrdered, Invalid
      <4>3. QED
        BY <2>2, <4>1, <4>2 DEF Invalid
    <3>2. \A a, b \in Backups' : previous'[a] = previous'[b] => a = b
      <4>1. ASSUME NEW a \in Backups', NEW b \in Backups', previous'[a] = previous'[b]
            PROVE  a = b
        <5>1. CASE a = l.write \/ b = l.write
          BY <1>3, <2>2, <2>4, <4>1, <5>1
        <5>2. CASE a # l.write /\ b # l.write
          BY <2>2, <4>1, <5>2 DEF Before, FilesOrdered
        <5>3. QED
          BY <5>1, <5>2
      <4>2. QED
        BY <4>1
    <3>3. /\ \A w \in attempted' : w < next'
          /\ \A v \in 0..MaxWrites : Found(v)' => v \in Returnable'
      BY <2>1, <2>7 DEF Before, FilesOrdered
    <3>4. QED
      BY <1>5, <3>1, <3>2, <3>3 DEF FilesOrdered, Invalid
  <2>9. SaveAgrees(l)' /\ WrittenAgrees(l)' /\ l.write < next'
    BY <1>2, <2>1 DEF SaveAgrees, WrittenAgrees
  <2>10. PointAgrees("publish", l)'
    BY <1>2, <1>5, <2>2, <2>5, <2>6, <2>9 DEF PointAgrees, Publishing
  <2>11. Moves(c, "publish", l)
    BY <1>1, <1>2, <1>5 DEF Moves, Goto
  <2>12. QED
    BY <2>8, <2>10, <2>11 DEF Agreed
<1>6. QED
  BY <1>4, <1>5 DEF BackUp

\* The file of a save becomes settings.json, which was away.
LEMMA Published ==
  ASSUME NEW c \in Callers, Before(c), pc[c] \in {"publish", "publish new"},
         file' = local[c].write, UNCHANGED <<previous, content, next, attempted, durable>>
  PROVE  FilesOrdered'
<1>1. PICK w : w = local[c].write
  OBVIOUS
<1>2. /\ w \in Writes /\ w \in Nat /\ w < next /\ content[w].form = "current"
      /\ content[w].settings \in 0..MaxWrites /\ content[w].settings <= w
      /\ content[w].settings \in Returnable
  BY <1>1, PublishingAgrees DEF Publishing
<1>3. /\ file' = w /\ w # None /\ previous' = previous /\ content' = content /\ next' = next
      /\ attempted' = attempted /\ Backups' = Backups /\ Returnable' = Returnable
  BY <1>1, <1>2, FilesInts DEF Backups, Returnable, Before
<1>4. \A b \in Backups : previous[b] < w
  BY <1>1 DEF Before, PointAgrees
<1>5. \A v : Found(v)' => v = content[w].settings
  BY <1>2, <1>3 DEF Found, SettingsOf, Invalid
<1>6. file' # None => /\ file' < next'
                      /\ file' # 1 => content'[file'].form = "current"
                      /\ content'[file'].settings <= file'
                      /\ \A b \in Backups' : previous'[b] < file'
  BY <1>2, <1>3, <1>4
<1>7. \A b \in Backups' :
        /\ previous'[b] < next' /\ ~Invalid(previous[b])'
        /\ previous'[b] # 1 => content'[previous'[b]].form = "current"
        /\ content'[previous'[b]].settings <= previous'[b]
  BY <1>3 DEF Before, FilesOrdered, Invalid
<1>8. /\ \A a, b \in Backups' : previous'[a] = previous'[b] => a = b
      /\ \A u \in attempted' : u < next'
  <2>1. \A a, b \in Backups : previous[a] = previous[b] => a = b
    BY DEF Before, FilesOrdered
  <2>2. \A u \in attempted : u < next
    BY DEF Before, FilesOrdered
  <2>3. QED
    BY <1>3, <2>1, <2>2
<1>9. \A v \in 0..MaxWrites : Found(v)' => v \in Returnable'
  BY <1>2, <1>3, <1>5
<1>10. QED
  BY <1>6, <1>7, <1>8, <1>9 DEF FilesOrdered, Invalid

\* A save publishes its file or goes on to undo.
LEMMA PublishAgrees ==
  ASSUME NEW c \in Callers, Before(c), Publish(c)
  PROVE  FilesOrdered' /\ Agreed(c)
<1>1. PICK l : l = local[c]
  OBVIOUS
<1>2. /\ local \in [Callers -> Locals] /\ l.op \in {"load", "update"}
      /\ SaveAgrees(l) /\ WrittenAgrees(l)
      /\ l.write \in Writes /\ l.write < next
  BY <1>1, PublishingAgrees DEF Publish, Publishing
<1>3. /\ file = None /\ l.write \in Backups /\ Newest(l.write)
      /\ \A b \in Backups : previous[b] < l.write
  BY <1>1 DEF Publish, Before, PointAgrees
<1>4. /\ UNCHANGED local /\ UNCHANGED <<previous, content, next, attempted, durable>>
  BY DEF Publish, writes, user
<1>5. CASE file' = l.write /\ Goto(c, "remove backup")
  <2>1. FilesOrdered'
    BY <1>1, <1>4, <1>5, Published DEF Publish
  <2>2. SaveAgrees(l)' /\ WrittenAgrees(l)' /\ l.write < next'
    BY <1>2, <1>4 DEF SaveAgrees, WrittenAgrees, Returnable
  <2>3. PointAgrees("remove backup", l)'
    BY <1>2, <1>5, <2>2 DEF PointAgrees, Publishing
  <2>4. Moves(c, "remove backup", l)
    BY <1>1, <1>2, <1>4, <1>5 DEF Moves, Goto
  <2>5. QED
    BY <2>1, <2>3, <2>4 DEF Agreed
<1>6. CASE Goto(c, "undo") /\ UNCHANGED file
  <2>1. PointAgrees("undo", l)
    BY <1>2, <1>3 DEF PointAgrees, Publishing
  <2>2. QED
    BY <1>1, <1>4, <1>6, <2>1, GoesOnAgrees DEF DiskSame
<1>7. QED
  BY <1>1, <1>5, <1>6 DEF Publish

\* The backup comes back or stays the newest: the settings of the failed save are not found.
LEMMA UndoAgrees ==
  ASSUME NEW c \in Callers, Before(c), Undo(c)
  PROVE  FilesOrdered' /\ Agreed(c)
<1>1. PICK w : w = local[c].write
  OBVIOUS
<1>2. /\ local[c].op \in {"load", "update"} /\ w \in Writes /\ w \in Nat /\ w < next
  BY <1>1, PublishingAgrees DEF Undo, Publishing
<1>3. /\ file = None /\ w \in Backups /\ Newest(w) /\ previous[w] # None
      /\ \A b \in Backups : previous[b] < w
  BY <1>1 DEF Undo, Before, PointAgrees, Backups
<1>4. /\ UNCHANGED <<content, next, attempted, durable>> /\ Return(c, "Io")
  BY DEF Undo, writes, user
<1>5. w < next' /\ local[c].write < next'
  BY <1>1, <1>2, <1>4
<1>6. \A b \in Backups : SettingsOf(previous[b]) \in 0..MaxWrites /\ SettingsOf(previous[b]) # w
  <2>1. ASSUME NEW b \in Backups
        PROVE  SettingsOf(previous[b]) \in 0..MaxWrites /\ SettingsOf(previous[b]) # w
    <3>1. PICK f : f = previous[b]
      OBVIOUS
    <3>2. f \in Writes /\ f \in Nat /\ f < w /\ Sound(f)
      BY <1>3, <3>1, FilesInts, FileSound DEF Before
    <3>3. SettingsOf(f) \in 0..MaxWrites /\ SettingsOf(f) <= f
      BY <3>2, FileSound DEF Before
    <3>4. SettingsOf(f) # w
      BY <1>2, <3>2, <3>3, FilesInts DEF Before
    <3>5. QED
      BY <3>1, <3>3, <3>4
  <2>2. QED
    BY <2>1
<1>7. CASE file' = previous[w] /\ previous' = [previous EXCEPT ![w] = None]
  <2>1. FilesOrdered' /\ \A v : Found(v)' <=> v = SettingsOf(previous[w])
    BY <1>3, <1>4, <1>7, MovedBack DEF Before
  <2>2. \A v \in 0..MaxWrites : Found(v)' => v # local[c].write
    BY <1>1, <1>3, <1>6, <2>1
  <2>3. Agreed(c)
    BY <1>1, <1>2, <1>4, <1>5, <2>2, ReturnAgrees DEF Before
  <2>4. QED
    BY <2>1, <2>3
<1>8. CASE UNCHANGED <<file, previous>>
  <2>1. DiskSame
    BY <1>4, <1>8 DEF DiskSame
  <2>2. \A v : Found(v) => v # w
    BY <1>3, <1>6 DEF Found
  <2>3. \A v \in 0..MaxWrites : Found(v)' => v # local[c].write
    BY <1>1, <2>1, <2>2, DiskKept
  <2>4. Agreed(c)
    BY <1>1, <1>2, <1>4, <1>5, <2>3, ReturnAgrees DEF Before
  <2>5. QED
    BY <2>1, <2>4, DiskKept DEF Before
<1>9. QED
  BY <1>1, <1>7, <1>8 DEF Undo

\* The backup goes when settings.json is there, so nobody would have found it.
LEMMA RemoveBackupAgrees ==
  ASSUME NEW c \in Callers, Before(c), RemoveBackup(c)
  PROVE  FilesOrdered' /\ Agreed(c)
<1>1. PICK w : w = local[c].write
  OBVIOUS
<1>2. /\ local[c].op \in {"load", "update"} /\ w \in Writes
      /\ SaveAgrees(local[c]) /\ WrittenAgrees(local[c])
  BY <1>1, PublishingAgrees DEF RemoveBackup, Publishing
<1>3. file = w /\ w # None
  BY <1>1, <1>2, FilesInts DEF RemoveBackup, Before, PointAgrees
<1>4. /\ file' = file /\ content' = content /\ next' = next /\ attempted' = attempted
      /\ durable' = durable /\ Returnable' = Returnable /\ SaveEnds(c)
  BY DEF RemoveBackup, writes, user, Returnable
<1>5. \A b \in Backups' : b \in Backups /\ previous'[b] = previous[b]
  <2>1. previous \in [Writes -> Writes \union {None}]
    BY DEF Before, TypeInvariant, TypeOK
  <2>2. QED
    BY <1>1, <1>2, <2>1 DEF RemoveBackup, Backups
<1>6. \A v : Found(v)' => Found(v)
  BY <1>3, <1>4 DEF Found, SettingsOf, Invalid
<1>7. FilesOrdered'
  <2>1. file' # None => /\ file' < next'
                        /\ file' # 1 => content'[file'].form = "current"
                        /\ content'[file'].settings <= file'
                        /\ \A b \in Backups' : previous'[b] < file'
    BY <1>4, <1>5 DEF Before, FilesOrdered
  <2>2. \A b \in Backups' :
          /\ previous'[b] < next' /\ ~Invalid(previous[b])'
          /\ previous'[b] # 1 => content'[previous'[b]].form = "current"
          /\ content'[previous'[b]].settings <= previous'[b]
    BY <1>4, <1>5 DEF Before, FilesOrdered, Invalid
  <2>3. /\ \A a, b \in Backups' : previous'[a] = previous'[b] => a = b
        /\ \A u \in attempted' : u < next'
        /\ \A v \in 0..MaxWrites : Found(v)' => v \in Returnable'
    BY <1>4, <1>5, <1>6 DEF Before, FilesOrdered
  <2>4. QED
    BY <2>1, <2>2, <2>3 DEF FilesOrdered, Invalid
<1>8. Agreed(c)
  BY <1>1, <1>2, <1>3, <1>4, SaveEndsAgrees DEF Before
<1>9. QED
  BY <1>7, <1>8

\* The first save has nothing to put back.
LEMMA PublishNewAgrees ==
  ASSUME NEW c \in Callers, Before(c), PublishNew(c)
  PROVE  FilesOrdered' /\ Agreed(c)
<1>1. PICK w : w = local[c].write
  OBVIOUS
<1>2. /\ local[c].op \in {"load", "update"} /\ w \in Writes /\ w \in Nat /\ w > 0 /\ w < next
      /\ SaveAgrees(local[c]) /\ WrittenAgrees(local[c])
  BY <1>1, PublishingAgrees, FilesInts DEF PublishNew, Publishing, Before
<1>3. file = None /\ Backups = {}
  BY DEF PublishNew, Before, PointAgrees
<1>4. UNCHANGED <<previous, content, next, attempted, durable>>
  BY DEF PublishNew, writes, user
<1>5. CASE file' = w /\ SaveEnds(c)
  <2>1. FilesOrdered'
    BY <1>1, <1>4, <1>5, Published DEF PublishNew
  <2>2. Agreed(c)
    BY <1>1, <1>2, <1>4, <1>5, SaveEndsAgrees DEF Before
  <2>3. QED
    BY <2>1, <2>2
<1>6. CASE Return(c, "Io") /\ UNCHANGED file
  <2>1. DiskSame
    BY <1>4, <1>6 DEF DiskSame
  <2>2. \A v : Found(v) => v # w
    BY <1>2, <1>3 DEF Found, Default
  <2>3. \A v \in 0..MaxWrites : Found(v)' => v # local[c].write
    BY <1>1, <2>1, <2>2, DiskKept
  <2>4. local[c].write < next'
    BY <1>1, <1>2, <1>4
  <2>5. Agreed(c)
    BY <1>2, <1>6, <2>3, <2>4, ReturnAgrees DEF Before
  <2>6. QED
    BY <2>1, <2>5, DiskKept DEF Before
<1>7. QED
  BY <1>1, <1>5, <1>6 DEF PublishNew

-----------------------------------------------------------------------------
\* LoadInvariant holds at the start.
LEMMA LoadInit == Init => LoadInvariant
<1> SUFFICES ASSUME Init  PROVE LoadInvariant
  OBVIOUS
<1>1. TypeInvariant
  BY TypesInit
<1>2. /\ Backups = {} /\ attempted = {} /\ next = 2 /\ file \in {None, 1}
      /\ 1 \in Writes
  BY SettingsAssumption DEF Init, Backups, Writes
<1>3. content[1].settings = 1
  BY <1>2 DEF Init
<1>4. \A v : Found(v) => v = durable
  BY <1>2, <1>3, SettingsAssumption DEF Init, Found, SettingsOf, Invalid
<1>5. FilesOrdered
  BY <1>2, <1>3, <1>4 DEF FilesOrdered, Returnable
<1>6. ASSUME NEW c \in Callers
      PROVE  PointAgrees(pc[c], local[c])
  <2>1. PICK l : l = local[c] /\ l.write = 0 /\ pc[c] = "idle"
    BY DEF Init, NoLocals
  <2>2. PointAgrees("idle", l)
    BY <1>2, <2>1 DEF PointAgrees, Publishing
  <2>3. QED
    BY <2>1, <2>2
<1>7. QED
  BY <1>1, <1>5, <1>6 DEF LoadInvariant, TypeInvariant

\* One operation of the only caller after the other.
LEMMA LoadStep ==
  ASSUME OneCaller
  PROVE  LoadInvariant /\ [Next]_vars => LoadInvariant'
<1> SUFFICES ASSUME LoadInvariant, [Next]_vars  PROVE LoadInvariant'
  OBVIOUS
<1>1. TypeInvariant /\ TypeInvariant'
  BY TypesStep DEF LoadInvariant, TypeInvariant
<1>2. ASSUME NEW c \in Callers
      PROVE  Before(c)
  BY <1>1 DEF Before, LoadInvariant
<1>3. ASSUME NEW c \in Callers, FilesOrdered', Agreed(c)
      PROVE  LoadInvariant'
  <2>1. PICK point, l : Moves(c, point, l) /\ PointAgrees(point, l)'
    BY <1>3 DEF Agreed
  <2>2. pc'[c] = point /\ local'[c] = l
    BY <1>1, <2>1 DEF Moves, TypeInvariant, TypeOK
  <2>3. PointAgrees(pc[c], local[c])'
    BY <2>1, <2>2
  <2>4. \A d \in Callers : PointAgrees(pc[d], local[d])'
    BY <2>3 DEF OneCaller
  <2>5. QED
    BY <1>1, <1>3, <2>4 DEF LoadInvariant, TypeInvariant
<1>4. CASE Crash
  <2>1. DiskSame
    BY <1>4 DEF Crash, DiskSame, files, writes, user
  <2>2. ASSUME NEW c \in Callers
        PROVE  PointAgrees(pc[c], local[c])'
    <3>1. PICK l : l = NoLocals
      OBVIOUS
    <3>2. PointAgrees("idle", l)
      BY <1>1, <3>1, FilesInts DEF PointAgrees, Publishing, NoLocals
    <3>3. PointAgrees("idle", l)'
      BY <2>1, <3>2, DiskKept
    <3>4. pc'[c] = "idle" /\ local'[c] = l
      BY <1>4, <3>1 DEF Crash
    <3>5. QED
      BY <3>3, <3>4
  <2>3. FilesOrdered'
    BY <2>1, DiskKept DEF LoadInvariant
  <2>4. QED
    BY <1>1, <2>2, <2>3 DEF LoadInvariant, TypeInvariant
<1>5. ASSUME NEW c \in Callers, Load(c) \/ Update(c) \/ Answered(c)
      PROVE  LoadInvariant'
  BY <1>2, <1>3, <1>5, CommandAgrees, AnsweredAgrees
<1>6. ASSUME NEW c \in Callers,
             \/ Exists(c) \/ ReadDirectory(c) \/ RestoreBackup(c) \/ RemoveStale(c)
             \/ Read(c) \/ Quarantine(c)
      PROVE  LoadInvariant'
  BY <1>2, <1>3, <1>6, ExistsAgrees, ReadDirectoryAgrees, RestoreBackupAgrees, ReadAgrees,
     QuarantineAgrees
<1>7. ASSUME NEW c \in Callers,
             \/ WriteTemporary(c) \/ LookForFile(c) \/ BackUp(c) \/ Publish(c)
             \/ Undo(c) \/ RemoveBackup(c) \/ PublishNew(c)
      PROVE  LoadInvariant'
  BY <1>2, <1>3, <1>7, WriteTemporaryAgrees, ExistsAgrees, BackUpAgrees, PublishAgrees,
     UndoAgrees, RemoveBackupAgrees, PublishNewAgrees
<1>8. CASE UNCHANGED vars
  <2>1. DiskSame /\ pc' = pc /\ local' = local
    BY <1>8 DEF vars, files, writes, user, DiskSame
  <2>2. ASSUME NEW c \in Callers
        PROVE  PointAgrees(pc[c], local[c])'
    <3>1. PICK point, l : point = pc[c] /\ l = local[c]
      OBVIOUS
    <3>2. PointAgrees(point, l)'
      BY <1>2, <2>1, <3>1, DiskKept DEF Before
    <3>3. QED
      BY <2>1, <3>1, <3>2
  <2>3. FilesOrdered'
    BY <2>1, DiskKept DEF LoadInvariant
  <2>4. QED
    BY <1>1, <2>2, <2>3 DEF LoadInvariant, TypeInvariant
<1>9. QED
  BY <1>4, <1>5, <1>6, <1>7, <1>8 DEF Next, Step

\* A load of the only caller returns the settings of the last save that succeeded or, if
\* the process ended during a later one, of that one, for any number of saves, loads,
\* failed file operations and ends of the process (save, restore_interrupted_save).
THEOREM LoadReturnsSavedAlways ==
  ASSUME OneCaller
  PROVE  Spec => []LoadReturnsSaved
<1>1. LoadInvariant => LoadReturnsSaved
  <2>1. ASSUME LoadInvariant, NEW c \in Callers, pc[c] = "done", local[c].op = "load",
               local[c].result = "Ok"
        PROVE  local[c].value \in attempted \union {durable}
    BY <2>1 DEF LoadInvariant, PointAgrees, AnswerAgrees, Returnable
  <2>2. QED
    BY <2>1 DEF LoadReturnsSaved
<1>2. QED
  BY <1>1, LoadInit, LoadStep, PTL DEF Spec

-----------------------------------------------------------------------------
(* TempDirectories: LiveKept is not inductive alone, since RemoveOrphan would *)
(* break it if the janitor could hold a live process for an orphan.          *)
(* OrphansGone excludes that, and LocksOwned is the reason: the marker is    *)
(* written under the owner's lock and read under the janitor's.              *)

CONSTANTS Processes
VARIABLES stage, directories, lockFiles, markers, lockHolder, janitor, sweep
Directories == INSTANCE TempDirectories

LEMMA DirectoriesInit == Directories!Init => Directories!DirectoryInvariant
BY DEF Directories!Init, Directories!DirectoryInvariant, Directories!TypeOK,
   Directories!Stages, Directories!SweepSteps, Directories!NoSweep, Directories!LiveKept,
       Directories!LocksOwned, Directories!OrphansGone, Directories!Owning, Directories!Gone

LEMMA DirectoriesOpening ==
    ASSUME Directories!NoneIsNoProcess, Directories!DirectoryInvariant,
        NEW p \in Processes, Directories!Opening(p)
    PROVE  Directories!DirectoryInvariant'
<1> USE DEF Directories!NoneIsNoProcess, Directories!DirectoryInvariant,
    Directories!TypeOK, Directories!Stages, Directories!SweepSteps, Directories!LiveKept,
            Directories!LocksOwned, Directories!OrphansGone, Directories!Owning,
            Directories!Gone, Directories!Advance
<1>1. CASE Directories!CreateDirectory(p)
  BY <1>1 DEF Directories!CreateDirectory
<1>2. CASE Directories!CreateLockFile(p)
  BY <1>2 DEF Directories!CreateLockFile
<1>3. CASE Directories!LockOwn(p)
  BY <1>3 DEF Directories!LockOwn
<1>4. CASE Directories!WriteMarker(p)
  BY <1>4 DEF Directories!WriteMarker
<1>5. CASE Directories!SyncMarker(p)
  BY <1>5 DEF Directories!SyncMarker
<1>6. CASE Directories!SkipSweep(p)
  BY <1>6 DEF Directories!SkipSweep
<1>7. CASE Directories!OpenFails(p)
  BY <1>7 DEF Directories!OpenFails, Directories!ReleaseOwn
<1> QED
  BY <1>1, <1>2, <1>3, <1>4, <1>5, <1>6, <1>7 DEF Directories!Opening

LEMMA DirectoriesEnding ==
    ASSUME Directories!NoneIsNoProcess, Directories!DirectoryInvariant,
        NEW p \in Processes, Directories!Ending(p)
    PROVE  Directories!DirectoryInvariant'
<1> USE DEF Directories!NoneIsNoProcess, Directories!DirectoryInvariant,
    Directories!TypeOK, Directories!Stages, Directories!SweepSteps, Directories!LiveKept,
            Directories!LocksOwned, Directories!OrphansGone, Directories!Owning,
            Directories!Gone, Directories!Advance
<1>1. CASE Directories!GiveUpLock(p)
  BY <1>1 DEF Directories!GiveUpLock, Directories!ReleaseOwn
<1>2. CASE Directories!RemoveOwn(p)
  BY <1>2 DEF Directories!RemoveOwn, Directories!Remove
<1>3. CASE Directories!End(p) /\ janitor = p
  BY <1>3 DEF Directories!End, Directories!NoSweep
<1>4. CASE Directories!End(p) /\ janitor # p
  BY <1>4 DEF Directories!End, Directories!ReleaseOwn
<1> QED
  BY <1>1, <1>2, <1>3, <1>4 DEF Directories!Ending

LEMMA DirectoriesCollecting ==
    ASSUME Directories!NoneIsNoProcess, Directories!DirectoryInvariant,
        NEW p \in Processes, Directories!Collecting(p)
    PROVE  Directories!DirectoryInvariant'
<1> USE DEF Directories!NoneIsNoProcess, Directories!DirectoryInvariant,
    Directories!TypeOK, Directories!Stages, Directories!SweepSteps, Directories!LiveKept,
            Directories!LocksOwned, Directories!OrphansGone, Directories!Owning,
            Directories!Gone, Directories!Sweeping, Directories!GoOn
<1>1. CASE Directories!BeginSweep(p)
  BY <1>1 DEF Directories!BeginSweep
<1>2. ASSUME NEW d \in Processes, Directories!PassOver(p, d)
      PROVE  Directories!DirectoryInvariant'
  BY <1>2 DEF Directories!PassOver
<1>3. ASSUME NEW d \in Processes, Directories!OpenLockFile(p, d)
      PROVE  Directories!DirectoryInvariant'
  BY <1>3 DEF Directories!OpenLockFile
<1>4. CASE Directories!TryLock(p)
  <2>1. janitor = p /\ sweep.at \in Processes /\ sweep.step = "opened"
    BY <1>4 DEF Directories!TryLock
  <2>2. CASE lockHolder[sweep.at] = "none"
    <3>1. sweep' = [sweep EXCEPT !.step = "holding"]
      BY <1>4, <2>2 DEF Directories!TryLock
    <3>2. /\ sweep'.at = sweep.at
          /\ sweep'.step = "holding"
          /\ sweep'.todo = sweep.todo
          /\ sweep' \in [todo : SUBSET Processes,
                        at : Processes \cup {None},
                        step : Directories!SweepSteps]
      BY <3>1
    <3>3. /\ lockHolder' = [lockHolder EXCEPT ![sweep.at] = "janitor"]
          /\ UNCHANGED <<stage, directories, lockFiles, markers, janitor>>
      BY <1>4, <2>2 DEF Directories!TryLock
    <3> QED
      BY <2>1, <2>2, <3>2, <3>3
  <2>3. CASE lockHolder[sweep.at] # "none"
    BY <1>4, <2>1, <2>3 DEF Directories!TryLock
  <2> QED
    BY <2>2, <2>3
<1>5. CASE Directories!ReadMarker(p)
  BY <1>5 DEF Directories!ReadMarker
<1>6. CASE Directories!Unlock(p)
  BY <1>6 DEF Directories!Unlock
<1>7. CASE Directories!RemoveOrphan(p)
  BY <1>7 DEF Directories!RemoveOrphan, Directories!Remove
<1>8. CASE Directories!EndSweep(p)
  BY <1>8 DEF Directories!EndSweep, Directories!NoSweep
<1> QED
  BY <1>1, <1>2, <1>3, <1>4, <1>5, <1>6, <1>7, <1>8 DEF Directories!Collecting

(* In every reachable state the directory of a live process is there with  *)
(* its lock and its marker: cleanup_orphans never takes it, whatever other *)
(* processes start, end or crash meanwhile (temp.rs, QueryTempManager::open *)
(* and cleanup_orphans_with_janitor).                                      *)
THEOREM LiveDirectoriesKept ==
    ASSUME Directories!NoneIsNoProcess
    PROVE  Directories!Spec => [](Directories!TypeOK /\ Directories!LiveKept)
<1>1. Directories!DirectoryInvariant /\ [Directories!Next]_(Directories!vars) => Directories!DirectoryInvariant'
  <2> SUFFICES ASSUME Directories!DirectoryInvariant, [Directories!Next]_(Directories!vars)
               PROVE  Directories!DirectoryInvariant'
    OBVIOUS
  <2>1. CASE Directories!Next
    BY <2>1, Directories!NoneIsNoProcess, DirectoriesOpening, DirectoriesEnding,
       DirectoriesCollecting DEF Directories!Next
  <2>2. CASE UNCHANGED Directories!vars
    BY <2>2 DEF Directories!vars, Directories!DirectoryInvariant, Directories!TypeOK,
       Directories!LiveKept, Directories!LocksOwned,
                Directories!OrphansGone
  <2> QED
    BY <2>1, <2>2
<1>2. Directories!DirectoryInvariant => Directories!TypeOK /\ Directories!LiveKept
  BY DEF Directories!DirectoryInvariant
<1> QED
  BY DirectoriesInit, <1>1, <1>2, PTL DEF Directories!Spec

-----------------------------------------------------------------------------
(* TempReservations: a sum is the number of its units, so what the loop of   *)
(* budget_locked adds up is a fact about cardinalities, and InsertUnits is   *)
(* its one step.  BudgetInvariant ties the loop's running total to the       *)
(* reservations it has seen, which nobody else can change while it holds     *)
(* their mutex.                                                              *)

CONSTANTS Leases, Amounts, HardCap, SafetyReserve
VARIABLES leasePc, reserved, allowance, active, present, bytes, mutex, count, measured,
    limit, cacheBytes, free, clear
Budget == INSTANCE TempReservations WITH pc <- leasePc

-----------------------------------------------------------------------------
(* Sums.                                                                   *)

LEMMA SameCounts ==
    /\ \A S : Budget!Cardinality(S) = Cardinality(S)
    /\ \A S : Budget!IsFiniteSet(S) <=> IsFiniteSet(S)
BY DEF Budget!Cardinality, Cardinality, Budget!IsFiniteSet, IsFiniteSet

LEMMA UnitsOfOne ==
    ASSUME NEW q, NEW n \in Nat
    PROVE  /\ IsFiniteSet({q} \X (1..n))
           /\ Cardinality({q} \X (1..n)) = n
<1>1. IsFiniteSet({q}) /\ Cardinality({q}) = 1
  BY FS_Singleton
<1>2. IsFiniteSet(1..n) /\ Cardinality(1..n) = n
  BY FS_Interval
<1>3. /\ IsFiniteSet({q} \X (1..n))
      /\ Cardinality({q} \X (1..n)) = Cardinality({q}) * Cardinality(1..n)
  BY <1>1, <1>2, FS_Product
<1> QED
  BY <1>1, <1>2, <1>3

LEMMA UnitsFinite ==
    ASSUME NEW S, IsFiniteSet(S), NEW T, S \subseteq T, NEW f \in [T -> Nat]
    PROVE  IsFiniteSet(Budget!Units(f, S)) /\ Budget!Total(f, S) \in Nat
<1>1. \A X \in {{q} \X (1..f[q]) : q \in S} : IsFiniteSet(X)
  <2> SUFFICES ASSUME NEW q \in S
               PROVE  IsFiniteSet({q} \X (1..f[q]))
    OBVIOUS
  <2>1. f[q] \in Nat
    OBVIOUS
  <2> QED
    BY <2>1, UnitsOfOne
<1>2. IsFiniteSet({{q} \X (1..f[q]) : q \in S})
  <2> DEFINE g == [q \in S |-> {q} \X (1..f[q])]
             R == {{q} \X (1..f[q]) : q \in S}
  <2>1. g \in Surjection(S, R)
    BY DEF Surjection
  <2> QED
    BY <2>1, FS_Surjection
<1>3. IsFiniteSet(Budget!Units(f, S))
  BY <1>1, <1>2, FS_UNION DEF Budget!Units
<1> QED
  BY SameCounts, <1>3, FS_CardinalityType DEF Budget!Total

(* One round of a sum: a new member adds its value.                        *)
LEMMA InsertUnits ==
    ASSUME NEW S, IsFiniteSet(S), NEW T, S \subseteq T,
           NEW q \in T, q \notin S, NEW f \in [T -> Nat]
    PROVE  Budget!Total(f, S \cup {q}) = Budget!Total(f, S) + f[q]
<1> DEFINE A == Budget!Units(f, S)
           B == {q} \X (1..f[q])
<1>1. Budget!Units(f, S \cup {q}) = A \cup B
  BY DEF Budget!Units
<1>2. A \cap B = {}
  BY DEF Budget!Units
<1>3. IsFiniteSet(A) /\ Cardinality(A) \in Nat
  BY SameCounts, UnitsFinite DEF Budget!Total
<1>4. IsFiniteSet(B) /\ Cardinality(B) = f[q]
  BY UnitsOfOne
<1>5. Cardinality(A \cup B) = Cardinality(A) + Cardinality(B) - Cardinality(A \cap B)
  BY <1>3, <1>4, FS_Union
<1>6. Cardinality(A \cap B) = 0
  <2> HIDE DEF A, B
  <2> QED
    BY <1>2, FS_EmptySet
<1>7. Budget!Total(f, S \cup {q}) = Cardinality(A \cup B) /\ Budget!Total(f,
    S) = Cardinality(A)
  BY SameCounts, <1>1 DEF Budget!Total
<1>8. f[q] \in Nat
  OBVIOUS
<1> HIDE DEF A, B
<1> QED
  BY <1>3, <1>4, <1>5, <1>6, <1>7, <1>8

(* A sum depends on the values of its members only.                        *)
LEMMA SameUnits ==
    ASSUME NEW S, NEW f, NEW g, \A q \in S : f[q] = g[q]
    PROVE  Budget!Total(f, S) = Budget!Total(g, S)
<1>1. \A q \in S : {q} \X (1..f[q]) = {q} \X (1..g[q])
  OBVIOUS
<1>2. Budget!Units(f, S) = Budget!Units(g, S)
  BY <1>1 DEF Budget!Units
<1> QED
  BY <1>2 DEF Budget!Total

LEMMA EmptySum == ASSUME NEW f PROVE Budget!Total(f, {}) = 0
<1>1. Budget!Units(f, {}) = {}
  BY DEF Budget!Units
<1> QED
  BY SameCounts, <1>1, FS_EmptySet DEF Budget!Total

-----------------------------------------------------------------------------
LEMMA BudgetInit == Budget!AmountsAreCounts /\ Budget!Init => Budget!BudgetInvariant
<1> SUFFICES ASSUME Budget!AmountsAreCounts, Budget!Init
             PROVE  Budget!BudgetInvariant
  OBVIOUS
<1>1. limit \in Nat /\ free \in Nat
  BY DEF Budget!AmountsAreCounts, Budget!Init, Budget!Smaller
<1>2. Budget!TypeOK
  BY <1>1 DEF Budget!AmountsAreCounts, Budget!Init, Budget!TypeOK, Budget!Steps,
     Budget!Reserving, Budget!NoCount, Budget!NoClear
<1>3. IsFiniteSet({})
  BY FS_EmptySet
<1> QED
  BY SameCounts, <1>2, <1>3 DEF Budget!AmountsAreCounts, Budget!Init,
     Budget!BudgetInvariant, Budget!MutexHeld, Budget!ChargesCover,
                    Budget!LeasesReserved, Budget!Reserving

(* The budget that is granted fits beside what has been charged.           *)
LEMMA BudgetFits ==
    ASSUME Budget!AmountsAreCounts, Budget!TypeOK, NEW cap \in Amounts,
        Budget!Budget(cap) > 0
    PROVE  /\ Budget!Budget(cap) \in Nat
           /\ count.charged + Budget!Budget(cap) <= limit
<1>1. /\ count.charged \in Nat /\ count.cache \in Nat /\ count.total \in Nat
      /\ count.active \in Nat /\ count.free \in Nat /\ count.remaining \in Nat
      /\ limit \in Nat /\ SafetyReserve \in Nat /\ cap \in Nat
  BY DEF Budget!AmountsAreCounts, Budget!TypeOK
<1>2. \A a, b \in Nat : Budget!Monus(a, b) \in Nat /\ Budget!Monus(a, b) <= a
  BY DEF Budget!Monus
<1>3. Budget!FreeRemaining \in Nat
  BY <1>1, <1>2 DEF Budget!FreeRemaining
<1> DEFINE occupied == count.cache + Budget!Monus(count.total, count.active)
           rest == Budget!Monus(limit, occupied)
<1>4. rest \in Nat /\ rest <= limit
  <2>1. Budget!Monus(count.total, count.active) \in Nat
    BY <1>1 DEF Budget!Monus
  <2>2. occupied \in Nat
    BY <1>1, <2>1
  <2> HIDE DEF occupied
  <2> QED
    BY <1>1, <2>2 DEF Budget!Monus
<1>5. Budget!LimitRemaining = Budget!Monus(rest, count.charged)
  BY DEF Budget!LimitRemaining
<1> HIDE DEF rest
<1>6. Budget!LimitRemaining \in Nat
  BY <1>1, <1>2, <1>4, <1>5
<1>7. Budget!Budget(cap) \in Nat /\ Budget!Budget(cap) <= Budget!LimitRemaining
  BY <1>1, <1>3, <1>6 DEF Budget!Budget, Budget!Smaller
<1>8. Budget!LimitRemaining > 0
  BY <1>6, <1>7
<1>9. Budget!LimitRemaining + count.charged = rest
  BY <1>1, <1>4, <1>5, <1>8 DEF Budget!Monus
<1> QED
  BY <1>1, <1>4, <1>6, <1>7, <1>9

(* The sum over all reservations once q has been granted its budget.       *)
LEMMA GrantFits ==
    ASSUME Budget!AmountsAreCounts, Budget!BudgetInvariant, NEW q \in Leases,
        NEW cap \in Amounts,
           Budget!Grant(q, cap)
    PROVE  Budget!Total(allowance', reserved') <= limit
<1>1. /\ IsFiniteSet(reserved) /\ reserved \subseteq Leases
      /\ allowance \in [Leases -> Nat]
      /\ q \notin reserved
  BY SameCounts DEF Budget!BudgetInvariant, Budget!TypeOK, Budget!MutexHeld,
     Budget!LeasesReserved, Budget!Reserving, Budget!Grant
<1>2. Budget!Budget(cap) \in Nat /\ count.charged + Budget!Budget(cap) <= limit
  BY BudgetFits DEF Budget!BudgetInvariant, Budget!Grant
<1>3. Budget!Total(allowance, reserved) <= count.charged
  BY DEF Budget!BudgetInvariant, Budget!ChargesCover, Budget!Grant, Budget!AmountsAreCounts
<1>4. /\ reserved' = reserved \cup {q}
      /\ allowance' = [allowance EXCEPT ![q] = Budget!Budget(cap)]
  BY DEF Budget!Grant
<1>5. /\ allowance' \in [Leases -> Nat]
      /\ allowance'[q] = Budget!Budget(cap)
      /\ \A r \in reserved : allowance'[r] = allowance[r]
  BY <1>1, <1>2, <1>4
<1>6. Budget!Total(allowance', reserved) = Budget!Total(allowance, reserved)
  BY <1>5, SameUnits
<1>7. PICK f \in [Leases -> Nat] : f = allowance'
  BY <1>5
<1>8. Budget!Total(f, reserved \cup {q}) = Budget!Total(f, reserved) + f[q]
  BY <1>1, InsertUnits
<1>9. Budget!Total(allowance, reserved) \in Nat
  BY <1>1, UnitsFinite
<1> QED
  BY <1>2, <1>3, <1>4, <1>5, <1>6, <1>7, <1>8, <1>9 DEF Budget!BudgetInvariant,
     Budget!TypeOK

-----------------------------------------------------------------------------
(* A step that leaves the reservations and the count alone.                *)
LEMMA CoverStays ==
    ASSUME Budget!BudgetInvariant, UNCHANGED <<reserved, allowance, count>>,
           mutex' # None => mutex # None
    PROVE  Budget!ChargesCover'
BY DEF Budget!BudgetInvariant, Budget!ChargesCover, Budget!Total, Budget!Units

LEMMA BeginCorrect ==
    ASSUME Budget!AmountsAreCounts, Budget!BudgetInvariant, NEW q \in Leases,
        Budget!BeginBudget(q)
    PROVE  Budget!BudgetInvariant'
<1> USE DEF Budget!BudgetInvariant
<1>1. /\ bytes \in [Leases -> Nat]
      /\ present \subseteq Leases
      /\ IsFiniteSet(present)
  BY SameCounts DEF Budget!TypeOK, Budget!LeasesReserved
<1>2. PICK t \in Nat : t = Budget!Total(bytes, present)
  BY <1>1, UnitsFinite
<1>3. count' = [free |-> free, total |-> t, cache |-> cacheBytes, seen |-> {},
               active |-> 0, charged |-> 0, remaining |-> 0]
  BY <1>2 DEF Budget!BeginBudget, Budget!NoCount
<1>4. Budget!Total(allowance', count'.seen) = 0
  BY <1>3, EmptySum
<1>5. Budget!ChargesCover'
  BY <1>3, <1>4 DEF Budget!ChargesCover
<1>6. Budget!TypeOK'
  BY <1>3 DEF Budget!TypeOK, Budget!BeginBudget, Budget!Advance, Budget!Steps,
     Budget!Reserving, Budget!files, Budget!world
<1>7. Budget!MutexHeld'
  BY DEF Budget!AmountsAreCounts, Budget!TypeOK, Budget!MutexHeld, Budget!BeginBudget,
     Budget!Advance
<1>8. Budget!LeasesReserved'
  BY DEF Budget!TypeOK, Budget!LeasesReserved, Budget!BeginBudget, Budget!Advance,
     Budget!Reserving, Budget!files
<1> QED
  BY <1>5, <1>6, <1>7, <1>8

LEMMA ChargeCorrect ==
    ASSUME Budget!BudgetInvariant, NEW q \in Leases, NEW r \in Leases, Budget!Charge(q, r)
    PROVE  Budget!BudgetInvariant'
<1> USE DEF Budget!BudgetInvariant
<1>1. /\ allowance \in [Leases -> Nat] /\ bytes \in [Leases -> Nat]
      /\ reserved \subseteq Leases /\ IsFiniteSet(reserved)
      /\ mutex = q /\ mutex \in Leases \cup {None}
  BY SameCounts DEF Budget!TypeOK, Budget!LeasesReserved, Budget!Charge
<1>2. PICK b \in Nat :
        count' = [count EXCEPT !.seen = @ \cup {r}, !.active = @ + b,
                               !.charged = @ + Budget!Larger(allowance[r], b),
                               !.remaining = @ + Budget!Monus(allowance[r], b)]
  BY <1>1 DEF Budget!Charge
<1>3. PICK c \in Nat : c = Budget!Larger(allowance[r], b) /\ allowance[r] <= c
  BY <1>1 DEF Budget!Larger
<1>4. PICK m \in Nat : m = Budget!Monus(allowance[r], b)
  BY <1>1 DEF Budget!Monus
<1>5. /\ count'.seen = count.seen \cup {r}
      /\ count'.charged = count.charged + c
      /\ count' \in [free : Nat, total : Nat, cache : Nat, seen : SUBSET Leases,
                     active : Nat, charged : Nat, remaining : Nat]
  <2>1. count \in [free : Nat, total : Nat, cache : Nat, seen : SUBSET Leases,
                  active : Nat, charged : Nat, remaining : Nat]
    BY DEF Budget!TypeOK
  <2>2. count' = [free |-> count.free, total |-> count.total, cache |-> count.cache,
                 seen |-> count.seen \cup {r}, active |-> count.active + b,
                 charged |-> count.charged + c, remaining |-> count.remaining + m]
    BY <1>2, <1>3, <1>4, <2>1
  <2> QED
    BY <2>1, <2>2
<1>6. ASSUME mutex # None
      PROVE  Budget!ChargesCover'
  <2>1. /\ count.seen \subseteq reserved
        /\ Budget!Total(allowance, count.seen) <= count.charged
    BY <1>6 DEF Budget!ChargesCover
  <2>2. IsFiniteSet(count.seen) /\ count.seen \subseteq Leases
    BY <1>1, <2>1, FS_Subset
  <2>3. r \notin count.seen /\ r \in reserved
    BY DEF Budget!Charge
  <2>4. Budget!Total(allowance, count.seen \cup {r}) = Budget!Total(allowance,
      count.seen) + allowance[r]
    BY <1>1, <2>2, <2>3, InsertUnits
  <2>5. Budget!Total(allowance, count.seen) \in Nat
    BY <1>1, <2>2, UnitsFinite
  <2>6. Budget!Total(allowance, count.seen \cup {r}) <= count.charged + c
    BY <1>1, <1>3, <2>1, <2>4, <2>5 DEF Budget!TypeOK
  <2>7. Budget!Total(allowance', count'.seen) = Budget!Total(allowance, count.seen \cup {r})
    BY <1>5 DEF Budget!Charge
  <2> QED
    BY <1>5, <2>1, <2>3, <2>6, <2>7 DEF Budget!ChargesCover, Budget!Charge
<1>7. Budget!TypeOK'
  BY <1>5 DEF Budget!TypeOK, Budget!Charge, Budget!files, Budget!world
<1>8. Budget!MutexHeld' /\ Budget!LeasesReserved'
  BY DEF Budget!MutexHeld, Budget!LeasesReserved, Budget!Charge, Budget!files
<1>9. Budget!ChargesCover'
  BY <1>6 DEF Budget!ChargesCover, Budget!Charge
<1> QED
  BY <1>7, <1>8, <1>9

LEMMA AllocatingCorrect ==
    ASSUME Budget!AmountsAreCounts, Budget!BudgetInvariant, NEW q \in Leases,
        Budget!Allocating(q)
    PROVE  Budget!BudgetInvariant'
<1>1. CASE Budget!BeginBudget(q)
  BY <1>1, BeginCorrect
<1>2. ASSUME NEW r \in Leases, Budget!Charge(q, r)
      PROVE  Budget!BudgetInvariant'
  BY <1>2, ChargeCorrect
<1> USE DEF Budget!BudgetInvariant
<1>3. ASSUME NEW cap \in Amounts, Budget!Grant(q, cap)
      PROVE  Budget!BudgetInvariant'
  <2>1. Budget!Budget(cap) \in Nat
    BY <1>3, BudgetFits DEF Budget!Grant
  <2>2. IsFiniteSet(reserved')
    BY SameCounts, <1>3, FS_AddElement DEF Budget!Grant, Budget!LeasesReserved
  <2>3. Budget!TypeOK'
    BY <1>3, <2>1 DEF Budget!TypeOK, Budget!Grant, Budget!Advance, Budget!Steps,
       Budget!Reserving, Budget!files, Budget!world
  <2>4. Budget!MutexHeld' /\ Budget!ChargesCover'
    BY <1>3 DEF Budget!AmountsAreCounts, Budget!TypeOK, Budget!MutexHeld,
       Budget!ChargesCover, Budget!Grant, Budget!Advance
  <2>5. Budget!LeasesReserved'
    BY SameCounts, <1>3, <2>2 DEF Budget!TypeOK, Budget!LeasesReserved, Budget!Grant,
       Budget!Advance, Budget!Reserving, Budget!files
  <2> QED
    BY <2>3, <2>4, <2>5
<1>4. ASSUME NEW cap \in Amounts, Budget!Refuse(q, cap)
      PROVE  Budget!BudgetInvariant'
  <2>1. Budget!TypeOK'
    BY <1>4 DEF Budget!TypeOK, Budget!Refuse, Budget!Advance, Budget!Steps, Budget!files,
       Budget!world
  <2>2. Budget!MutexHeld' /\ Budget!ChargesCover'
    BY <1>4 DEF Budget!AmountsAreCounts, Budget!TypeOK, Budget!MutexHeld,
       Budget!ChargesCover, Budget!Refuse, Budget!Advance
  <2>3. Budget!LeasesReserved'
    BY <1>4 DEF Budget!TypeOK, Budget!LeasesReserved, Budget!Refuse, Budget!Advance,
       Budget!Reserving, Budget!files
  <2> QED
    BY <2>1, <2>2, <2>3
<1>5. CASE Budget!BudgetFails(q)
  <2>1. Budget!TypeOK'
    BY <1>5 DEF Budget!TypeOK, Budget!BudgetFails, Budget!Advance, Budget!Steps,
       Budget!files, Budget!world
  <2>2. Budget!MutexHeld' /\ Budget!ChargesCover'
    BY <1>5 DEF Budget!AmountsAreCounts, Budget!TypeOK, Budget!MutexHeld,
       Budget!ChargesCover, Budget!BudgetFails, Budget!Advance
  <2>3. Budget!LeasesReserved'
    BY <1>5 DEF Budget!TypeOK, Budget!LeasesReserved, Budget!BudgetFails, Budget!Advance,
       Budget!Reserving, Budget!files
  <2> QED
    BY <2>1, <2>2, <2>3
<1>6. CASE Budget!CreateDirectory(q)
  <2>1. IsFiniteSet(present')
    BY SameCounts, <1>6, FS_AddElement DEF Budget!CreateDirectory, Budget!LeasesReserved
  <2>2. Budget!TypeOK'
    BY <1>6 DEF Budget!TypeOK, Budget!CreateDirectory, Budget!Advance, Budget!Steps,
       Budget!Reserving, Budget!world
  <2>3. Budget!MutexHeld' /\ Budget!LeasesReserved'
    BY SameCounts, <1>6, <2>1 DEF Budget!TypeOK, Budget!MutexHeld, Budget!LeasesReserved,
       Budget!CreateDirectory, Budget!Advance,
                      Budget!Reserving
  <2>4. Budget!ChargesCover'
    BY <1>6, CoverStays DEF Budget!CreateDirectory
  <2> QED
    BY <2>2, <2>3, <2>4
<1>7. CASE Budget!CreateFails(q)
  <2>1. IsFiniteSet(reserved')
    BY SameCounts, <1>7, FS_RemoveElement DEF Budget!CreateFails, Budget!LeasesReserved
  <2>2. Budget!TypeOK'
    BY <1>7 DEF Budget!TypeOK, Budget!CreateFails, Budget!Advance, Budget!Steps,
       Budget!files, Budget!world
  <2>3. Budget!MutexHeld' /\ Budget!LeasesReserved'
    BY SameCounts, <1>7, <2>1 DEF Budget!TypeOK, Budget!MutexHeld, Budget!LeasesReserved,
       Budget!CreateFails, Budget!Advance,
                      Budget!Reserving, Budget!files
  <2>4. Budget!ChargesCover'
    BY <1>7 DEF Budget!ChargesCover, Budget!CreateFails
  <2> QED
    BY <2>2, <2>3, <2>4
<1>8. CASE Budget!Activate(q)
  <2>1. Budget!TypeOK'
    BY <1>8 DEF Budget!TypeOK, Budget!Activate, Budget!Advance, Budget!Steps,
       Budget!Reserving, Budget!files, Budget!world
  <2>2. Budget!MutexHeld' /\ Budget!LeasesReserved'
    BY <1>8 DEF Budget!TypeOK, Budget!MutexHeld, Budget!LeasesReserved, Budget!Activate,
       Budget!Advance, Budget!Reserving, Budget!files
  <2>3. Budget!ChargesCover'
    BY <1>8, CoverStays DEF Budget!Activate
  <2> QED
    BY <2>1, <2>2, <2>3
<1> QED
  BY <1>1, <1>2, <1>3, <1>4, <1>5, <1>6, <1>7, <1>8 DEF Budget!Allocating

LEMMA UsingCorrect ==
    ASSUME Budget!AmountsAreCounts, Budget!BudgetInvariant, NEW q \in Leases,
        Budget!Using(q)
    PROVE  Budget!BudgetInvariant'
<1> USE DEF Budget!BudgetInvariant
<1>1. ASSUME NEW n \in Amounts, Budget!Write(q, n)
      PROVE  Budget!BudgetInvariant'
  <2>1. Budget!TypeOK'
    BY <1>1 DEF Budget!AmountsAreCounts, Budget!TypeOK, Budget!Write, Budget!world
  <2>2. Budget!MutexHeld' /\ Budget!LeasesReserved'
    BY <1>1 DEF Budget!MutexHeld, Budget!LeasesReserved, Budget!Write
  <2>3. Budget!ChargesCover'
    BY <1>1, CoverStays DEF Budget!Write
  <2> QED
    BY <2>1, <2>2, <2>3
<1>2. CASE Budget!Measure(q)
  <2>1. Budget!TypeOK'
    BY <1>2 DEF Budget!TypeOK, Budget!Measure, Budget!Advance, Budget!Steps,
       Budget!Reserving, Budget!files, Budget!world
  <2>2. Budget!MutexHeld' /\ Budget!LeasesReserved'
    BY <1>2 DEF Budget!TypeOK, Budget!MutexHeld, Budget!LeasesReserved, Budget!Measure,
       Budget!Advance, Budget!Reserving, Budget!files
  <2>3. Budget!ChargesCover'
    BY <1>2, CoverStays DEF Budget!Measure
  <2> QED
    BY <2>1, <2>2, <2>3
<1>3. CASE Budget!CommitUsage(q)
  <2>1. Budget!TypeOK'
    BY <1>3 DEF Budget!TypeOK, Budget!CommitUsage, Budget!Advance, Budget!Steps,
       Budget!Reserving, Budget!files, Budget!world
  <2>2. Budget!MutexHeld' /\ Budget!LeasesReserved'
    BY <1>3 DEF Budget!TypeOK, Budget!MutexHeld, Budget!LeasesReserved,
       Budget!CommitUsage, Budget!Advance, Budget!Reserving, Budget!files
  <2>3. Budget!ChargesCover'
    BY <1>3 DEF Budget!ChargesCover, Budget!CommitUsage
  <2> QED
    BY <2>1, <2>2, <2>3
<1>4. CASE Budget!Deactivate(q)
  <2>1. Budget!TypeOK'
    BY <1>4 DEF Budget!TypeOK, Budget!Deactivate, Budget!Advance, Budget!Steps,
       Budget!Reserving, Budget!files, Budget!world
  <2>2. Budget!MutexHeld' /\ Budget!LeasesReserved'
    BY <1>4 DEF Budget!TypeOK, Budget!MutexHeld, Budget!LeasesReserved,
       Budget!Deactivate, Budget!Advance, Budget!Reserving, Budget!files
  <2>3. Budget!ChargesCover'
    BY <1>4, CoverStays DEF Budget!Deactivate
  <2> QED
    BY <2>1, <2>2, <2>3
<1>5. CASE Budget!Unreserve(q)
  <2>1. IsFiniteSet(reserved')
    BY SameCounts, <1>5, FS_RemoveElement DEF Budget!Unreserve, Budget!LeasesReserved
  <2>2. Budget!TypeOK'
    BY <1>5 DEF Budget!TypeOK, Budget!Unreserve, Budget!Advance, Budget!Steps,
       Budget!files, Budget!world
  <2>3. Budget!MutexHeld' /\ Budget!LeasesReserved'
    BY SameCounts, <1>5, <2>1 DEF Budget!TypeOK, Budget!MutexHeld, Budget!LeasesReserved,
       Budget!Unreserve, Budget!Advance,
                      Budget!Reserving, Budget!files
  <2>4. Budget!ChargesCover'
    BY <1>5 DEF Budget!ChargesCover, Budget!Unreserve
  <2> QED
    BY <2>2, <2>3, <2>4
<1>6. CASE Budget!RemoveDirectory(q)
  <2>1. IsFiniteSet(present')
    BY SameCounts, <1>6, FS_RemoveElement DEF Budget!RemoveDirectory,
       Budget!LeasesReserved, Budget!files
  <2>2. Budget!TypeOK'
    BY <1>6 DEF Budget!TypeOK, Budget!RemoveDirectory, Budget!Advance, Budget!Steps,
       Budget!files, Budget!world
  <2>3. Budget!MutexHeld' /\ Budget!LeasesReserved'
    BY SameCounts, <1>6, <2>1 DEF Budget!TypeOK, Budget!MutexHeld, Budget!LeasesReserved,
       Budget!RemoveDirectory, Budget!Advance,
                      Budget!Reserving
  <2>4. Budget!ChargesCover'
    BY <1>6, CoverStays DEF Budget!RemoveDirectory
  <2> QED
    BY <2>2, <2>3, <2>4
<1> QED
  BY <1>1, <1>2, <1>3, <1>4, <1>5, <1>6 DEF Budget!Using

(* clear_inactive changes files only, and the world only its own numbers.  *)
LEMMA OthersCorrect ==
    ASSUME Budget!AmountsAreCounts, Budget!BudgetInvariant, Budget!Clearing \/ Budget!World
    PROVE  Budget!BudgetInvariant'
<1> USE DEF Budget!BudgetInvariant
<1>1. UNCHANGED <<leasePc, reserved, allowance, active, mutex, count, measured>>
  BY DEF Budget!Clearing, Budget!World, Budget!BeginClear, Budget!ListDirectories,
     Budget!EndClear, Budget!ClearDirectory,
         Budget!SetLimit, Budget!SetCacheBytes, Budget!SpaceChanges
<1>2. Budget!TypeOK'
  <2>1. CASE Budget!BeginClear
    BY <2>1 DEF Budget!TypeOK, Budget!BeginClear, Budget!files, Budget!world
  <2>2. CASE Budget!ListDirectories
    <3>1. clear' = [step |-> "removing", kept |-> clear.kept,
                    todo |-> present \ clear.kept]
      BY <2>2 DEF Budget!TypeOK, Budget!ListDirectories
    <3> QED
      BY <2>2, <3>1 DEF Budget!TypeOK, Budget!ListDirectories, Budget!files, Budget!world
  <2>3. CASE Budget!EndClear
    BY <2>3 DEF Budget!TypeOK, Budget!EndClear, Budget!NoClear, Budget!files, Budget!world
  <2>4. ASSUME NEW r \in Leases, Budget!ClearDirectory(r)
        PROVE  Budget!TypeOK'
    <3>1. clear' = [step |-> clear.step, kept |-> clear.kept, todo |-> clear.todo \ {r}]
      BY <2>4 DEF Budget!TypeOK, Budget!ClearDirectory
    <3> QED
      BY <2>4, <3>1 DEF Budget!TypeOK, Budget!ClearDirectory, Budget!files, Budget!world
  <2>5. ASSUME NEW n \in Amounts,
      Budget!SetLimit(n) \/ Budget!SetCacheBytes(n) \/ Budget!SpaceChanges(n)
        PROVE  Budget!TypeOK'
    BY <2>5 DEF Budget!AmountsAreCounts, Budget!TypeOK, Budget!SetLimit,
       Budget!SetCacheBytes, Budget!SpaceChanges,
                Budget!Smaller, Budget!files
  <2> QED
    BY <2>1, <2>2, <2>3, <2>4, <2>5 DEF Budget!Clearing, Budget!World
<1>3. IsFiniteSet(present')
  BY SameCounts, FS_RemoveElement
  DEF Budget!LeasesReserved, Budget!Clearing, Budget!World, Budget!BeginClear,
      Budget!ListDirectories, Budget!EndClear,
      Budget!ClearDirectory, Budget!SetLimit, Budget!SetCacheBytes, Budget!SpaceChanges,
      Budget!files
<1>4. Budget!ChargesCover'
  BY <1>1, CoverStays
<1> QED
  BY SameCounts, <1>1, <1>2, <1>3, <1>4 DEF Budget!MutexHeld, Budget!LeasesReserved

(* BudgetInvariant in every reachable state: the mutex of the reservations  *)
(* is held by the one thread that computes a budget, its running total      *)
(* covers what was promised, and every live lease has its reservation       *)
(* (budget_locked, allocate_inner, commit_usage and Drop of a lease).       *)
THEOREM BudgetAlways == Budget!AmountsAreCounts => (Budget!Spec => []Budget!BudgetInvariant)
<1> SUFFICES ASSUME Budget!AmountsAreCounts
             PROVE  Budget!Spec => []Budget!BudgetInvariant
  OBVIOUS
<1>1. Budget!BudgetInvariant /\ [Budget!Next]_(Budget!vars) => Budget!BudgetInvariant'
  <2> SUFFICES ASSUME Budget!BudgetInvariant, [Budget!Next]_(Budget!vars)
               PROVE  Budget!BudgetInvariant'
    OBVIOUS
  <2>1. CASE Budget!Next
    BY <2>1, AllocatingCorrect, UsingCorrect, OthersCorrect DEF Budget!Next
  <2>2. CASE UNCHANGED Budget!vars
    <3>1. Budget!ChargesCover'
      BY <2>2, CoverStays DEF Budget!vars
    <3> QED
      BY <2>2, <3>1 DEF Budget!vars, Budget!files, Budget!world, Budget!BudgetInvariant,
         Budget!TypeOK, Budget!MutexHeld, Budget!LeasesReserved
  <2> QED
    BY <2>1, <2>2
<1> QED
  BY BudgetInit, <1>1, PTL DEF Budget!Spec

(* allocate_inner never promises more than the limit: every step that      *)
(* enters a reservation leaves the sum of all reservations within the      *)
(* limit, for any number of threads that allocate, write, measure and drop *)
(* leases at the same time.                                                *)
THEOREM GrantsWithinLimitAlways == Budget!AmountsAreCounts => (Budget!Spec => Budget!GrantsWithinLimit)
<1> SUFFICES ASSUME Budget!AmountsAreCounts
             PROVE  Budget!Spec => Budget!GrantsWithinLimit
  OBVIOUS
<1> DEFINE WithinLimit == \A q \in Leases :
             q \in reserved' \ reserved => Budget!Total(allowance', reserved') <= limit'
<1>1. Budget!BudgetInvariant /\ [Budget!Next]_(Budget!vars) => [WithinLimit]_(Budget!vars)
  <2> SUFFICES ASSUME Budget!BudgetInvariant, Budget!Next, NEW q \in Leases,
                      q \in reserved' \ reserved
               PROVE  Budget!Total(allowance', reserved') <= limit'
    OBVIOUS
  <2>1. PICK p \in Leases, cap \in Amounts : Budget!Grant(p, cap)
    BY DEF Budget!Next, Budget!Allocating, Budget!Using, Budget!Clearing, Budget!World,
       Budget!BeginBudget, Budget!Charge, Budget!Refuse,
           Budget!BudgetFails, Budget!CreateDirectory, Budget!CreateFails,
           Budget!Activate, Budget!Write, Budget!Measure,
           Budget!CommitUsage, Budget!Deactivate, Budget!Unreserve,
           Budget!RemoveDirectory, Budget!BeginClear, Budget!ListDirectories,
           Budget!ClearDirectory, Budget!EndClear, Budget!SetLimit, Budget!SetCacheBytes,
           Budget!SpaceChanges
  <2>2. limit' = limit
    BY <2>1 DEF Budget!Grant, Budget!world
  <2> QED
    BY <2>1, <2>2, GrantFits
<1>2. Budget!Spec => []Budget!BudgetInvariant
  BY BudgetAlways
<1> QED
  BY <1>1, <1>2, PTL DEF Budget!Spec, Budget!GrantsWithinLimit

===============================================================================
