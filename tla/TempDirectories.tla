-------------------------- MODULE TempDirectories --------------------------
(***************************************************************************)
(* The directories of query temporary storage (storage/temp.rs), shared by *)
(* all processes of the application.                                       *)
(*                                                                         *)
(* QueryTempManager::open gives each process a directory of its own below  *)
(* query-temp, with a file owner.lock in it which the process keeps locked *)
(* and in which it writes its pid.  A process that ends without cleaning   *)
(* up leaves its directory; any other one collects it in cleanup_orphans,  *)
(* at its start or when the user clears the storage, as the janitor: the   *)
(* one that holds .janitor.lock.                                           *)
(*                                                                         *)
(* Directory names hold the pid and a nonce and are never used twice, so a *)
(* directory is named by its process.  Each file operation that another    *)
(* process can act before or after is one action.  A directory renamed to  *)
(* .delete-pending-... because it could not be removed is still a          *)
(* directory of the root and keeps its name here.                          *)
(***************************************************************************)
EXTENDS FiniteSets

CONSTANTS Processes, None

(* None stands for no process: what the proofs assume of the constants.    *)
NoneIsNoProcess == None \notin Processes

VARIABLES
    stage,        \* how far each process is
    directories,  \* the processes whose directory exists
    lockFiles,    \* those whose directory has an owner.lock
    markers,      \* those whose owner.lock holds a valid pid line
    lockHolder,   \* who has owner.lock locked: "owner", "janitor" or "none"
    janitor,      \* the process that holds .janitor.lock, or None
    sweep         \* the janitor's walk: what is left, where it is, its step

vars == <<stage, directories, lockFiles, markers, lockHolder, janitor, sweep>>

Stages == {"new", "created", "file", "locked", "written", "published", "live",
           "closing", "closed", "ended"}

(* The owner holds its lock in these stages, until it gives it up itself.  *)
Owning == {"locked", "written", "published", "live"}

(* The process has given its directory up, or has ended.                   *)
Gone == {"closing", "closed", "ended"}

SweepSteps == {"off", "next", "opened", "holding", "orphan", "retained", "remove"}

NoSweep == [todo |-> {}, at |-> None, step |-> "off"]

TypeOK ==
    /\ stage \in [Processes -> Stages]
    /\ directories \subseteq Processes
    /\ lockFiles \subseteq directories
    /\ markers \subseteq lockFiles
    /\ lockHolder \in [Processes -> {"owner", "janitor", "none"}]
    /\ janitor \in Processes \cup {None}
    /\ sweep \in [todo : SUBSET Processes,
                  at : Processes \cup {None},
                  step : SweepSteps]

Init ==
    /\ stage = [p \in Processes |-> "new"]
    /\ directories = {}
    /\ lockFiles = {}
    /\ markers = {}
    /\ lockHolder = [p \in Processes |-> "none"]
    /\ janitor = None
    /\ sweep = NoSweep

-----------------------------------------------------------------------------
(* QueryTempManager::open and the end of a process.                        *)

Advance(p, from, to) ==
    /\ stage[p] = from
    /\ stage' = [stage EXCEPT ![p] = to]

CreateDirectory(p) ==
    /\ Advance(p, "new", "created")
    /\ directories' = directories \cup {p}
    /\ UNCHANGED <<lockFiles, markers, lockHolder, janitor, sweep>>

CreateLockFile(p) ==
    /\ Advance(p, "created", "file")
    /\ lockFiles' = lockFiles \cup {p}
    /\ UNCHANGED <<directories, markers, lockHolder, janitor, sweep>>

(* try_lock_exclusive; a janitor that is just looking makes it fail, see   *)
(* OpenFails.                                                              *)
LockOwn(p) ==
    /\ Advance(p, "file", "locked")
    /\ lockHolder[p] = "none"
    /\ lockHolder' = [lockHolder EXCEPT ![p] = "owner"]
    /\ UNCHANGED <<directories, lockFiles, markers, janitor, sweep>>

WriteMarker(p) ==
    /\ Advance(p, "locked", "written")
    /\ markers' = markers \cup {p}
    /\ UNCHANGED <<directories, lockFiles, lockHolder, janitor, sweep>>

SyncMarker(p) ==
    /\ Advance(p, "written", "published")
    /\ UNCHANGED <<directories, lockFiles, markers, lockHolder, janitor, sweep>>

(* cleanup_orphans finds the janitor's lock taken or inaccessible: open    *)
(* succeeds without it.                                                    *)
SkipSweep(p) ==
    /\ Advance(p, "published", "live")
    /\ janitor # p
    /\ UNCHANGED <<directories, lockFiles, markers, lockHolder, janitor, sweep>>

(* Locks go with the process or with the file handle that took them.       *)
ReleaseOwn(p) ==
    lockHolder' = [lockHolder EXCEPT ![p] = IF @ = "owner" THEN "none" ELSE @]

(* A step of open fails; the handle is dropped, the directory stays.       *)
OpenFails(p) ==
    /\ stage[p] \in {"new", "created", "file", "locked", "written"}
    /\ stage' = [stage EXCEPT ![p] = "ended"]
    /\ ReleaseOwn(p)
    /\ UNCHANGED <<directories, lockFiles, markers, janitor, sweep>>

(* shutdown_cleanup, and Drop of the manager: the lock goes first.         *)
GiveUpLock(p) ==
    /\ Advance(p, "live", "closing")
    /\ ReleaseOwn(p)
    /\ UNCHANGED <<directories, lockFiles, markers, janitor, sweep>>

(* remove_with_retry: all of it, or what could not be removed.             *)
Remove(d) ==
    \/ /\ directories' = directories \ {d}
       /\ lockFiles' = lockFiles \ {d}
       /\ markers' = markers \ {d}
    \/ /\ UNCHANGED directories
       /\ \/ /\ lockFiles' = lockFiles \ {d}
             /\ markers' = markers \ {d}
          \/ UNCHANGED <<lockFiles, markers>>

RemoveOwn(p) ==
    /\ Advance(p, "closing", "closed")
    /\ Remove(p)
    /\ UNCHANGED <<lockHolder, janitor, sweep>>

(* A process ends at any point, in an orderly way or not.                  *)
End(p) ==
    /\ stage[p] # "ended"
    /\ stage' = [stage EXCEPT ![p] = "ended"]
    /\ IF janitor = p
       THEN /\ janitor' = None
            /\ sweep' = NoSweep
            /\ lockHolder' = [d \in Processes |->
                 IF lockHolder[d] = "janitor" \/ (d = p /\ lockHolder[d] = "owner")
                 THEN "none" ELSE lockHolder[d]]
       ELSE /\ ReleaseOwn(p)
            /\ UNCHANGED <<janitor, sweep>>
    /\ UNCHANGED <<directories, lockFiles, markers>>

-----------------------------------------------------------------------------
(* cleanup_orphans and cleanup_orphans_with_janitor.                       *)

(* At the end of open, or for clear_inactive.                              *)
BeginSweep(p) ==
    /\ stage[p] \in {"published", "live"}
    /\ janitor = None
    /\ janitor' = p
    /\ sweep' = [todo |-> directories, at |-> None, step |-> "next"]
    /\ UNCHANGED <<stage, directories, lockFiles, markers, lockHolder>>

Sweeping(p, step) ==
    /\ janitor = p
    /\ sweep.step = step

(* The walk goes on with the next directory.                               *)
GoOn == sweep' = [todo |-> sweep.todo, at |-> None, step |-> "next"]

(* The lock file is missing or cannot be opened: the directory is kept.    *)
PassOver(p, d) ==
    /\ Sweeping(p, "next")
    /\ d \in sweep.todo
    /\ sweep' = [sweep EXCEPT !.todo = @ \ {d}]
    /\ UNCHANGED <<stage, directories, lockFiles, markers, lockHolder, janitor>>

OpenLockFile(p, d) ==
    /\ Sweeping(p, "next")
    /\ d \in sweep.todo \cap lockFiles
    /\ sweep' = [todo |-> sweep.todo \ {d}, at |-> d, step |-> "opened"]
    /\ UNCHANGED <<stage, directories, lockFiles, markers, lockHolder, janitor>>

(* The lock of a process that is alive is not to be had, not even by the   *)
(* process itself through a second handle.                                 *)
TryLock(p) ==
    /\ Sweeping(p, "opened")
    /\ IF lockHolder[sweep.at] = "none"
       THEN /\ lockHolder' = [lockHolder EXCEPT ![sweep.at] = "janitor"]
            /\ sweep' = [sweep EXCEPT !.step = "holding"]
       ELSE /\ GoOn
            /\ UNCHANGED lockHolder
    /\ UNCHANGED <<stage, directories, lockFiles, markers, janitor>>

(* A marker that cannot be read counts as not published.                   *)
ReadMarker(p) ==
    /\ Sweeping(p, "holding")
    /\ \/ /\ sweep.at \in markers
          /\ sweep' = [sweep EXCEPT !.step = "orphan"]
       \/ sweep' = [sweep EXCEPT !.step = "retained"]
    /\ UNCHANGED <<stage, directories, lockFiles, markers, lockHolder, janitor>>

(* The lock is given up before the directory is removed.                   *)
Unlock(p) ==
    /\ \/ /\ Sweeping(p, "orphan")
          /\ sweep' = [sweep EXCEPT !.step = "remove"]
       \/ /\ Sweeping(p, "retained")
          /\ GoOn
    /\ lockHolder' = [lockHolder EXCEPT ![sweep.at] = "none"]
    /\ UNCHANGED <<stage, directories, lockFiles, markers, janitor>>

RemoveOrphan(p) ==
    /\ Sweeping(p, "remove")
    /\ Remove(sweep.at)
    /\ GoOn
    /\ UNCHANGED <<stage, lockHolder, janitor>>

EndSweep(p) ==
    /\ Sweeping(p, "next")
    /\ sweep.todo = {}
    /\ janitor' = None
    /\ sweep' = NoSweep
    /\ stage' = [stage EXCEPT ![p] = IF @ = "published" THEN "live" ELSE @]
    /\ UNCHANGED <<directories, lockFiles, markers, lockHolder>>

-----------------------------------------------------------------------------
Opening(p) ==
    \/ CreateDirectory(p) \/ CreateLockFile(p) \/ LockOwn(p)
    \/ WriteMarker(p) \/ SyncMarker(p) \/ SkipSweep(p) \/ OpenFails(p)

Ending(p) == GiveUpLock(p) \/ RemoveOwn(p) \/ End(p)

Collecting(p) ==
    \/ BeginSweep(p)
    \/ \E d \in Processes : PassOver(p, d) \/ OpenLockFile(p, d)
    \/ TryLock(p) \/ ReadMarker(p) \/ Unlock(p) \/ RemoveOrphan(p) \/ EndSweep(p)

Next == \E p \in Processes : Opening(p) \/ Ending(p) \/ Collecting(p)

Spec == Init /\ [][Next]_vars

-----------------------------------------------------------------------------
(* The directory of a process that is alive, with the lock and the marker  *)
(* in it, stays until the process gives it up: "a concurrent janitor can   *)
(* never collect it" (QueryTempManager::open).                             *)
LiveKept ==
    \A p \in Processes :
        /\ stage[p] \in {"created", "file"} \cup Owning => p \in directories
        /\ stage[p] \in {"file"} \cup Owning => p \in lockFiles
        /\ stage[p] \in {"written", "published", "live"} => p \in markers

(* Who may have owner.lock: its process from locking it to giving it up,   *)
(* and otherwise only the janitor, while it looks at the marker.           *)
LocksOwned ==
    \A p \in Processes :
        /\ stage[p] \in Owning <=> lockHolder[p] = "owner"
        /\ lockHolder[p] = "janitor" =>
              /\ sweep.at = p
              /\ sweep.step \in {"holding", "orphan", "retained"}

(* What the janitor has judged to be an orphan belongs to a process that   *)
(* is gone; a marker is only ever written under the lock.                  *)
OrphansGone ==
    /\ janitor = None <=> sweep.step = "off"
    /\ \A p \in markers : stage[p] \in {"written", "published", "live"} \cup Gone
    /\ sweep.step \in {"opened", "holding", "orphan", "retained", "remove"} =>
          sweep.at \in Processes
    /\ sweep.step \in {"holding", "orphan", "retained"} =>
          lockHolder[sweep.at] = "janitor"
    /\ sweep.step \in {"orphan", "remove"} => stage[sweep.at] \in Gone

DirectoryInvariant == TypeOK /\ LiveKept /\ LocksOwned /\ OrphansGone
=============================================================================
