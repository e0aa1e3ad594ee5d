-------------------------- MODULE CacheMigrationProofs --------------------------
(***************************************************************************)
(* The move of the cache, for any windows, callers and keys, and for any   *)
(* number of moves, of windows that end and of file operations that fail.  *)
(***************************************************************************)
EXTENDS CacheMigration, WellFoundedInduction, TLAPS

-----------------------------------------------------------------------------
(* Types *)

\* A directory without files has no tag.
Coherent ==
  /\ \A r \in Roots : \A k \in Keys :
       entry[r][k].files \in {"none", "empty"} => ~entry[r][k].tag
  /\ \A k \in Keys : staged[k].files \in {"none", "empty"} => ~staged[k].tag

DiskTypes ==
  /\ setting \in Roots /\ journal \in Journals \union {None}
  /\ dir \in [Roots -> {"absent", "bare", "owned"}]
  /\ redirect \in [Roots -> Roots \union {None}] /\ marker \in [Roots -> BOOLEAN]
  /\ live \in SUBSET Keys

EntryTypes ==
  /\ entry \in [Roots -> [Keys -> Entries]] /\ staged \in [Keys -> Entries]
  /\ Coherent

LockTypes ==
  /\ control \in Threads \union {None} /\ global \in [Roots -> Threads \union {None}]
  /\ mutex \in [Windows -> Threads \union {None}] /\ work \in Works

ThreadTypes ==
  /\ pc \in [Threads -> {"idle"} \union Moving \union Settling \union Calling]
  /\ at \in [Threads -> Roots]

WindowTypes ==
  /\ service \in [Windows -> Roots \union {None}]
  /\ busy \in [Windows -> BOOLEAN] /\ up \in [Windows -> BOOLEAN]
  /\ handles \in [Windows -> SUBSET Roots] /\ leases \in [Windows -> SUBSET (Roots \X Keys)]

BoundTypes ==
  moves \in 0..MaxMoves /\ crashes \in 0..MaxCrashes /\ faults \in 0..MaxFaults

\* The points at which a thread holds the control lock; no other thread is at one.
Pruning == {"prune", "prune owner", "prune directory"}
Uncommitted == {"create", "own", "lock", "journal", "mark source", "mark target", "copy",
                "unredirect", "redirect", "commit"}
Controlling == {"check", "inspect", "update mutex", "update limit"} \union Uncommitted
               \union Settling

ControlHeld ==
  /\ \A t \in Threads : control = t <=> pc[t] \in Controlling
  /\ \A t \in Threads : pc[t] = "inspect" => journal # None
  /\ \A w \in Windows : ~busy[w] => pc[Mover(w)] = "idle"

TypeInv == ControlHeld /\ DiskTypes /\ EntryTypes /\ LockTypes /\ ThreadTypes /\ WindowTypes /\ BoundTypes

LEMMA TypesSplit == TypeInv <=> TypeOK /\ Coherent /\ ControlHeld
BY DEF TypeInv, TypeOK, DiskTypes, EntryTypes, LockTypes, ThreadTypes, WindowTypes, BoundTypes

\* The least of the keys that are left to do.
LEMMA NextKey ==
  ASSUME work \in Works, work.todo # {}
  PROVE  Min(work.todo) \in work.todo /\ Min(work.todo) \in Keys
<1> DEFINE S == work.todo
           R == {pair \in Nat \X Nat : pair[1] < pair[2]}
<1>1. S \subseteq Keys /\ S \subseteq Nat /\ S # {}
  BY MigrationAssumption DEF Works
<1> HIDE DEF S
<1>2. IsWellFoundedOn(R, Nat)
  BY NatLessThanWellFounded, Zenon DEF OpToRel
<1>3. \E x \in S : \A y \in S : <<y, x>> \notin R
  <2> HIDE DEF R
  <2>1. QED
    BY <1>1, <1>2, WFMin
<1>4. \E x \in S : \A y \in S : x <= y
  <2>1. \A x, y \in S : <<y, x>> \in R <=> y < x
    BY <1>1
  <2> HIDE DEF R
  <2>2. \A x, y \in S : ~(y < x) => x <= y
    BY <1>1
  <2>3. QED
    BY <1>3, <2>1, <2>2
<1>5. Min(S) \in S
  BY <1>4 DEF Min
<1>6. QED
  BY <1>1, <1>5 DEF S

LEMMA ThreadsOf ==
  /\ \A w \in Windows : Mover(w) \in Threads /\ Mover(w)[1] = w /\ Mover(w)[2] = "mover"
  /\ \A c \in Windows \X Callers : c \in Threads /\ c[1] \in Windows /\ c[2] # "mover"
  /\ \A t \in Threads : t[1] \in Windows /\ t # None
  /\ None \notin Roots /\ Home \in Roots /\ Away \in Roots
  /\ \A r \in Roots : Other(r) \in Roots /\ Other(r) # r /\ Other(Other(r)) = r
BY MigrationAssumption DEF Threads, Mover, Roots, Other

LEMMA EntryKinds ==
  /\ NoEntry \in Entries /\ WholeEntry \in Entries
  /\ NoEntry.files = "none" /\ ~NoEntry.tag /\ WholeEntry.files = "whole" /\ ~WholeEntry.tag
  /\ \A e \in Entries : e.files # "none" => Shrunk(e) \in Entries
  /\ \A e \in Entries : e.files # "whole" => Grown(e) \in Entries
  /\ \A e \in Entries : e.files # "none" /\ Shrunk(e).files \in {"none", "empty"} => ~Shrunk(e).tag
  /\ \A e \in Entries : e.files # "whole" /\ Grown(e).files \in {"none", "empty"} => ~Grown(e).tag
BY DEF Entries, NoEntry, WholeEntry, Shrunk, Grown

LEMMA WorkKinds == NoWork \in Works
BY MigrationAssumption DEF NoWork, Works, Journals, Roots

\* An entry is replaced.
LEMMA PutEntry ==
  ASSUME entry \in [Roots -> [Keys -> Entries]], NEW r \in Roots, NEW k \in Keys,
         NEW e \in Entries, entry' = [entry EXCEPT ![r][k] = e]
  PROVE  /\ entry' \in [Roots -> [Keys -> Entries]]
         /\ entry'[r][k] = e
         /\ \A q \in Roots : \A x \in Keys : q # r \/ x # k => entry'[q][x] = entry[q][x]
<1>1. PICK f : f = [entry[r] EXCEPT ![k] = e] /\ entry' = [entry EXCEPT ![r] = f]
  OBVIOUS
<1>2. f \in [Keys -> Entries] /\ f[k] = e /\ \A x \in Keys : x # k => f[x] = entry[r][x]
  BY <1>1
<1>3. QED
  BY <1>1, <1>2

LEMMA PutStaged ==
  ASSUME staged \in [Keys -> Entries], NEW k \in Keys, NEW e \in Entries,
         staged' = [staged EXCEPT ![k] = e]
  PROVE  /\ staged' \in [Keys -> Entries] /\ staged'[k] = e
         /\ \A x \in Keys : x # k => staged'[x] = staged[x]
OBVIOUS

LEMMA WorkParts ==
  ASSUME work \in Works
  PROVE  /\ work.journal \in Journals /\ Source \in Roots /\ Target \in Roots
         /\ work.todo \subseteq Keys /\ work.journal.keys \subseteq Keys
         /\ work.failed \in BOOLEAN /\ work.forward \in BOOLEAN
         /\ work.journal.started \in BOOLEAN /\ work.journal.prior \in Roots \union {None}
         /\ [work.journal EXCEPT !.started = TRUE] \in Journals
         /\ \A S \in SUBSET Keys :
              /\ [work EXCEPT !.todo = S] \in Works
              /\ [work EXCEPT !.todo = S, !.failed = TRUE] \in Works
              /\ [work EXCEPT !.todo = S, !.forward = TRUE] \in Works
         /\ [work EXCEPT !.journal.started = TRUE] \in Works
BY DEF Works, Journals, Source, Target

\* The entries of the key a settling move is at.
LEMMA NextEntries ==
  ASSUME TypeInv, work.todo # {}
  PROVE  /\ Min(work.todo) \in Keys /\ Min(work.todo) \in work.todo
         /\ entry[Source][Min(work.todo)] \in Entries
         /\ entry[Target][Min(work.todo)] \in Entries
         /\ staged[Min(work.todo)] \in Entries
BY NextKey, WorkParts DEF TypeInv, LockTypes, EntryTypes

\* The actions that leave every file alone.
LEMMA DiskUntouched ==
  /\ \A w \in Windows :
       StartMove(w) \/ Preview(w) \/ TakeControl(w) \/ Check(w) \/ LockTarget(w) \/ Copied(w)
         \/ Abandon(w) \/ Reopen(w) \/ Crash(w) => UNCHANGED disk
  /\ \A t \in Threads :
       RolledBack(t) \/ Cleaned(t) \/ CleanFails(t) \/ Fail(t) \/ Prune(t) => UNCHANGED disk
  /\ \A c \in Windows \X Callers :
       BeginQuery(c) \/ TakeMutex(c) \/ Recover(c) \/ Read(c) \/ BeginUpdate(c)
         \/ UpdateControl(c) \/ UpdateMutex(c) => UNCHANGED disk
  /\ \A w \in Windows : \A r \in Roots : \A k \in Keys :
       Lookup(w, r, k) \/ Release(w, r, k) => UNCHANGED disk
BY DEF disk, StartMove, Preview, TakeControl, Check, LockTarget, Copied, Abandon, Reopen, Crash,
   RolledBack, Cleaned, CleanFails, Fail, Prune, BeginQuery, TakeMutex, Recover, Read,
   BeginUpdate, UpdateControl, UpdateMutex, Lookup, Release, Refused, Step

LEMMA DiskTypesUntouched ==
  ASSUME TypeInv, UNCHANGED disk
  PROVE  DiskTypes' /\ EntryTypes'
BY DEF TypeInv, DiskTypes, EntryTypes, Coherent, disk

LEMMA MoveDisk ==
  ASSUME TypeInv, NEW w \in Windows, MoverNext(w) \/ StartMove(w) \/ Abandon(w)
  PROVE  DiskTypes'
<1> USE DEF TypeInv, DiskTypes
<1>1. work \in Works /\ Target \in Roots /\ Source \in Roots /\ work.journal \in Journals
  BY WorkParts DEF LockTypes
<1>2. CASE CreateTarget(w)
  BY <1>1, <1>2 DEF CreateTarget, Refused, disk
<1>3. CASE OwnTarget(w)
  BY <1>1, <1>3 DEF OwnTarget, Refused, disk
<1>4. CASE WriteJournal(w)
  BY <1>1, <1>4 DEF WriteJournal, Refused, disk
<1>5. CASE MarkSource(w)
  BY <1>1, <1>5 DEF MarkSource, Mark, Refused, disk
<1>6. CASE MarkTarget(w)
  BY <1>1, <1>6 DEF MarkTarget, Mark, Refused, disk
<1>7. CASE Copy(w)
  BY <1>1, <1>7 DEF Copy, Refused, disk
<1>8. CASE Unredirect(w)
  BY <1>1, <1>8 DEF Unredirect, Refused, disk
<1>9. CASE Redirect(w)
  BY <1>1, <1>9 DEF Redirect, Refused, disk
<1>10. CASE Commit(w)
  BY <1>1, <1>10 DEF Commit, Refused, disk
<1>11. CASE Install(w)
  BY <1>1, <1>11 DEF Install, Evicted, Evictable, Serve, Refused, disk
<1>12. QED
  BY <1>2, <1>3, <1>4, <1>5, <1>6, <1>7, <1>8, <1>9, <1>10, <1>11, DiskUntouched, DiskTypesUntouched DEF MoverNext

LEMMA SettleDisk ==
  ASSUME TypeInv, NEW t \in Threads, SettleNext(t) \/ Fail(t) \/ CleanFails(t)
  PROVE  DiskTypes'
<1> USE DEF TypeInv, DiskTypes
<1>1. /\ work \in Works /\ Target \in Roots /\ Source \in Roots /\ work.journal \in Journals
      /\ work.journal.prior \in Roots \union {None}
      /\ [work.journal EXCEPT !.started = TRUE] \in Journals
  BY WorkParts DEF LockTypes
<1>2. CASE RollBack(t)
  BY <1>1, <1>2 DEF RollBack, disk
<1>3. CASE UndoRedirect(t)
  BY <1>1, <1>3 DEF UndoRedirect, disk
<1>4. CASE RestoreRedirect(t)
  BY <1>1, <1>4 DEF RestoreRedirect, disk
<1>5. CASE Verify(t)
  BY <1>1, <1>5 DEF Verify, disk
<1>6. CASE Clean(t)
  BY <1>1, <1>6 DEF Clean, disk
<1>7. CASE RemoveDirectory(t)
  BY <1>1, <1>7 DEF RemoveDirectory, disk
<1>8. CASE Untag(t)
  BY <1>1, <1>8 DEF Untag, disk
<1>9. CASE UnmarkOne(t)
  BY <1>1, <1>9 DEF UnmarkOne, disk
<1>10. CASE UnmarkOther(t)
  BY <1>1, <1>10 DEF UnmarkOther, disk
<1>11. CASE DropJournal(t)
  BY <1>1, <1>11 DEF DropJournal, disk
<1>12. CASE PruneOwner(t)
  BY <1>1, <1>12 DEF PruneOwner, disk
<1>13. CASE PruneDirectory(t)
  BY <1>1, <1>13 DEF PruneDirectory, disk
<1>14. QED
  BY <1>2, <1>3, <1>4, <1>5, <1>6, <1>7, <1>8, <1>9, <1>10, <1>11, <1>12, <1>13, DiskUntouched, DiskTypesUntouched DEF SettleNext

LEMMA CallDisk ==
  ASSUME TypeInv, NEW c \in Windows \X Callers, BeginQuery(c) \/ BeginUpdate(c) \/ CallNext(c)
  PROVE  DiskTypes'
<1> USE DEF TypeInv, DiskTypes
<1>1. CASE Inspect(c)
  <2>1. /\ UNCHANGED <<setting, journal, dir, marker, live>>
        /\ redirect' = redirect \/ /\ journal # None
                                   /\ redirect' = [redirect EXCEPT ![journal.source] = journal.target]
    BY <1>1, ThreadsOf DEF Inspect, ControlHeld
  <2>2. journal # None => journal.target \in Roots
    BY DEF Journals
  <2>3. QED
    BY <2>1, <2>2
<1>2. CASE Open(c)
  <2>1. UNCHANGED <<setting, journal, dir, redirect, marker>> /\ live' \subseteq live
    BY <1>2 DEF Open, Evicted
  <2>2. QED
    BY <2>1
<1>3. CASE UpdateLimit(c)
  <2>1. UNCHANGED <<setting, journal, dir, redirect, marker>> /\ live' \subseteq live
    BY <1>3 DEF UpdateLimit, Evicted
  <2>2. QED
    BY <2>1
<1>4. QED
  BY <1>1, <1>2, <1>3, DiskUntouched, DiskTypesUntouched DEF CallNext

-----------------------------------------------------------------------------
(* The control lock *)

\* What one thread does to it: the thread goes on with or without the lock, takes it,
\* or gives it up.
ControlStep(t) ==
  /\ \A u \in Threads : u # t => pc'[u] = pc[u]
  /\ \/ control' = control /\ (pc'[t] \in Controlling <=> pc[t] \in Controlling)
     \/ control = None /\ control' = t /\ pc'[t] \in Controlling
     \/ control' = (IF control = t THEN None ELSE control) /\ pc'[t] \notin Controlling
  /\ journal' = journal \/ journal' # None \/ pc[t] \in Controlling \ {"inspect"}
  /\ pc'[t] = "inspect" => journal' # None
  /\ \A w \in Windows :
       \/ busy'[w] = busy[w] /\ (Mover(w) = t /\ pc[t] = "idle" => pc'[t] = "idle")
       \/ busy'[w]
       \/ Mover(w) = t /\ pc'[t] = "idle"

LEMMA ControlMoves ==
  ASSUME TypeInv, NEW t \in Threads, ControlStep(t)
  PROVE  ControlHeld'
<1>1. ControlHeld /\ LockTypes
  BY DEF TypeInv
<1>2. \A u \in Threads : control' = u <=> pc'[u] \in Controlling
  BY <1>1, ThreadsOf DEF ControlHeld, LockTypes, ControlStep
<1>3. \A u \in Threads : pc'[u] = "inspect" => journal' # None
  BY <1>1 DEF ControlHeld, ControlStep, Controlling
<1>4. \A w \in Windows : ~busy'[w] => pc'[Mover(w)] = "idle"
  BY <1>1, ThreadsOf DEF ControlHeld, ControlStep
<1>5. QED
  BY <1>2, <1>3, <1>4 DEF ControlHeld

LEMMA ControlStays ==
  ASSUME TypeInv, UNCHANGED <<pc, control, journal, busy>>
  PROVE  ControlHeld'
BY DEF TypeInv, ControlHeld

LEMMA MoveControl ==
  ASSUME TypeInv, NEW w \in Windows, MoverNext(w) \/ StartMove(w) \/ Abandon(w)
  PROVE  ControlHeld'
<1> DEFINE m == Mover(w)
<1>1. /\ m \in Threads /\ m # None /\ work.journal # None
      /\ busy \in [Windows -> BOOLEAN] /\ (~busy[w] => pc[m] = "idle")
      /\ \A v \in Windows : Mover(v) = m => v = w
      /\ pc \in [Threads -> {"idle"} \union Moving \union Settling \union Calling]
  BY ThreadsOf, WorkParts, NoneIsNoJournal DEF TypeInv, LockTypes, ThreadTypes, WindowTypes, ControlHeld, Mover
<1> USE <1>1 DEF ControlStep, Controlling, Uncommitted, Settling
<1>2. StartMove(w) => ControlStep(m)
  BY DEF StartMove, Goto, Step, Refused, Leave, ReleaseLocks, disk, locks, window
<1>3. Preview(w) => ControlStep(m)
  BY DEF Preview, Goto, Step, Refused, Leave, ReleaseLocks, disk, locks, window
<1>4. TakeControl(w) => ControlStep(m)
  BY DEF TakeControl, Goto, Step, Refused, Leave, ReleaseLocks, disk, locks, window
<1>5. Check(w) => ControlStep(m)
  BY DEF Check, Goto, Step, Refused, Leave, ReleaseLocks, disk, locks, window
<1>6. CreateTarget(w) => ControlStep(m)
  BY DEF CreateTarget, Goto, Step, Refused, Leave, ReleaseLocks, disk, locks, window
<1>7. OwnTarget(w) => ControlStep(m)
  BY DEF OwnTarget, Goto, Step, Refused, Leave, ReleaseLocks, disk, locks, window
<1>8. LockTarget(w) => ControlStep(m)
  BY DEF LockTarget, Goto, Step, Refused, Leave, ReleaseLocks, disk, locks, window
<1>9. WriteJournal(w) => ControlStep(m)
  BY DEF WriteJournal, Goto, Step, Refused, Leave, ReleaseLocks, disk, locks, window
<1>10. MarkSource(w) => ControlStep(m)
  BY DEF MarkSource, Goto, Step, Refused, Leave, ReleaseLocks, disk, locks, window, Mark
<1>11. MarkTarget(w) => ControlStep(m)
  BY DEF MarkTarget, Goto, Step, Refused, Leave, ReleaseLocks, disk, locks, window, Mark
<1>12. Copy(w) => ControlStep(m)
  BY DEF Copy, Goto, Step, Refused, Leave, ReleaseLocks, disk, locks, window
<1>13. Copied(w) => ControlStep(m)
  BY DEF Copied, Goto, Step, Refused, Leave, ReleaseLocks, disk, locks, window
<1>14. Unredirect(w) => ControlStep(m)
  BY DEF Unredirect, Goto, Step, Refused, Leave, ReleaseLocks, disk, locks, window
<1>15. Redirect(w) => ControlStep(m)
  BY DEF Redirect, Goto, Step, Refused, Leave, ReleaseLocks, disk, locks, window
<1>16. Commit(w) => ControlStep(m)
  BY DEF Commit, Goto, Step, Refused, Leave, ReleaseLocks, disk, locks, window
<1>17. Reopen(w) => ControlStep(m)
  BY DEF Reopen, Goto, Step, Refused, Leave, ReleaseLocks, disk, locks, window
<1>18. Install(w) => ControlStep(m)
  BY DEF Install, Goto, Step, Refused, Leave, ReleaseLocks, disk, locks, window
<1>19. Abandon(w) => ControlStep(m)
  BY DEF Abandon, Goto, Step, Refused, Leave, ReleaseLocks, disk, locks, window
<1> HIDE DEF m, ControlStep
<1>20. ControlStep(m)
  BY <1>2, <1>3, <1>4, <1>5, <1>6, <1>7, <1>8, <1>9, <1>10, <1>11, <1>12, <1>13, <1>14, <1>15, <1>16, <1>17, <1>18, <1>19 DEF MoverNext
<1>21. QED
  BY <1>1, <1>20, ControlMoves

LEMMA SettleControl ==
  ASSUME TypeInv, NEW t \in Threads, SettleNext(t) \/ Fail(t) \/ CleanFails(t)
  PROVE  ControlHeld'
<1>1. /\ t # None /\ [work.journal EXCEPT !.started = TRUE] # None
      /\ \A v \in Windows : Mover(v) = t => t[2] = "mover"
      /\ pc \in [Threads -> {"idle"} \union Moving \union Settling \union Calling]
  BY ThreadsOf, WorkParts, NoneIsNoJournal DEF TypeInv, LockTypes, ThreadTypes
<1> USE <1>1 DEF ControlStep, Controlling, Uncommitted, Settling
<1>2. RollBack(t) => ControlStep(t)
  BY DEF RollBack, Goto, Settle, Settled, Failed, Return, Leave, ReleaseLocks, disk, locks, window
<1>3. RolledBack(t) => ControlStep(t)
  BY DEF RolledBack, Goto, Settle, Settled, Failed, Return, Leave, ReleaseLocks, disk, locks, window
<1>4. UndoRedirect(t) => ControlStep(t)
  BY DEF UndoRedirect, Goto, Settle, Settled, Failed, Return, Leave, ReleaseLocks, disk, locks, window
<1>5. RestoreRedirect(t) => ControlStep(t)
  BY DEF RestoreRedirect, Goto, Settle, Settled, Failed, Return, Leave, ReleaseLocks, disk, locks, window
<1>6. Verify(t) => ControlStep(t)
  BY DEF Verify, Goto, Settle, Settled, Failed, Return, Leave, ReleaseLocks, disk, locks, window
<1>7. Clean(t) => ControlStep(t)
  <2>1. Clean(t) => work.todo # {}
    BY DEF Clean
  <2>2. Clean(t) => entry[Source][Min(work.todo)] \in Entries
    BY <2>1, NextEntries
  <2>3. Clean(t) => /\ UNCHANGED <<journal, control, busy>> /\ pc[t] = "clean"
                    /\ UNCHANGED pc \/ Goto(t, "clean") \/ Goto(t, "remove directory")
    BY <2>2 DEF Clean, Entries, locks, window
  <2>4. QED
    BY <2>3 DEF Goto
<1>8. RemoveDirectory(t) => ControlStep(t)
  BY DEF RemoveDirectory, Goto, Settle, Settled, Failed, Return, Leave, ReleaseLocks, disk, locks, window
<1>9. Cleaned(t) => ControlStep(t)
  BY DEF Cleaned, Goto, Settle, Settled, Failed, Return, Leave, ReleaseLocks, disk, locks, window
<1>10. Untag(t) => ControlStep(t)
  BY DEF Untag, Goto, Settle, Settled, Failed, Return, Leave, ReleaseLocks, disk, locks, window
<1>11. UnmarkOne(t) => ControlStep(t)
  BY DEF UnmarkOne, Goto, Settle, Settled, Failed, Return, Leave, ReleaseLocks, disk, locks, window
<1>12. UnmarkOther(t) => ControlStep(t)
  BY DEF UnmarkOther, Goto, Settle, Settled, Failed, Return, Leave, ReleaseLocks, disk, locks, window
<1>13. DropJournal(t) => ControlStep(t)
  BY DEF DropJournal, Goto, Settle, Settled, Failed, Return, Leave, ReleaseLocks, disk, locks, window
<1>14. Prune(t) => ControlStep(t)
  BY DEF Prune, Goto, Settle, Settled, Failed, Return, Leave, ReleaseLocks, disk, locks, window
<1>15. PruneOwner(t) => ControlStep(t)
  BY DEF PruneOwner, Goto, Settle, Settled, Failed, Return, Leave, ReleaseLocks, disk, locks, window
<1>16. PruneDirectory(t) => ControlStep(t)
  BY DEF PruneDirectory, Goto, Settle, Settled, Failed, Return, Leave, ReleaseLocks, disk, locks, window
<1>17. Fail(t) => ControlStep(t)
  BY DEF Fail, Goto, Settle, Settled, Failed, Return, Leave, ReleaseLocks, disk, locks, window
<1>18. CleanFails(t) => ControlStep(t)
  BY DEF CleanFails, Goto, Settle, Settled, Failed, Return, Leave, ReleaseLocks, disk, locks, window
<1> HIDE DEF ControlStep
<1>19. ControlStep(t)
  BY <1>2, <1>3, <1>4, <1>5, <1>6, <1>7, <1>8, <1>9, <1>10, <1>11, <1>12, <1>13, <1>14, <1>15, <1>16, <1>17, <1>18 DEF SettleNext
<1>20. QED
  BY <1>19, ControlMoves

LEMMA CallControl ==
  ASSUME TypeInv, NEW c \in Windows \X Callers, BeginQuery(c) \/ BeginUpdate(c) \/ CallNext(c)
  PROVE  ControlHeld'
<1>1. /\ c \in Threads /\ c # None
      /\ \A v \in Windows : Mover(v) # c
      /\ pc \in [Threads -> {"idle"} \union Moving \union Settling \union Calling]
  BY ThreadsOf DEF TypeInv, ThreadTypes
<1> USE <1>1 DEF ControlStep, Controlling, Uncommitted, Settling
<1>2. BeginQuery(c) => ControlStep(c)
  BY DEF BeginQuery, Goto, Return, ReleaseLocks, disk, locks, window
<1>3. TakeMutex(c) => ControlStep(c)
  BY DEF TakeMutex, Goto, Return, ReleaseLocks, disk, locks, window
<1>4. Recover(c) => ControlStep(c)
  BY DEF Recover, Goto, Return, ReleaseLocks, disk, locks, window
<1>5. Inspect(c) => ControlStep(c)
  BY DEF Inspect, Goto, Return, ReleaseLocks, disk, locks, window
<1>6. Read(c) => ControlStep(c)
  BY DEF Read, Goto, Return, ReleaseLocks, disk, locks, window
<1>7. Open(c) => ControlStep(c)
  BY DEF Open, Goto, Return, ReleaseLocks, disk, locks, window
<1>8. BeginUpdate(c) => ControlStep(c)
  BY DEF BeginUpdate, Goto, Return, ReleaseLocks, disk, locks, window
<1>9. UpdateControl(c) => ControlStep(c)
  BY DEF UpdateControl, Goto, Return, ReleaseLocks, disk, locks, window
<1>10. UpdateMutex(c) => ControlStep(c)
  BY DEF UpdateMutex, Goto, Return, ReleaseLocks, disk, locks, window
<1>11. UpdateLimit(c) => ControlStep(c)
  BY DEF UpdateLimit, Goto, Return, ReleaseLocks, disk, locks, window
<1> HIDE DEF ControlStep
<1>12. ControlStep(c)
  BY <1>2, <1>3, <1>4, <1>5, <1>6, <1>7, <1>8, <1>9, <1>10, <1>11 DEF CallNext
<1>13. QED
  BY <1>1, <1>12, ControlMoves

LEMMA CrashControl ==
  ASSUME TypeInv, NEW w \in Windows, Crash(w)
  PROVE  ControlHeld'
<1>1. /\ \A t \in Threads : pc'[t] = IF t[1] = w THEN "idle" ELSE pc[t]
      /\ control' = IF control # None /\ control[1] = w THEN None ELSE control
      /\ journal' = journal /\ \A v \in Windows : v # w => busy'[v] = busy[v]
  BY DEF Crash, Threads, disk, TypeInv, WindowTypes
<1>2. \A t \in Threads : control = t <=> pc[t] \in Controlling
  BY DEF TypeInv, ControlHeld
<1>3. \A t \in Threads : t[1] = w => control' # t
  BY <1>1, ThreadsOf
<1>4. \A t \in Threads : t[1] # w => (control' = t <=> control = t)
  BY <1>1, ThreadsOf
<1>5. "idle" \notin Controlling
  BY DEF Controlling, Uncommitted, Settling
<1>6. \A t \in Threads : control' = t <=> pc'[t] \in Controlling
  BY <1>1, <1>2, <1>3, <1>4, <1>5
<1>7. QED
  BY <1>1, <1>6, ThreadsOf DEF TypeInv, ControlHeld

-----------------------------------------------------------------------------
(* Types of the entries *)

TagFits(e) == e.files \in {"none", "empty"} => ~e.tag

\* An entry is replaced, a staged one is, or entries are evicted.
LEMMA EntryReplaced ==
  ASSUME TypeInv, UNCHANGED staged, NEW r \in Roots, NEW k \in Keys, NEW e \in Entries,
         TagFits(e), entry' = [entry EXCEPT ![r][k] = e]
  PROVE  EntryTypes'
BY PutEntry DEF TypeInv, EntryTypes, Coherent, TagFits

LEMMA StagedReplaced ==
  ASSUME TypeInv, UNCHANGED entry, NEW k \in Keys, NEW e \in Entries,
         TagFits(e), staged' = [staged EXCEPT ![k] = e]
  PROVE  EntryTypes'
BY PutStaged DEF TypeInv, EntryTypes, Coherent, TagFits

LEMMA EntriesGone ==
  ASSUME TypeInv, NEW r \in Roots, NEW gone,
         entry' = [entry EXCEPT ![r] = Without(r, gone)]
  PROVE  /\ entry' \in [Roots -> [Keys -> Entries]]
         /\ \A q \in Roots : \A k \in Keys :
              entry'[q][k] = IF q = r /\ k \in gone THEN NoEntry ELSE entry[q][k]
<1>1. PICK f : f = Without(r, gone) /\ entry' = [entry EXCEPT ![r] = f]
  OBVIOUS
<1>2. /\ entry \in [Roots -> [Keys -> Entries]]
      /\ \A k \in Keys : f[k] = IF k \in gone THEN NoEntry ELSE entry[r][k]
  BY <1>1 DEF TypeInv, EntryTypes, Without
<1>3. f \in [Keys -> Entries]
  BY <1>1, <1>2, EntryKinds DEF Without
<1>4. QED
  BY <1>1, <1>2, <1>3

LEMMA EntriesEvicted ==
  ASSUME TypeInv, UNCHANGED staged, NEW r \in Roots, NEW gone,
         entry' = [entry EXCEPT ![r] = Without(r, gone)]
  PROVE  EntryTypes'
BY EntriesGone, EntryKinds DEF TypeInv, EntryTypes, Coherent

LEMMA EntriesUntouched ==
  ASSUME TypeInv, UNCHANGED <<entry, staged>>
  PROVE  EntryTypes'
BY DEF TypeInv, EntryTypes, Coherent

Published(r, k, gone) ==
  \A q \in Roots : \A x \in Keys :
    entry'[q][x] = IF q # r THEN entry[q][x] ELSE IF x = k THEN WholeEntry
                   ELSE IF x \in gone THEN NoEntry ELSE entry[q][x]

LEMMA EntriesPublished ==
  ASSUME TypeInv, UNCHANGED staged, NEW r \in Roots, NEW k \in Keys, NEW gone,
         entry' = [entry EXCEPT ![r] = [Without(r, gone) EXCEPT ![k] = WholeEntry]]
  PROVE  EntryTypes' /\ Published(r, k, gone)
<1>1. PICK f : f = Without(r, gone) /\ entry' = [entry EXCEPT ![r] = [f EXCEPT ![k] = WholeEntry]]
  OBVIOUS
<1>2. /\ entry \in [Roots -> [Keys -> Entries]]
      /\ \A x \in Keys : f[x] = IF x \in gone THEN NoEntry ELSE entry[r][x]
  BY <1>1 DEF TypeInv, EntryTypes, Without
<1>3. f \in [Keys -> Entries]
  BY <1>1, <1>2, EntryKinds DEF Without
<1>4. PICK g : g = [f EXCEPT ![k] = WholeEntry] /\ entry' = [entry EXCEPT ![r] = g]
  BY <1>1
<1>5. /\ g \in [Keys -> Entries] /\ g[k] = WholeEntry
      /\ \A x \in Keys : x # k => g[x] = f[x]
  BY <1>3, <1>4, EntryKinds
<1>6. /\ entry' \in [Roots -> [Keys -> Entries]] /\ entry'[r] = g
      /\ \A q \in Roots : q # r => entry'[q] = entry[q]
  BY <1>2, <1>4, <1>5
<1>7. \A q \in Roots : \A x \in Keys :
        entry'[q][x] = IF q # r THEN entry[q][x] ELSE IF x = k THEN WholeEntry
                       ELSE IF x \in gone THEN NoEntry ELSE entry[q][x]
  BY <1>2, <1>5, <1>6
<1>8. QED
  BY <1>6, <1>7, EntryKinds DEF TypeInv, EntryTypes, Coherent, Published

LEMMA MoveEntries ==
  ASSUME TypeInv, NEW w \in Windows, MoverNext(w) \/ StartMove(w) \/ Abandon(w)
  PROVE  EntryTypes'
<1>1. CASE Copy(w)
  <2> DEFINE k == Min(work.todo)
  <2>1. k \in Keys /\ staged[k] \in Entries /\ Target \in Roots
    BY <1>1, NextEntries, WorkParts DEF Copy, TypeInv, LockTypes
  <2> HIDE DEF k
  <2>2. CASE staged[k].files # "whole"
    <3>1. staged' = [staged EXCEPT ![k] = Grown(staged[k])] /\ UNCHANGED entry
      BY <1>1, <2>1, <2>2 DEF Copy, k
    <3>2. Grown(staged[k]) \in Entries /\ TagFits(Grown(staged[k]))
      BY <2>1, <2>2, EntryKinds DEF TagFits
    <3>3. QED
      BY <2>1, <3>1, <3>2, StagedReplaced
  <2>3. CASE staged[k].files = "whole"
    <3>1. /\ entry' = [entry EXCEPT ![Target][k] = staged[k]]
          /\ staged' = [staged EXCEPT ![k] = NoEntry]
      BY <1>1, <2>3 DEF Copy, k
    <3>2. QED
      BY <2>1, <2>3, <3>1, PutEntry, PutStaged, EntryKinds DEF TypeInv, EntryTypes, Coherent
  <2>4. QED
    BY <2>2, <2>3
<1>2. CASE Install(w)
  <2>1. /\ UNCHANGED staged /\ at[Mover(w)] \in Roots
        /\ \/ UNCHANGED entry
           \/ \E gone : entry' = [entry EXCEPT ![at[Mover(w)]] = Without(at[Mover(w)], gone)]
    BY <1>2, ThreadsOf DEF Install, Evicted, TypeInv, ThreadTypes
  <2>2. QED
    BY <2>1, EntriesEvicted, EntriesUntouched
<1>3. CASE ~Copy(w) /\ ~Install(w)
  <2>1. UNCHANGED <<entry, staged>>
    BY <1>3 DEF MoverNext, StartMove, Preview, TakeControl, Check, CreateTarget, OwnTarget,
       LockTarget, WriteJournal, MarkSource, MarkTarget, Copied, Unredirect, Redirect, Commit,
       Reopen, Abandon, Mark, Refused, Leave, Step, disk
  <2>2. QED
    BY <2>1, EntriesUntouched
<1>4. QED
  BY <1>1, <1>2, <1>3

LEMMA SettleEntries ==
  ASSUME TypeInv, NEW t \in Threads, SettleNext(t) \/ Fail(t) \/ CleanFails(t)
  PROVE  EntryTypes'
<1> DEFINE k == Min(work.todo)
<1>1. /\ Source \in Roots /\ Target \in Roots
      /\ work.todo # {} => /\ k \in Keys /\ staged[k] \in Entries
                           /\ entry[Source][k] \in Entries /\ entry[Target][k] \in Entries
  BY NextEntries, WorkParts DEF TypeInv, LockTypes
<1>2. \A e \in Entries : e.files # "none" => Shrunk(e) \in Entries /\ TagFits(Shrunk(e))
  BY EntryKinds DEF TagFits
<1> HIDE DEF k
<1>3. CASE RollBack(t)
  <2>1. \/ UNCHANGED <<entry, staged>>
        \/ /\ staged[k].files # "none" /\ UNCHANGED entry
           /\ staged' = [staged EXCEPT ![k] = Shrunk(staged[k])]
        \/ /\ entry[Target][k].files # "none" /\ UNCHANGED staged
           /\ entry' = [entry EXCEPT ![Target][k] = Shrunk(entry[Target][k])]
    <3>1. work.todo # {}
      BY <1>3 DEF RollBack
    <3>2. QED
      BY <1>1, <1>3, <3>1 DEF RollBack, k
  <2>2. work.todo # {}
    BY <1>3 DEF RollBack
  <2>3. QED
    BY <1>1, <1>2, <2>1, <2>2, EntryReplaced, StagedReplaced, EntriesUntouched
<1>4. CASE Clean(t)
  <2>1. work.todo # {}
    BY <1>4 DEF Clean
  <2>2. entry[Source][k].tag => entry[Source][k].files # "none"
    BY <1>1, <2>1 DEF TypeInv, EntryTypes, Coherent
  <2>3. /\ UNCHANGED staged
        /\ \/ UNCHANGED entry
           \/ /\ entry[Source][k].files # "none"
              /\ entry' = [entry EXCEPT ![Source][k] = Shrunk(entry[Source][k])]
           \/ /\ entry[Source][k].files = "whole"
              /\ entry' = [entry EXCEPT ![Source][k] = [entry[Source][k] EXCEPT !.tag = TRUE]]
    BY <1>1, <1>4, <2>1, <2>2 DEF Clean, k, Entries
  <2>4. \A e \in Entries : e.files = "whole" =>
          [e EXCEPT !.tag = TRUE] \in Entries /\ TagFits([e EXCEPT !.tag = TRUE])
    BY DEF Entries, TagFits
  <2>5. QED
    BY <1>1, <1>2, <2>1, <2>3, <2>4, EntryReplaced, EntriesUntouched
<1>5. CASE RemoveDirectory(t)
  <2>1. entry' = [entry EXCEPT ![Source][k] = NoEntry] /\ UNCHANGED staged
    BY <1>5 DEF RemoveDirectory, k
  <2>2. CASE k \in Keys
    BY <1>1, <2>1, <2>2, EntryReplaced, EntryKinds DEF TagFits
  <2>3. CASE k \notin Keys
    <3>1. entry' = entry
      BY <1>1, <2>1, <2>3 DEF TypeInv, EntryTypes
    <3>2. QED
      BY <2>1, <3>1, EntriesUntouched
  <2>4. QED
    BY <2>2, <2>3
<1>6. CASE Untag(t)
  <2>1. \A e \in Entries : [e EXCEPT !.tag = FALSE] \in Entries /\ TagFits([e EXCEPT !.tag = FALSE])
    BY DEF Entries, TagFits
  <2>2. /\ UNCHANGED staged
        /\ \/ UNCHANGED entry
           \/ /\ work.todo # {}
              /\ entry' = [entry EXCEPT ![Target][k] = [entry[Target][k] EXCEPT !.tag = FALSE]]
    BY <1>6 DEF Untag, k
  <2>3. QED
    BY <1>1, <2>1, <2>2, EntryReplaced, EntriesUntouched
<1>7. CASE ~(RollBack(t) \/ Clean(t) \/ RemoveDirectory(t) \/ Untag(t))
  <2>1. UNCHANGED <<entry, staged>>
    BY <1>7 DEF SettleNext, RolledBack, UndoRedirect, RestoreRedirect, Verify, Cleaned, UnmarkOne,
       UnmarkOther, DropJournal, Prune, PruneOwner, PruneDirectory, Fail, CleanFails, disk
  <2>2. QED
    BY <2>1, EntriesUntouched
<1>8. QED
  BY <1>3, <1>4, <1>5, <1>6, <1>7

LEMMA CallEntries ==
  ASSUME TypeInv, NEW c \in Windows \X Callers, BeginQuery(c) \/ BeginUpdate(c) \/ CallNext(c)
  PROVE  EntryTypes'
<1>1. c \in Threads /\ c[1] \in Windows /\ at[c] \in Roots
  BY ThreadsOf DEF TypeInv, ThreadTypes
<1>2. CASE Open(c)
  <2>1. /\ UNCHANGED staged
        /\ UNCHANGED entry \/ \E gone : entry' = [entry EXCEPT ![at[c]] = Without(at[c], gone)]
    BY <1>2 DEF Open, Evicted
  <2>2. QED
    BY <1>1, <2>1, EntriesEvicted, EntriesUntouched
<1>3. CASE UpdateLimit(c)
  <2>1. /\ UNCHANGED staged
        /\ \/ UNCHANGED entry
           \/ /\ setting = service[c[1]]
              /\ \E gone : entry' = [entry EXCEPT ![setting] = Without(setting, gone)]
    BY <1>3 DEF UpdateLimit, Evicted, Usable
  <2>2. QED
    BY <2>1, EntriesEvicted, EntriesUntouched DEF TypeInv, DiskTypes
<1>4. CASE ~Open(c) /\ ~UpdateLimit(c)
  <2>1. UNCHANGED <<entry, staged>>
    BY <1>4 DEF CallNext, BeginQuery, TakeMutex, Recover, Inspect, Read, BeginUpdate,
       UpdateControl, UpdateMutex, disk
  <2>2. QED
    BY <2>1, EntriesUntouched
<1>5. QED
  BY <1>2, <1>3, <1>4

-----------------------------------------------------------------------------
(* Types of the locks, the threads and the windows *)

LEMMA LocksReleased ==
  ASSUME TypeInv, NEW t \in Threads, ReleaseLocks(t)
  PROVE  /\ control' \in Threads \union {None} /\ work' \in Works
         /\ global' \in [Roots -> Threads \union {None}]
BY WorkKinds DEF TypeInv, LockTypes, ReleaseLocks

LEMMA Counted == \A n, M \in Nat : n \in 0..M /\ n < M => n + 1 \in 0..M
OBVIOUS

Points == {"idle"} \union Moving \union Settling \union Calling

\* A thread goes to a control point or stays, and works on a root.
LEMMA ThreadWent ==
  ASSUME TypeInv, NEW t \in Threads, NEW r \in Roots,
         pc' = pc \/ \E p \in Points : Goto(t, p), at' = at \/ WorksOn(t, r)
  PROVE  ThreadTypes'
BY DEF TypeInv, ThreadTypes, Points, Goto, WorksOn

LEMMA NewWorkTypes ==
  ASSUME TypeInv, NEW r \in Roots
  PROVE  NewWork(r) \in Works
<1>1. /\ Other(r) \in Roots /\ redirect[Other(r)] \in Roots \union {None}
      /\ (dir[Other(r)] = "absent") \in BOOLEAN
  BY ThreadsOf DEF TypeInv, DiskTypes
<1>2. [source |-> r, target |-> Other(r), absent |-> dir[Other(r)] = "absent",
       prior |-> redirect[Other(r)], keys |-> {k \in Keys : entry[r][k].files = "whole"},
       started |-> FALSE] \in Journals
  BY <1>1 DEF Journals
<1>3. QED
  BY <1>2 DEF NewWork, NoWork, Works

LEMMA MoveLocks ==
  ASSUME TypeInv, NEW w \in Windows, MoverNext(w) \/ StartMove(w) \/ Abandon(w)
  PROVE  LockTypes'
<1> DEFINE m == Mover(w)
<1>1. /\ m \in Threads /\ at[m] \in Roots /\ Source \in Roots /\ Target \in Roots
      /\ work.journal.keys \in SUBSET Keys /\ work \in Works
  BY ThreadsOf, WorkParts DEF TypeInv, LockTypes, ThreadTypes
<1> USE <1>1 DEF TypeInv, LockTypes
<1>2. CASE StartMove(w)
  BY <1>2, LocksReleased, NewWorkTypes, WorkParts DEF StartMove, Refused, Leave, Step, Failed, Return, Settle, Settled, Mark, locks
<1>3. CASE Preview(w)
  BY <1>3, LocksReleased, NewWorkTypes, WorkParts DEF Preview, Refused, Leave, Step, Failed, Return, Settle, Settled, Mark, locks
<1>4. CASE TakeControl(w)
  BY <1>4, LocksReleased, NewWorkTypes, WorkParts DEF TakeControl, Refused, Leave, Step, Failed, Return, Settle, Settled, Mark, locks
<1>5. CASE Check(w)
  BY <1>5, LocksReleased, NewWorkTypes, WorkParts DEF Check, Refused, Leave, Step, Failed, Return, Settle, Settled, Mark, locks
<1>6. CASE CreateTarget(w)
  BY <1>6, LocksReleased, NewWorkTypes, WorkParts DEF CreateTarget, Refused, Leave, Step, Failed, Return, Settle, Settled, Mark, locks
<1>7. CASE OwnTarget(w)
  BY <1>7, LocksReleased, NewWorkTypes, WorkParts DEF OwnTarget, Refused, Leave, Step, Failed, Return, Settle, Settled, Mark, locks
<1>8. CASE LockTarget(w)
  BY <1>8, LocksReleased, NewWorkTypes, WorkParts DEF LockTarget, Refused, Leave, Step, Failed, Return, Settle, Settled, Mark, locks
<1>9. CASE WriteJournal(w)
  BY <1>9, LocksReleased, NewWorkTypes, WorkParts DEF WriteJournal, Refused, Leave, Step, Failed, Return, Settle, Settled, Mark, locks
<1>10. CASE MarkSource(w)
  BY <1>10, LocksReleased, NewWorkTypes, WorkParts DEF MarkSource, Refused, Leave, Step, Failed, Return, Settle, Settled, Mark, locks
<1>11. CASE MarkTarget(w)
  BY <1>11, LocksReleased, NewWorkTypes, WorkParts DEF MarkTarget, Refused, Leave, Step, Failed, Return, Settle, Settled, Mark, locks
<1>12. CASE Copy(w)
  BY <1>12, LocksReleased, NewWorkTypes, WorkParts DEF Copy, Refused, Leave, Step, Failed, Return, Settle, Settled, Mark, locks
<1>13. CASE Copied(w)
  BY <1>13, LocksReleased, NewWorkTypes, WorkParts DEF Copied, Refused, Leave, Step, Failed, Return, Settle, Settled, Mark, locks
<1>14. CASE Unredirect(w)
  BY <1>14, LocksReleased, NewWorkTypes, WorkParts DEF Unredirect, Refused, Leave, Step, Failed, Return, Settle, Settled, Mark, locks
<1>15. CASE Redirect(w)
  BY <1>15, LocksReleased, NewWorkTypes, WorkParts DEF Redirect, Refused, Leave, Step, Failed, Return, Settle, Settled, Mark, locks
<1>16. CASE Commit(w)
  BY <1>16, LocksReleased, NewWorkTypes, WorkParts DEF Commit, Refused, Leave, Step, Failed, Return, Settle, Settled, Mark, locks
<1>17. CASE Reopen(w)
  BY <1>17, LocksReleased, NewWorkTypes, WorkParts DEF Reopen, Refused, Leave, Step, Failed, Return, Settle, Settled, Mark, locks
<1>18. CASE Install(w)
  BY <1>18, LocksReleased, NewWorkTypes, WorkParts DEF Install, Refused, Leave, Step, Failed, Return, Settle, Settled, Mark, locks
<1>19. CASE Abandon(w)
  BY <1>19, LocksReleased, NewWorkTypes, WorkParts DEF Abandon, Refused, Leave, Step, Failed, Return, Settle, Settled, Mark, locks
<1>20. QED
  BY <1>2, <1>3, <1>4, <1>5, <1>6, <1>7, <1>8, <1>9, <1>10, <1>11, <1>12, <1>13, <1>14, <1>15, <1>16, <1>17, <1>18, <1>19 DEF MoverNext

LEMMA SettleLocks ==
  ASSUME TypeInv, NEW t \in Threads, SettleNext(t) \/ Fail(t) \/ CleanFails(t)
  PROVE  LockTypes'
<1>1. /\ work \in Works /\ work.todo \in SUBSET Keys /\ work.journal.keys \in SUBSET Keys
      /\ Source \in Roots /\ Target \in Roots /\ t[1] \in Windows
  BY ThreadsOf, WorkParts DEF TypeInv, LockTypes
<1> USE <1>1 DEF TypeInv, LockTypes
<1>2. CASE RollBack(t)
  BY <1>2, LocksReleased, NewWorkTypes, WorkParts DEF RollBack, Refused, Leave, Step, Failed, Return, Settle, Settled, Mark, locks
<1>3. CASE RolledBack(t)
  BY <1>3, LocksReleased, NewWorkTypes, WorkParts DEF RolledBack, Refused, Leave, Step, Failed, Return, Settle, Settled, Mark, locks
<1>4. CASE UndoRedirect(t)
  BY <1>4, LocksReleased, NewWorkTypes, WorkParts DEF UndoRedirect, Refused, Leave, Step, Failed, Return, Settle, Settled, Mark, locks
<1>5. CASE RestoreRedirect(t)
  BY <1>5, LocksReleased, NewWorkTypes, WorkParts DEF RestoreRedirect, Refused, Leave, Step, Failed, Return, Settle, Settled, Mark, locks
<1>6. CASE Verify(t)
  BY <1>6, LocksReleased, NewWorkTypes, WorkParts DEF Verify, Refused, Leave, Step, Failed, Return, Settle, Settled, Mark, locks
<1>7. CASE Clean(t)
  <2>1. work.todo # {}
    BY <1>7 DEF Clean
  <2>2. entry[Source][Min(work.todo)] \in Entries
    BY <2>1, NextEntries
  <2>3. /\ UNCHANGED locks
        /\ \/ work' = work
           \/ work' = [work EXCEPT !.todo = work.todo \ {Min(work.todo)}]
           \/ work' = [work EXCEPT !.todo = work.todo \ {Min(work.todo)}, !.failed = TRUE]
    BY <1>7, <2>2 DEF Clean, Entries
  <2>4. QED
    BY <2>3, WorkParts DEF locks
<1>8. CASE RemoveDirectory(t)
  BY <1>8, LocksReleased, NewWorkTypes, WorkParts DEF RemoveDirectory, Refused, Leave, Step, Failed, Return, Settle, Settled, Mark, locks
<1>9. CASE Cleaned(t)
  BY <1>9, LocksReleased, NewWorkTypes, WorkParts DEF Cleaned, Refused, Leave, Step, Failed, Return, Settle, Settled, Mark, locks
<1>10. CASE Untag(t)
  BY <1>10, LocksReleased, NewWorkTypes, WorkParts DEF Untag, Refused, Leave, Step, Failed, Return, Settle, Settled, Mark, locks
<1>11. CASE UnmarkOne(t)
  BY <1>11, LocksReleased, NewWorkTypes, WorkParts DEF UnmarkOne, Refused, Leave, Step, Failed, Return, Settle, Settled, Mark, locks
<1>12. CASE UnmarkOther(t)
  BY <1>12, LocksReleased, NewWorkTypes, WorkParts DEF UnmarkOther, Refused, Leave, Step, Failed, Return, Settle, Settled, Mark, locks
<1>13. CASE DropJournal(t)
  BY <1>13, LocksReleased, NewWorkTypes, WorkParts DEF DropJournal, Refused, Leave, Step, Failed, Return, Settle, Settled, Mark, locks
<1>14. CASE Prune(t)
  BY <1>14, LocksReleased, NewWorkTypes, WorkParts DEF Prune, Refused, Leave, Step, Failed, Return, Settle, Settled, Mark, locks
<1>15. CASE PruneOwner(t)
  BY <1>15, LocksReleased, NewWorkTypes, WorkParts DEF PruneOwner, Refused, Leave, Step, Failed, Return, Settle, Settled, Mark, locks
<1>16. CASE PruneDirectory(t)
  BY <1>16, LocksReleased, NewWorkTypes, WorkParts DEF PruneDirectory, Refused, Leave, Step, Failed, Return, Settle, Settled, Mark, locks
<1>17. CASE Fail(t)
  BY <1>17, LocksReleased, NewWorkTypes, WorkParts DEF Fail, Refused, Leave, Step, Failed, Return, Settle, Settled, Mark, locks
<1>18. CASE CleanFails(t)
  BY <1>18, LocksReleased, NewWorkTypes, WorkParts DEF CleanFails, Refused, Leave, Step, Failed, Return, Settle, Settled, Mark, locks
<1>19. QED
  BY <1>2, <1>3, <1>4, <1>5, <1>6, <1>7, <1>8, <1>9, <1>10, <1>11, <1>12, <1>13, <1>14, <1>15, <1>16, <1>17, <1>18 DEF SettleNext

LEMMA CallLocks ==
  ASSUME TypeInv, NEW c \in Windows \X Callers, BeginQuery(c) \/ BeginUpdate(c) \/ CallNext(c)
  PROVE  LockTypes'
<1>1. c \in Threads /\ c[1] \in Windows
  BY ThreadsOf
<1> USE <1>1 DEF TypeInv, LockTypes
<1>2. CASE BeginQuery(c)
  BY <1>2, LocksReleased, NewWorkTypes, WorkParts DEF BeginQuery, Refused, Leave, Step, Failed, Return, Settle, Settled, Mark, locks
<1>3. CASE TakeMutex(c)
  BY <1>3, LocksReleased, NewWorkTypes, WorkParts DEF TakeMutex, Refused, Leave, Step, Failed, Return, Settle, Settled, Mark, locks
<1>4. CASE Recover(c)
  BY <1>4, LocksReleased, NewWorkTypes, WorkParts DEF Recover, Refused, Leave, Step, Failed, Return, Settle, Settled, Mark, locks
<1>5. CASE Inspect(c)
  <2>1. journal \in Journals
    BY <1>5 DEF Inspect, ControlHeld, DiskTypes
  <2>2. /\ [journal |-> journal, todo |-> journal.keys, failed |-> FALSE,
            forward |-> Completes(journal)] \in Works
        /\ [r \in Roots |-> IF dir[r] = "absent" THEN global[r] ELSE c]
             \in [Roots -> Threads \union {None}]
    BY <2>1 DEF Works, Journals, Completes
  <2>3. \/ UNCHANGED <<control, mutex>>
           /\ global' = [r \in Roots |-> IF dir[r] = "absent" THEN global[r] ELSE c]
           /\ work' = [journal |-> journal, todo |-> journal.keys, failed |-> FALSE,
                       forward |-> Completes(journal)]
        \/ ReleaseLocks(c) /\ mutex' = [mutex EXCEPT ![c[1]] = IF @ = c THEN None ELSE @]
    BY <1>5 DEF Inspect, Return
  <2>4. QED
    BY <2>2, <2>3, LocksReleased
<1>6. CASE Read(c)
  BY <1>6, LocksReleased, NewWorkTypes, WorkParts DEF Read, Refused, Leave, Step, Failed, Return, Settle, Settled, Mark, locks
<1>7. CASE Open(c)
  BY <1>7, LocksReleased, NewWorkTypes, WorkParts DEF Open, Refused, Leave, Step, Failed, Return, Settle, Settled, Mark, locks
<1>8. CASE BeginUpdate(c)
  BY <1>8, LocksReleased, NewWorkTypes, WorkParts DEF BeginUpdate, Refused, Leave, Step, Failed, Return, Settle, Settled, Mark, locks
<1>9. CASE UpdateControl(c)
  BY <1>9, LocksReleased, NewWorkTypes, WorkParts DEF UpdateControl, Refused, Leave, Step, Failed, Return, Settle, Settled, Mark, locks
<1>10. CASE UpdateMutex(c)
  BY <1>10, LocksReleased, NewWorkTypes, WorkParts DEF UpdateMutex, Refused, Leave, Step, Failed, Return, Settle, Settled, Mark, locks
<1>11. CASE UpdateLimit(c)
  BY <1>11, LocksReleased, NewWorkTypes, WorkParts DEF UpdateLimit, Refused, Leave, Step, Failed, Return, Settle, Settled, Mark, locks
<1>12. QED
  BY <1>2, <1>3, <1>4, <1>5, <1>6, <1>7, <1>8, <1>9, <1>10, <1>11 DEF CallNext

LEMMA MoveThreads ==
  ASSUME TypeInv, NEW w \in Windows, MoverNext(w) \/ StartMove(w) \/ Abandon(w)
  PROVE  ThreadTypes'
<1> DEFINE m == Mover(w)
<1>1. m \in Threads /\ at[m] \in Roots /\ setting \in Roots
  BY ThreadsOf DEF TypeInv, ThreadTypes, DiskTypes
<1> USE <1>1, ThreadsOf DEF TypeInv, ThreadTypes, Moving, Settling
<1>2. CASE StartMove(w)
  <2>1. service[w] \in Roots /\ WorksOn(m, service[w]) /\ Goto(m, "preview")
    BY <1>2 DEF StartMove, Admits, WindowTypes
  <2>2. QED
    BY <2>1, ThreadWent DEF Points
<1>3. CASE Preview(w)
  <2>1. at' = at \/ WorksOn(m, Home)
    BY <1>3 DEF Preview
  <2>2. \E p \in Points : Goto(m, p)
    BY <1>3 DEF Preview, Points
  <2>3. QED
    BY <2>1, <2>2, ThreadWent
<1>4. CASE TakeControl(w)
  BY <1>4 DEF TakeControl, Goto, WorksOn, Refused, Leave, Step, Failed, Return, Settle, Settled, Mark
<1>5. CASE Check(w)
  BY <1>5 DEF Check, Goto, WorksOn, Refused, Leave, Step, Failed, Return, Settle, Settled, Mark
<1>6. CASE CreateTarget(w)
  <2>1. at' = at /\ \E p \in Points : Goto(m, p)
    BY <1>6 DEF CreateTarget, Mark, Refused, Leave, Step, Points
  <2>2. QED
    BY <2>1, ThreadWent
<1>7. CASE OwnTarget(w)
  <2>1. at' = at /\ \E p \in Points : Goto(m, p)
    BY <1>7 DEF OwnTarget, Mark, Refused, Leave, Step, Points
  <2>2. QED
    BY <2>1, ThreadWent
<1>8. CASE LockTarget(w)
  BY <1>8 DEF LockTarget, Goto, WorksOn, Refused, Leave, Step, Failed, Return, Settle, Settled, Mark
<1>9. CASE WriteJournal(w)
  BY <1>9 DEF WriteJournal, Goto, WorksOn, Refused, Leave, Step, Failed, Return, Settle, Settled, Mark
<1>10. CASE MarkSource(w)
  <2>1. at' = at /\ \E p \in Points : Goto(m, p)
    BY <1>10 DEF MarkSource, Mark, Refused, Leave, Step, Points
  <2>2. QED
    BY <2>1, ThreadWent
<1>11. CASE MarkTarget(w)
  <2>1. at' = at /\ \E p \in Points : Goto(m, p)
    BY <1>11 DEF MarkTarget, Mark, Refused, Leave, Step, Points
  <2>2. QED
    BY <2>1, ThreadWent
<1>12. CASE Copy(w)
  BY <1>12 DEF Copy, Goto, WorksOn, Refused, Leave, Step, Failed, Return, Settle, Settled, Mark
<1>13. CASE Copied(w)
  BY <1>13 DEF Copied, Goto, WorksOn, Refused, Leave, Step, Failed, Return, Settle, Settled, Mark
<1>14. CASE Unredirect(w)
  BY <1>14 DEF Unredirect, Goto, WorksOn, Refused, Leave, Step, Failed, Return, Settle, Settled, Mark
<1>15. CASE Redirect(w)
  BY <1>15 DEF Redirect, Goto, WorksOn, Refused, Leave, Step, Failed, Return, Settle, Settled, Mark
<1>16. CASE Commit(w)
  BY <1>16 DEF Commit, Goto, WorksOn, Refused, Leave, Step, Failed, Return, Settle, Settled, Mark
<1>17. CASE Reopen(w)
  BY <1>17 DEF Reopen, Goto, WorksOn, Refused, Leave, Step, Failed, Return, Settle, Settled, Mark
<1>18. CASE Install(w)
  BY <1>18 DEF Install, Goto, WorksOn, Refused, Leave, Step, Failed, Return, Settle, Settled, Mark
<1>19. CASE Abandon(w)
  BY <1>19 DEF Abandon, Goto, WorksOn, Refused, Leave, Step, Failed, Return, Settle, Settled, Mark
<1>20. QED
  BY <1>2, <1>3, <1>4, <1>5, <1>6, <1>7, <1>8, <1>9, <1>10, <1>11, <1>12, <1>13, <1>14, <1>15, <1>16, <1>17, <1>18, <1>19 DEF MoverNext

LEMMA SettleThreads ==
  ASSUME TypeInv, NEW t \in Threads, SettleNext(t) \/ Fail(t) \/ CleanFails(t)
  PROVE  ThreadTypes'
<1> USE ThreadsOf DEF TypeInv, ThreadTypes, Moving, Settling, Calling
<1>2. CASE RollBack(t)
  <2>1. (pc' = pc /\ at' = at) \/ Failed(t)
    BY <1>2 DEF RollBack
  <2>2. QED
    BY <2>1, ThreadWent DEF Failed, Leave, Return, Points
<1>3. CASE RolledBack(t)
  BY <1>3 DEF RolledBack, Goto, WorksOn, Refused, Leave, Step, Failed, Return, Settle, Settled, Mark
<1>4. CASE UndoRedirect(t)
  BY <1>4 DEF UndoRedirect, Goto, WorksOn, Refused, Leave, Step, Failed, Return, Settle, Settled, Mark
<1>5. CASE RestoreRedirect(t)
  BY <1>5 DEF RestoreRedirect, Goto, WorksOn, Refused, Leave, Step, Failed, Return, Settle, Settled, Mark
<1>6. CASE Verify(t)
  <2>1. at' = at \/ WorksOn(t, Home)
    BY <1>6 DEF Verify, Failed, Leave, Return
  <2>2. pc' = pc \/ \E p \in Points : Goto(t, p)
    BY <1>6 DEF Verify, Failed, Leave, Return, Points
  <2>3. QED
    BY <2>1, <2>2, ThreadWent
<1>7. CASE Clean(t)
  <2>1. work.todo # {}
    BY <1>7 DEF Clean
  <2>2. entry[Source][Min(work.todo)] \in Entries
    BY <2>1, NextEntries
  <2>3. at' = at /\ (pc' = pc \/ Goto(t, "clean") \/ Goto(t, "remove directory"))
    BY <1>7, <2>2 DEF Clean, Entries
  <2>4. QED
    BY <2>3, ThreadWent DEF Points
<1>8. CASE RemoveDirectory(t)
  BY <1>8 DEF RemoveDirectory, Goto, WorksOn, Refused, Leave, Step, Failed, Return, Settle, Settled, Mark
<1>9. CASE Cleaned(t)
  BY <1>9 DEF Cleaned, Goto, WorksOn, Refused, Leave, Step, Failed, Return, Settle, Settled, Mark
<1>10. CASE Untag(t)
  BY <1>10 DEF Untag, Goto, WorksOn, Refused, Leave, Step, Failed, Return, Settle, Settled, Mark
<1>11. CASE UnmarkOne(t)
  BY <1>11 DEF UnmarkOne, Goto, WorksOn, Refused, Leave, Step, Failed, Return, Settle, Settled, Mark
<1>12. CASE UnmarkOther(t)
  BY <1>12 DEF UnmarkOther, Goto, WorksOn, Refused, Leave, Step, Failed, Return, Settle, Settled, Mark
<1>13. CASE DropJournal(t)
  BY <1>13 DEF DropJournal, Goto, WorksOn, Refused, Leave, Step, Failed, Return, Settle, Settled, Mark
<1>14. CASE Prune(t)
  BY <1>14 DEF Prune, Goto, WorksOn, Refused, Leave, Step, Failed, Return, Settle, Settled, Mark
<1>15. CASE PruneOwner(t)
  BY <1>15 DEF PruneOwner, Goto, WorksOn, Refused, Leave, Step, Failed, Return, Settle, Settled, Mark
<1>16. CASE PruneDirectory(t)
  BY <1>16 DEF PruneDirectory, Goto, WorksOn, Refused, Leave, Step, Failed, Return, Settle, Settled, Mark
<1>17. CASE Fail(t)
  <2>1. at' = at \/ WorksOn(t, Home)
    BY <1>17 DEF Fail, Failed, Leave, Return
  <2>2. pc' = pc \/ \E p \in Points : Goto(t, p)
    BY <1>17 DEF Fail, Failed, Leave, Return, Points
  <2>3. QED
    BY <2>1, <2>2, ThreadWent
<1>18. CASE CleanFails(t)
  BY <1>18 DEF CleanFails, Goto, WorksOn, Refused, Leave, Step, Failed, Return, Settle, Settled, Mark
<1>19. QED
  BY <1>2, <1>3, <1>4, <1>5, <1>6, <1>7, <1>8, <1>9, <1>10, <1>11, <1>12, <1>13, <1>14, <1>15, <1>16, <1>17, <1>18 DEF SettleNext

LEMMA CallThreads ==
  ASSUME TypeInv, NEW c \in Windows \X Callers, BeginQuery(c) \/ BeginUpdate(c) \/ CallNext(c)
  PROVE  ThreadTypes'
<1>1. c \in Threads /\ c[1] \in Windows /\ setting \in Roots
  BY ThreadsOf DEF TypeInv, DiskTypes
<1> USE <1>1, ThreadsOf DEF TypeInv, ThreadTypes, Settling, Calling
<1>2. CASE BeginQuery(c)
  BY <1>2 DEF BeginQuery, Goto, WorksOn, Refused, Leave, Step, Failed, Return, Settle, Settled, Mark
<1>3. CASE TakeMutex(c)
  BY <1>3 DEF TakeMutex, Goto, WorksOn, Refused, Leave, Step, Failed, Return, Settle, Settled, Mark
<1>4. CASE Recover(c)
  BY <1>4 DEF Recover, Goto, WorksOn, Refused, Leave, Step, Failed, Return, Settle, Settled, Mark
<1>5. CASE Inspect(c)
  <2>1. at' = at \/ WorksOn(c, Home)
    BY <1>5 DEF Inspect, Return
  <2>2. pc' = pc \/ \E p \in Points : Goto(c, p)
    BY <1>5 DEF Inspect, Return, Points, Settling, Calling
  <2>3. QED
    BY <2>1, <2>2, ThreadWent
<1>6. CASE Read(c)
  BY <1>6 DEF Read, Goto, WorksOn, Refused, Leave, Step, Failed, Return, Settle, Settled, Mark
<1>7. CASE Open(c)
  BY <1>7 DEF Open, Goto, WorksOn, Refused, Leave, Step, Failed, Return, Settle, Settled, Mark
<1>8. CASE BeginUpdate(c)
  BY <1>8 DEF BeginUpdate, Goto, WorksOn, Refused, Leave, Step, Failed, Return, Settle, Settled, Mark
<1>9. CASE UpdateControl(c)
  BY <1>9 DEF UpdateControl, Goto, WorksOn, Refused, Leave, Step, Failed, Return, Settle, Settled, Mark
<1>10. CASE UpdateMutex(c)
  <2>1. at' = at \/ WorksOn(c, Home)
    BY <1>10 DEF UpdateMutex, Return
  <2>2. pc' = pc \/ \E p \in Points : Goto(c, p)
    BY <1>10 DEF UpdateMutex, Return, Points, Settling, Calling
  <2>3. QED
    BY <2>1, <2>2, ThreadWent
<1>11. CASE UpdateLimit(c)
  BY <1>11 DEF UpdateLimit, Goto, WorksOn, Refused, Leave, Step, Failed, Return, Settle, Settled, Mark
<1>12. QED
  BY <1>2, <1>3, <1>4, <1>5, <1>6, <1>7, <1>8, <1>9, <1>10, <1>11 DEF CallNext

LEMMA MoveWindows ==
  ASSUME TypeInv, NEW w \in Windows, MoverNext(w) \/ StartMove(w) \/ Abandon(w)
  PROVE  WindowTypes'
<1> DEFINE m == Mover(w)
<1>1. m \in Threads /\ at[m] \in Roots
  BY ThreadsOf DEF TypeInv, ThreadTypes
<1> USE <1>1 DEF TypeInv, WindowTypes
<1>2. CASE StartMove(w)
  BY <1>2 DEF StartMove, Refused, Leave, Step, Failed, Return, Settle, Settled, Mark, window
<1>3. CASE Preview(w)
  BY <1>3 DEF Preview, Refused, Leave, Step, Failed, Return, Settle, Settled, Mark, window
<1>4. CASE TakeControl(w)
  BY <1>4 DEF TakeControl, Refused, Leave, Step, Failed, Return, Settle, Settled, Mark, window
<1>5. CASE Check(w)
  BY <1>5 DEF Check, Refused, Leave, Step, Failed, Return, Settle, Settled, Mark, window
<1>6. CASE CreateTarget(w)
  BY <1>6 DEF CreateTarget, Refused, Leave, Step, Failed, Return, Settle, Settled, Mark, window
<1>7. CASE OwnTarget(w)
  BY <1>7 DEF OwnTarget, Refused, Leave, Step, Failed, Return, Settle, Settled, Mark, window
<1>8. CASE LockTarget(w)
  BY <1>8 DEF LockTarget, Refused, Leave, Step, Failed, Return, Settle, Settled, Mark, window
<1>9. CASE WriteJournal(w)
  BY <1>9 DEF WriteJournal, Refused, Leave, Step, Failed, Return, Settle, Settled, Mark, window
<1>10. CASE MarkSource(w)
  BY <1>10 DEF MarkSource, Refused, Leave, Step, Failed, Return, Settle, Settled, Mark, window
<1>11. CASE MarkTarget(w)
  BY <1>11 DEF MarkTarget, Refused, Leave, Step, Failed, Return, Settle, Settled, Mark, window
<1>12. CASE Copy(w)
  BY <1>12 DEF Copy, Refused, Leave, Step, Failed, Return, Settle, Settled, Mark, window
<1>13. CASE Copied(w)
  BY <1>13 DEF Copied, Refused, Leave, Step, Failed, Return, Settle, Settled, Mark, window
<1>14. CASE Unredirect(w)
  BY <1>14 DEF Unredirect, Refused, Leave, Step, Failed, Return, Settle, Settled, Mark, window
<1>15. CASE Redirect(w)
  BY <1>15 DEF Redirect, Refused, Leave, Step, Failed, Return, Settle, Settled, Mark, window
<1>16. CASE Commit(w)
  BY <1>16 DEF Commit, Refused, Leave, Step, Failed, Return, Settle, Settled, Mark, window
<1>17. CASE Reopen(w)
  BY <1>17 DEF Reopen, Refused, Leave, Step, Failed, Return, Settle, Settled, Mark, window
<1>18. CASE Install(w)
  <2>1. /\ up' = up /\ leases' = leases /\ busy' = [busy EXCEPT ![w] = FALSE]
        /\ \/ service' = service /\ handles' = handles
           \/ /\ service' = [service EXCEPT ![w] = at[m]]
              /\ handles' = [handles EXCEPT ![w] = handles[w] \union {at[m]}]
    BY <1>18 DEF Install, Serve
  <2>2. QED
    BY <2>1
<1>19. CASE Abandon(w)
  BY <1>19 DEF Abandon, Refused, Leave, Step, Failed, Return, Settle, Settled, Mark, window
<1>20. QED
  BY <1>2, <1>3, <1>4, <1>5, <1>6, <1>7, <1>8, <1>9, <1>10, <1>11, <1>12, <1>13, <1>14, <1>15, <1>16, <1>17, <1>18, <1>19 DEF MoverNext

LEMMA SettleWindows ==
  ASSUME TypeInv, NEW t \in Threads, SettleNext(t) \/ Fail(t) \/ CleanFails(t)
  PROVE  WindowTypes'
<1>1. t[1] \in Windows
  BY ThreadsOf
<1> USE <1>1 DEF TypeInv, WindowTypes
<1>2. CASE RollBack(t)
  BY <1>2 DEF RollBack, Refused, Leave, Step, Failed, Return, Settle, Settled, Mark, window
<1>3. CASE RolledBack(t)
  BY <1>3 DEF RolledBack, Refused, Leave, Step, Failed, Return, Settle, Settled, Mark, window
<1>4. CASE UndoRedirect(t)
  BY <1>4 DEF UndoRedirect, Refused, Leave, Step, Failed, Return, Settle, Settled, Mark, window
<1>5. CASE RestoreRedirect(t)
  BY <1>5 DEF RestoreRedirect, Refused, Leave, Step, Failed, Return, Settle, Settled, Mark, window
<1>6. CASE Verify(t)
  BY <1>6 DEF Verify, Refused, Leave, Step, Failed, Return, Settle, Settled, Mark, window
<1>7. CASE Clean(t)
  BY <1>7 DEF Clean, Refused, Leave, Step, Failed, Return, Settle, Settled, Mark, window
<1>8. CASE RemoveDirectory(t)
  BY <1>8 DEF RemoveDirectory, Refused, Leave, Step, Failed, Return, Settle, Settled, Mark, window
<1>9. CASE Cleaned(t)
  BY <1>9 DEF Cleaned, Refused, Leave, Step, Failed, Return, Settle, Settled, Mark, window
<1>10. CASE Untag(t)
  BY <1>10 DEF Untag, Refused, Leave, Step, Failed, Return, Settle, Settled, Mark, window
<1>11. CASE UnmarkOne(t)
  BY <1>11 DEF UnmarkOne, Refused, Leave, Step, Failed, Return, Settle, Settled, Mark, window
<1>12. CASE UnmarkOther(t)
  BY <1>12 DEF UnmarkOther, Refused, Leave, Step, Failed, Return, Settle, Settled, Mark, window
<1>13. CASE DropJournal(t)
  BY <1>13 DEF DropJournal, Refused, Leave, Step, Failed, Return, Settle, Settled, Mark, window
<1>14. CASE Prune(t)
  BY <1>14 DEF Prune, Refused, Leave, Step, Failed, Return, Settle, Settled, Mark, window
<1>15. CASE PruneOwner(t)
  BY <1>15 DEF PruneOwner, Refused, Leave, Step, Failed, Return, Settle, Settled, Mark, window
<1>16. CASE PruneDirectory(t)
  BY <1>16 DEF PruneDirectory, Refused, Leave, Step, Failed, Return, Settle, Settled, Mark, window
<1>17. CASE Fail(t)
  BY <1>17 DEF Fail, Refused, Leave, Step, Failed, Return, Settle, Settled, Mark, window
<1>18. CASE CleanFails(t)
  BY <1>18 DEF CleanFails, Refused, Leave, Step, Failed, Return, Settle, Settled, Mark, window
<1>19. QED
  BY <1>2, <1>3, <1>4, <1>5, <1>6, <1>7, <1>8, <1>9, <1>10, <1>11, <1>12, <1>13, <1>14, <1>15, <1>16, <1>17, <1>18 DEF SettleNext

LEMMA CallWindows ==
  ASSUME TypeInv, NEW c \in Windows \X Callers, BeginQuery(c) \/ BeginUpdate(c) \/ CallNext(c)
  PROVE  WindowTypes'
<1>1. c \in Threads /\ c[1] \in Windows /\ at[c] \in Roots
  BY ThreadsOf DEF TypeInv, ThreadTypes
<1> USE <1>1 DEF TypeInv, WindowTypes
<1>2. CASE BeginQuery(c)
  BY <1>2 DEF BeginQuery, Refused, Leave, Step, Failed, Return, Settle, Settled, Mark, window
<1>3. CASE TakeMutex(c)
  BY <1>3 DEF TakeMutex, Refused, Leave, Step, Failed, Return, Settle, Settled, Mark, window
<1>4. CASE Recover(c)
  BY <1>4 DEF Recover, Refused, Leave, Step, Failed, Return, Settle, Settled, Mark, window
<1>5. CASE Inspect(c)
  BY <1>5 DEF Inspect, Refused, Leave, Step, Failed, Return, Settle, Settled, Mark, window
<1>6. CASE Read(c)
  BY <1>6 DEF Read, Refused, Leave, Step, Failed, Return, Settle, Settled, Mark, window
<1>7. CASE Open(c)
  <2>1. /\ busy' = busy /\ leases' = leases /\ up' = [up EXCEPT ![c[1]] = TRUE]
        /\ \/ service' = service /\ handles' = handles
           \/ /\ service' = [service EXCEPT ![c[1]] = at[c]]
              /\ handles' = [handles EXCEPT ![c[1]] = handles[c[1]] \union {at[c]}]
    BY <1>7 DEF Open, Serve, Return
  <2>2. QED
    BY <2>1
<1>8. CASE BeginUpdate(c)
  BY <1>8 DEF BeginUpdate, Refused, Leave, Step, Failed, Return, Settle, Settled, Mark, window
<1>9. CASE UpdateControl(c)
  BY <1>9 DEF UpdateControl, Refused, Leave, Step, Failed, Return, Settle, Settled, Mark, window
<1>10. CASE UpdateMutex(c)
  BY <1>10 DEF UpdateMutex, Refused, Leave, Step, Failed, Return, Settle, Settled, Mark, window
<1>11. CASE UpdateLimit(c)
  BY <1>11 DEF UpdateLimit, Refused, Leave, Step, Failed, Return, Settle, Settled, Mark, window
<1>12. QED
  BY <1>2, <1>3, <1>4, <1>5, <1>6, <1>7, <1>8, <1>9, <1>10, <1>11 DEF CallNext

LEMMA MoveBounds ==
  ASSUME TypeInv, NEW w \in Windows, MoverNext(w) \/ StartMove(w) \/ Abandon(w)
  PROVE  BoundTypes'
<1> DEFINE m == Mover(w)
<1> USE MigrationAssumption DEF TypeInv, BoundTypes, Fault, NoFault, bounds
<1>2. CASE StartMove(w)
  BY <1>2 DEF StartMove, Refused, Leave, Step, Failed, Return, Settle, Settled, Mark
<1>3. CASE Preview(w)
  BY <1>3 DEF Preview, Refused, Leave, Step, Failed, Return, Settle, Settled, Mark
<1>4. CASE TakeControl(w)
  BY <1>4 DEF TakeControl, Refused, Leave, Step, Failed, Return, Settle, Settled, Mark
<1>5. CASE Check(w)
  BY <1>5 DEF Check, Refused, Leave, Step, Failed, Return, Settle, Settled, Mark
<1>6. CASE CreateTarget(w)
  <2>1. /\ moves' = moves /\ crashes' = crashes
        /\ NoFault \/ Fault
    BY <1>6 DEF CreateTarget, Refused, Step
  <2>2. QED
    BY <2>1, Counted
<1>7. CASE OwnTarget(w)
  <2>1. /\ moves' = moves /\ crashes' = crashes
        /\ NoFault \/ Fault
    BY <1>7 DEF OwnTarget, Refused, Step
  <2>2. QED
    BY <2>1, Counted
<1>8. CASE LockTarget(w)
  BY <1>8 DEF LockTarget, Refused, Leave, Step, Failed, Return, Settle, Settled, Mark
<1>9. CASE WriteJournal(w)
  <2>1. /\ moves' = moves /\ crashes' = crashes
        /\ NoFault \/ Fault
    BY <1>9 DEF WriteJournal, Refused, Step
  <2>2. QED
    BY <2>1, Counted
<1>10. CASE MarkSource(w)
  <2>1. /\ moves' = moves /\ crashes' = crashes
        /\ NoFault \/ Fault
    BY <1>10 DEF MarkSource, Mark, Refused, Step
  <2>2. QED
    BY <2>1, Counted
<1>11. CASE MarkTarget(w)
  <2>1. /\ moves' = moves /\ crashes' = crashes
        /\ NoFault \/ Fault
    BY <1>11 DEF MarkTarget, Mark, Refused, Step
  <2>2. QED
    BY <2>1, Counted
<1>12. CASE Copy(w)
  BY <1>12 DEF Copy, Refused, Leave, Step, Failed, Return, Settle, Settled, Mark
<1>13. CASE Copied(w)
  BY <1>13 DEF Copied, Refused, Leave, Step, Failed, Return, Settle, Settled, Mark
<1>14. CASE Unredirect(w)
  BY <1>14 DEF Unredirect, Refused, Leave, Step, Failed, Return, Settle, Settled, Mark
<1>15. CASE Redirect(w)
  BY <1>15 DEF Redirect, Refused, Leave, Step, Failed, Return, Settle, Settled, Mark
<1>16. CASE Commit(w)
  BY <1>16 DEF Commit, Refused, Leave, Step, Failed, Return, Settle, Settled, Mark
<1>17. CASE Reopen(w)
  BY <1>17 DEF Reopen, Refused, Leave, Step, Failed, Return, Settle, Settled, Mark
<1>18. CASE Install(w)
  BY <1>18 DEF Install, Refused, Leave, Step, Failed, Return, Settle, Settled, Mark
<1>19. CASE Abandon(w)
  <2>1. /\ moves' = moves /\ crashes' = crashes
        /\ NoFault \/ Fault
    BY <1>19 DEF Abandon
  <2>2. QED
    BY <2>1, Counted
<1>20. QED
  BY <1>2, <1>3, <1>4, <1>5, <1>6, <1>7, <1>8, <1>9, <1>10, <1>11, <1>12, <1>13, <1>14, <1>15, <1>16, <1>17, <1>18, <1>19 DEF MoverNext

LEMMA SettleBounds ==
  ASSUME TypeInv, NEW t \in Threads, SettleNext(t) \/ Fail(t) \/ CleanFails(t)
  PROVE  BoundTypes'
<1> USE MigrationAssumption DEF TypeInv, BoundTypes, Fault, NoFault, bounds
<1>2. CASE RollBack(t)
  BY <1>2 DEF RollBack, Refused, Leave, Step, Failed, Return, Settle, Settled, Mark
<1>3. CASE RolledBack(t)
  BY <1>3 DEF RolledBack, Refused, Leave, Step, Failed, Return, Settle, Settled, Mark
<1>4. CASE UndoRedirect(t)
  BY <1>4 DEF UndoRedirect, Refused, Leave, Step, Failed, Return, Settle, Settled, Mark
<1>5. CASE RestoreRedirect(t)
  BY <1>5 DEF RestoreRedirect, Refused, Leave, Step, Failed, Return, Settle, Settled, Mark
<1>6. CASE Verify(t)
  BY <1>6 DEF Verify, Refused, Leave, Step, Failed, Return, Settle, Settled, Mark
<1>7. CASE Clean(t)
  BY <1>7 DEF Clean, Refused, Leave, Step, Failed, Return, Settle, Settled, Mark
<1>8. CASE RemoveDirectory(t)
  BY <1>8 DEF RemoveDirectory, Refused, Leave, Step, Failed, Return, Settle, Settled, Mark
<1>9. CASE Cleaned(t)
  BY <1>9 DEF Cleaned, Refused, Leave, Step, Failed, Return, Settle, Settled, Mark
<1>10. CASE Untag(t)
  BY <1>10 DEF Untag, Refused, Leave, Step, Failed, Return, Settle, Settled, Mark
<1>11. CASE UnmarkOne(t)
  BY <1>11 DEF UnmarkOne, Refused, Leave, Step, Failed, Return, Settle, Settled, Mark
<1>12. CASE UnmarkOther(t)
  BY <1>12 DEF UnmarkOther, Refused, Leave, Step, Failed, Return, Settle, Settled, Mark
<1>13. CASE DropJournal(t)
  BY <1>13 DEF DropJournal, Refused, Leave, Step, Failed, Return, Settle, Settled, Mark
<1>14. CASE Prune(t)
  BY <1>14 DEF Prune, Refused, Leave, Step, Failed, Return, Settle, Settled, Mark
<1>15. CASE PruneOwner(t)
  BY <1>15 DEF PruneOwner, Refused, Leave, Step, Failed, Return, Settle, Settled, Mark
<1>16. CASE PruneDirectory(t)
  BY <1>16 DEF PruneDirectory, Refused, Leave, Step, Failed, Return, Settle, Settled, Mark
<1>17. CASE Fail(t)
  <2>1. /\ moves' = moves /\ crashes' = crashes
        /\ NoFault \/ Fault
    BY <1>17 DEF Fail
  <2>2. QED
    BY <2>1, Counted
<1>18. CASE CleanFails(t)
  <2>1. /\ moves' = moves /\ crashes' = crashes
        /\ NoFault \/ Fault
    BY <1>18 DEF CleanFails
  <2>2. QED
    BY <2>1, Counted
<1>19. QED
  BY <1>2, <1>3, <1>4, <1>5, <1>6, <1>7, <1>8, <1>9, <1>10, <1>11, <1>12, <1>13, <1>14, <1>15, <1>16, <1>17, <1>18 DEF SettleNext

LEMMA CallBounds ==
  ASSUME TypeInv, NEW c \in Windows \X Callers, BeginQuery(c) \/ BeginUpdate(c) \/ CallNext(c)
  PROVE  BoundTypes'
<1> USE MigrationAssumption DEF TypeInv, BoundTypes, Fault, NoFault, bounds
<1>2. CASE BeginQuery(c)
  BY <1>2 DEF BeginQuery, Refused, Leave, Step, Failed, Return, Settle, Settled, Mark
<1>3. CASE TakeMutex(c)
  BY <1>3 DEF TakeMutex, Refused, Leave, Step, Failed, Return, Settle, Settled, Mark
<1>4. CASE Recover(c)
  BY <1>4 DEF Recover, Refused, Leave, Step, Failed, Return, Settle, Settled, Mark
<1>5. CASE Inspect(c)
  BY <1>5 DEF Inspect, Refused, Leave, Step, Failed, Return, Settle, Settled, Mark
<1>6. CASE Read(c)
  BY <1>6 DEF Read, Refused, Leave, Step, Failed, Return, Settle, Settled, Mark
<1>7. CASE Open(c)
  BY <1>7 DEF Open, Refused, Leave, Step, Failed, Return, Settle, Settled, Mark
<1>8. CASE BeginUpdate(c)
  BY <1>8 DEF BeginUpdate, Refused, Leave, Step, Failed, Return, Settle, Settled, Mark
<1>9. CASE UpdateControl(c)
  BY <1>9 DEF UpdateControl, Refused, Leave, Step, Failed, Return, Settle, Settled, Mark
<1>10. CASE UpdateMutex(c)
  BY <1>10 DEF UpdateMutex, Refused, Leave, Step, Failed, Return, Settle, Settled, Mark
<1>11. CASE UpdateLimit(c)
  BY <1>11 DEF UpdateLimit, Refused, Leave, Step, Failed, Return, Settle, Settled, Mark
<1>12. QED
  BY <1>2, <1>3, <1>4, <1>5, <1>6, <1>7, <1>8, <1>9, <1>10, <1>11 DEF CallNext

LEMMA UseTypes ==
  ASSUME TypeInv, NEW w \in Windows, NEW r \in Roots, NEW k \in Keys,
         \/ Lookup(w, r, k) \/ Release(w, r, k) \/ Publish(w, r, k)
         \/ Reclaim(w, r) \/ ClearInactive(w, r)
  PROVE  TypeInv'
<1>1. UNCHANGED <<setting, journal, dir, redirect, marker, staged, locks, service, busy, up,
                  handles, pc, at, work, bounds>>
  BY DEF Lookup, Release, Publish, Reclaim, ClearInactive, Evict, disk, window
<1>2. ControlHeld' /\ ThreadTypes' /\ LockTypes' /\ BoundTypes'
  BY <1>1, ControlStays DEF TypeInv, ThreadTypes, LockTypes, BoundTypes, locks, bounds
<1>3. leases' \in [Windows -> SUBSET (Roots \X Keys)] /\ WindowTypes'
  <2>1. \/ leases' = leases
        \/ leases' = [leases EXCEPT ![w] = leases[w] \union {<<r, k>>}]
        \/ leases' = [leases EXCEPT ![w] = leases[w] \ {<<r, k>>}]
    BY DEF Lookup, Release, Publish, Reclaim, ClearInactive, Evict, window
  <2>2. leases' \in [Windows -> SUBSET (Roots \X Keys)]
    BY <2>1 DEF TypeInv, WindowTypes
  <2>3. QED
    BY <1>1, <2>2 DEF TypeInv, WindowTypes
<1>4. live' \in SUBSET Keys /\ EntryTypes'
  <2>1. CASE \E gone : /\ entry' = [entry EXCEPT ![r] = Without(r, gone)]
                       /\ live' = live \ gone
    BY <1>1, <2>1, EntriesEvicted DEF TypeInv, DiskTypes
  <2>2. CASE \E gone : /\ entry' = [entry EXCEPT ![r] = [Without(r, gone) EXCEPT ![k] = WholeEntry]]
                       /\ live' = (live \ gone) \union {k}
    BY <1>1, <2>2, EntriesPublished DEF TypeInv, DiskTypes
  <2>3. CASE UNCHANGED <<entry, live>>
    BY <1>1, <2>3, EntriesUntouched DEF TypeInv, DiskTypes
  <2>4. QED
    BY <2>1, <2>2, <2>3 DEF Lookup, Release, Publish, Reclaim, ClearInactive, Evict, disk
<1>5. DiskTypes'
  BY <1>1, <1>4 DEF TypeInv, DiskTypes
<1>6. QED
  BY <1>2, <1>3, <1>4, <1>5 DEF TypeInv

LEMMA CrashTypes ==
  ASSUME TypeInv, NEW w \in Windows, Crash(w)
  PROVE  TypeInv'
<1>1. ControlHeld' /\ DiskTypes' /\ EntryTypes'
  BY CrashControl, DiskUntouched, DiskTypesUntouched
<1>2. LockTypes'
  BY WorkKinds DEF Crash, TypeInv, LockTypes
<1>3. ThreadTypes'
  BY ThreadsOf DEF Crash, TypeInv, ThreadTypes
<1>4. WindowTypes'
  BY DEF Crash, TypeInv, WindowTypes
<1>5. BoundTypes'
  BY Counted, MigrationAssumption DEF Crash, TypeInv, BoundTypes
<1>6. QED
  BY <1>1, <1>2, <1>3, <1>4, <1>5 DEF TypeInv

LEMMA TypesStep ==
  ASSUME TypeInv, [Next]_vars
  PROVE  TypeInv'
<1>1. ASSUME NEW w \in Windows, StartMove(w) \/ MoverNext(w) \/ Abandon(w)
      PROVE  TypeInv'
  BY <1>1, MoveControl, MoveDisk, MoveEntries, MoveLocks, MoveThreads, MoveWindows, MoveBounds
     DEF TypeInv
<1>2. ASSUME NEW t \in Threads, SettleNext(t) \/ Fail(t) \/ CleanFails(t)
      PROVE  TypeInv'
  BY <1>2, SettleControl, SettleDisk, SettleEntries, SettleLocks, SettleThreads, SettleWindows,
     SettleBounds DEF TypeInv
<1>3. ASSUME NEW c \in Windows \X Callers, BeginQuery(c) \/ BeginUpdate(c) \/ CallNext(c)
      PROVE  TypeInv'
  BY <1>3, CallControl, CallDisk, CallEntries, CallLocks, CallThreads, CallWindows, CallBounds
     DEF TypeInv
<1>4. ASSUME NEW w \in Windows, NEW r \in Roots, Reclaim(w, r) \/ ClearInactive(w, r)
      PROVE  TypeInv'
  <2>1. PICK k \in Keys : TRUE
    BY <1>4 DEF Reclaim, ClearInactive, Evictable
  <2>2. QED
    BY <1>4, UseTypes
<1>5. CASE UNCHANGED vars
  <2>1. UNCHANGED disk /\ UNCHANGED <<pc, control, journal, busy>>
    BY <1>5 DEF vars, disk, locks, window
  <2>2. ControlHeld' /\ DiskTypes' /\ EntryTypes'
    BY <2>1, ControlStays, DiskTypesUntouched
  <2>3. QED
    BY <1>5, <2>2 DEF vars, locks, window, bounds, TypeInv, LockTypes, ThreadTypes, WindowTypes,
       BoundTypes
<1>6. QED
  BY <1>1, <1>2, <1>3, <1>4, <1>5, UseTypes, CrashTypes DEF Next

LEMMA TypesInit == Init => TypeInv
<1> SUFFICES ASSUME Init  PROVE TypeInv
  OBVIOUS
<1>1. ControlHeld
  BY ThreadsOf DEF Init, ControlHeld, Controlling, Uncommitted, Settling
<1>2. DiskTypes /\ LockTypes
  BY WorkKinds, ThreadsOf DEF Init, DiskTypes, LockTypes
<1>3. EntryTypes
  <2>1. /\ \A r \in Roots : \A k \in Keys : entry[r][k] \in {NoEntry, WholeEntry}
        /\ \A k \in Keys : staged[k] = NoEntry
        /\ entry \in [Roots -> [Keys -> Entries]] /\ staged \in [Keys -> Entries]
    BY EntryKinds DEF Init
  <2>2. QED
    BY <2>1, EntryKinds DEF EntryTypes, Coherent
<1>4. ThreadTypes /\ WindowTypes /\ BoundTypes
  BY ThreadsOf, MigrationAssumption DEF Init, ThreadTypes, WindowTypes, BoundTypes
<1>5. QED
  BY <1>1, <1>2, <1>3, <1>4 DEF TypeInv

\* Every variable of the move has its type, the control lock has one holder, which is at a
\* point that needs it, and a directory without files has no tag.
THEOREM MigrationTyped == Spec => [](TypeOK /\ ControlHeld)
<1>1. TypeInv /\ [Next]_vars => TypeInv'
  BY TypesStep
<1>2. TypeInv => TypeOK /\ ControlHeld
  BY TypesSplit
<1>3. QED
  BY <1>1, <1>2, TypesInit, PTL DEF Spec

-----------------------------------------------------------------------------
(* The inductive invariant *)

Journaled == {"mark source", "mark target", "copy", "unredirect", "redirect", "commit"}
             \union (Settling \ Pruning)
Unjournaled == {"check", "create", "own", "lock", "journal"} \union Pruning
RollingBack == {"roll back", "undo redirect", "restore redirect"} \union Pruning
RolledBackOnes == {"undo redirect", "restore redirect", "unmark one", "unmark other",
                   "drop journal"}
CleanedOnes == {"untag", "unmark one", "unmark other", "drop journal"}

\* Only entries of the selected root are leased.
LeasesOfSetting == \A w \in Windows : \A l \in leases[w] : l[1] = setting

SettingOwned == dir[setting] = "owned"

\* While there is a journal: only its keys are staged or tagged; before the settings are
\* saved the source has no tag, afterwards nothing is staged and the target is open.
JournalKept ==
  journal # None =>
    /\ journal.target = Other(journal.source)
    /\ journal.started => setting = journal.target
    /\ \A k \in Keys \ journal.keys :
         staged[k] = NoEntry /\ \A r \in Roots : ~entry[r][k].tag
    /\ setting = journal.source => \A k \in Keys : ~entry[setting][k].tag
    /\ setting = journal.target =>
         redirect[setting] = None /\ \A k \in Keys : staged[k] = NoEntry

FilesKept == CacheFollowsSetting /\ SettingOwned /\ JournalKept /\ SelectedOpens
LeasesKept == LeasedWhole /\ LeasesOfSetting

\* What the holder of the control lock may rely on at point p of its move.
JournalOf(p) ==
  /\ p \in Journaled => journal = work.journal
  /\ p \in Unjournaled => journal = None

Done(k) == k \in work.journal.keys /\ k \notin work.todo

\* Before the settings are saved the move has locked the root they name, nobody leases
\* from it, and its keys are all the entries of it.
Moves(p) ==
  p \in Uncommitted =>
    /\ setting = Source /\ Target = Other(Source) /\ global[Source] = control
    /\ ~work.forward /\ ~work.failed /\ ~work.journal.started
    /\ \A k \in Keys : k \in work.journal.keys <=> entry[Source][k].files = "whole"
    /\ p \notin {"create", "own"} => dir[Target] = "owned"
    /\ p \notin {"create", "own", "lock"} =>
         global[Target] = control /\ \A w \in Windows : leases[w] = {}

Copies(p) ==
  /\ p = "copy" =>
       /\ work.todo \subseteq work.journal.keys
       /\ \A k \in Keys : Done(k) => entry[Target][k].files = "whole" /\ staged[k] = NoEntry
  /\ p \in {"unredirect", "redirect", "commit"} =>
       /\ \A k \in work.journal.keys : entry[Target][k].files = "whole"
       /\ \A k \in Keys : staged[k] = NoEntry
  /\ p \in {"redirect", "commit"} => redirect[Target] = None

Settles(p) ==
  p \in Settling =>
    /\ work.forward <=> setting = Target
    /\ Target = Other(Source)
    /\ work.todo \subseteq work.journal.keys
    /\ ~work.forward => ~work.failed
    /\ p \in RollingBack => ~work.forward
    /\ p \in {"verify", "clean", "remove directory", "untag"} => work.forward
    /\ p = "unmark other" => ~marker[IF work.forward THEN Target ELSE Source]
    /\ p = "drop journal" => \A r \in Roots : ~marker[r]

RollsBack(p) ==
  /\ p = "roll back" =>
       \A k \in Keys : Done(k) => staged[k].files = "none" /\ entry[Target][k].files = "none"
  /\ p \in RolledBackOnes /\ ~work.forward =>
       \A k \in work.journal.keys : staged[k].files = "none" /\ entry[Target][k].files = "none"
  /\ p \in RolledBackOnes \ {"undo redirect"} /\ ~work.forward => redirect[Source] = None

Finishes(p) ==
  /\ p = "verify" => work.todo = work.journal.keys
  /\ p \in {"clean", "remove directory"} =>
       work.failed \/ \A k \in Keys : Done(k) => entry[Source][k].files = "none"
  /\ p = "remove directory" => work.todo # {}
  /\ p \in CleanedOnes /\ work.forward =>
       work.failed \/ \A k \in work.journal.keys : entry[Source][k].files = "none"
  /\ p = "untag" => \A k \in Keys : Done(k) => ~entry[Target][k].tag
  /\ p \in CleanedOnes \ {"untag"} /\ work.forward =>
       \A k \in work.journal.keys : ~entry[Target][k].tag

Holds(p) ==
  JournalOf(p) /\ Moves(p) /\ Copies(p) /\ Settles(p) /\ RollsBack(p) /\ Finishes(p)

HolderKeeps == control # None => Holds(pc[control])

MoveInvariant == TypeInv /\ FilesKept /\ LeasesKept /\ HolderKeeps

LEMMA MoveInvariantInit == Init => MoveInvariant
<1> SUFFICES ASSUME Init  PROVE MoveInvariant
  OBVIOUS
<1>1. TypeInv
  BY TypesInit
<1>2. /\ \A r \in Roots : \A k \in Keys : ~entry[r][k].tag
      /\ \A k \in live : k \in Keys /\ entry[setting][k] = WholeEntry
  BY EntryKinds DEF Init
<1>3. FilesKept
  BY <1>2, EntryKinds, ThreadsOf DEF Init, FilesKept, CacheFollowsSetting, SettingOwned,
     JournalKept, SelectedOpens, Roots
<1>4. LeasesKept /\ HolderKeeps
  BY DEF Init, LeasesKept, LeasedWhole, LeasesOfSetting, HolderKeeps
<1>5. QED
  BY <1>1, <1>3, <1>4 DEF MoveInvariant

-----------------------------------------------------------------------------
(* Steps that are not of the holder of the control lock, or that give it up *)

HolderStays ==
  \/ control' = None
  \/ /\ control' = control /\ work' = work
     /\ control # None => pc'[control] = pc[control]
     /\ \A r \in Roots : global[r] = control => global'[r] = control

\* No file changes.
LEMMA FilesSame ==
  ASSUME MoveInvariant, UNCHANGED disk, \A w \in Windows : leases'[w] \subseteq leases[w]
  PROVE  FilesKept' /\ LeasesKept'
<1> USE DEF MoveInvariant, disk
<1>1. FilesKept'
  BY DEF FilesKept, CacheFollowsSetting, SettingOwned, JournalKept, SelectedOpens
<1>2. LeasesKept'
  BY DEF LeasesKept, LeasedWhole, LeasesOfSetting
<1>3. QED
  BY <1>1, <1>2

\* Nor does the point at which the holder of the control lock is.
LEMMA FilesUntouched ==
  ASSUME MoveInvariant, UNCHANGED disk, HolderStays, \A w \in Windows : leases'[w] \subseteq leases[w]
  PROVE  FilesKept' /\ LeasesKept' /\ HolderKeeps'
<1> USE DEF MoveInvariant, disk
<1>1. FilesKept' /\ LeasesKept'
  BY FilesSame
<1>3. HolderKeeps'
  <2> SUFFICES ASSUME control' # None  PROVE Holds(pc[control])'
    BY DEF HolderStays, HolderKeeps
  <2>1. /\ control' = control /\ control # None /\ work' = work /\ pc'[control] = pc[control]
        /\ \A r \in Roots : global[r] = control => global'[r] = control
        /\ Holds(pc[control])
    BY DEF HolderStays, HolderKeeps
  <2>2. Source \in Roots /\ Target \in Roots
    BY WorkParts DEF TypeInv, LockTypes
  <2> DEFINE p == pc[control]
  <2>3. Moves(p)'
    BY <2>1, <2>2 DEF Holds, Moves, Source, Target, Other
  <2>4. JournalOf(p)' /\ Copies(p)'
    BY <2>1 DEF Holds, JournalOf, Copies, Target, Done
  <2>5. Settles(p)'
    BY <2>1 DEF Holds, Settles, Source, Target, Other
  <2>6. RollsBack(p)'
    BY <2>1 DEF Holds, RollsBack, Source, Target, Done
  <2>7. Finishes(p)'
    BY <2>1 DEF Holds, Finishes, Source, Target, Done
  <2>8. QED
    BY <2>1, <2>3, <2>4, <2>5, <2>6, <2>7 DEF Holds
<1>4. QED
  BY <1>1, <1>3

\* Entries that nobody leases are evicted from a root whose lock is free.
LEMMA FilesEvicted ==
  ASSUME MoveInvariant, NEW r \in Roots, NEW gone \in SUBSET Evictable(r),
         entry' = [entry EXCEPT ![r] = Without(r, gone)],
         live' = (IF r = setting THEN live \ gone ELSE live),
         UNCHANGED <<setting, journal, dir, redirect, marker, staged>>,
         HolderStays, global[r] = None \/ control' = None,
         \A w \in Windows : leases'[w] = leases[w]
  PROVE  FilesKept' /\ LeasesKept' /\ HolderKeeps'
<1> USE DEF MoveInvariant
<1>1. /\ \A q \in Roots : \A k \in Keys :
           entry'[q][k] = IF q = r /\ k \in gone THEN NoEntry ELSE entry[q][k]
      /\ setting \in Roots /\ live \subseteq Keys
  <2>1. TypeInv
    OBVIOUS
  <2>2. setting \in Roots /\ live \subseteq Keys
    BY <2>1, SMTT(30) DEF TypeInv, DiskTypes
  <2>3. r \in Roots /\ entry' = [entry EXCEPT ![r] = Without(r, gone)]
    OBVIOUS
  <2>4. \A q \in Roots : \A k \in Keys :
           entry'[q][k] = IF q = r /\ k \in gone THEN NoEntry ELSE entry[q][k]
    BY ONLY <2>1, <2>3, EntriesGone, ZenonT(60)
  <2>5. QED
    BY <2>2, <2>4
<1>2. FilesKept'
  <2>1. CacheFollowsSetting' /\ SettingOwned'
    BY <1>1 DEF FilesKept, CacheFollowsSetting, SettingOwned
  <2>2. JournalKept' /\ SelectedOpens'
    BY <1>1, EntryKinds DEF FilesKept, JournalKept, SelectedOpens
  <2>3. QED
    BY <2>1, <2>2 DEF FilesKept
<1>3. LeasesKept'
  <2>1. \A w \in Windows : \A l \in leases[w] :
          l \in Roots \X Keys /\ ~(l[1] = r /\ l[2] \in gone)
    BY DEF TypeInv, WindowTypes, Evictable, Unleased
  <2>2. \A w \in Windows : \A l \in leases[w] : entry'[l[1]][l[2]] = entry[l[1]][l[2]]
    BY <1>1, <2>1
  <2>3. QED
    BY <2>2 DEF LeasesKept, LeasedWhole, LeasesOfSetting
<1>4. HolderKeeps'
  <2> SUFFICES ASSUME control' # None  PROVE Holds(pc[control])'
    BY DEF HolderStays, HolderKeeps
  <2>1. /\ control' = control /\ control # None /\ work' = work /\ pc'[control] = pc[control]
        /\ \A q \in Roots : global[q] = control => global'[q] = control
        /\ Holds(pc[control]) /\ global[r] # control
    BY DEF HolderStays, HolderKeeps
  <2>2. Source \in Roots /\ Target \in Roots /\ work.journal.keys \subseteq Keys
    BY WorkParts DEF TypeInv, LockTypes
  <2> DEFINE p == pc[control]
  <2>3. p \in Uncommitted => \A k \in Keys : entry'[Source][k] = entry[Source][k]
    BY <1>1, <2>1, <2>2 DEF Holds, Moves
  <2>4. p \in {"copy", "unredirect", "redirect", "commit"} =>
          \A k \in Keys : entry'[Target][k] = entry[Target][k]
    <3>1. p \in {"copy", "unredirect", "redirect", "commit"} =>
            p \in Uncommitted /\ p \notin {"create", "own", "lock"}
      BY DEF Uncommitted
    <3>2. p \in {"copy", "unredirect", "redirect", "commit"} => global[Target] = control
      BY <2>1, <3>1 DEF Holds, Moves
    <3>3. QED
      BY <1>1, <2>1, <2>2, <3>2
  <2>5. Moves(p)'
    BY <2>1, <2>2, <2>3 DEF Holds, Moves, Source, Target, Other
  <2>6. JournalOf(p)' /\ Copies(p)'
    BY <2>1, <2>2, <2>4 DEF Holds, JournalOf, Copies, Target, Done
  <2>7. Settles(p)'
    BY <2>1 DEF Holds, Settles, Source, Target, Other
  <2>8. \A q \in Roots : \A k \in Keys :
          /\ entry[q][k].files = "none" => entry'[q][k].files = "none"
          /\ ~entry[q][k].tag => ~entry'[q][k].tag
    BY <1>1, EntryKinds
  <2>9. RollsBack(p)'
    BY <2>1, <2>2, <2>8 DEF Holds, RollsBack, Source, Target, Done
  <2>10. Finishes(p)'
    <3>1. /\ Source' = Source /\ Target' = Target /\ \A k \in Keys : Done(k)' <=> Done(k)
          /\ Finishes(p)
      BY <2>1 DEF Source, Target, Done, Holds
    <3>2. (p = "verify" => work.todo = work.journal.keys)'
      BY <2>1, <3>1 DEF Finishes
    <3>3. (p = "remove directory" => work.todo # {})'
      BY <2>1, <3>1 DEF Finishes
    <3>4. (p \in {"clean", "remove directory"} =>
             work.failed \/ \A k \in Keys : Done(k) => entry[Source][k].files = "none")'
      <4>1. CASE work.failed
        BY <2>1, <4>1
      <4>2. CASE ~work.failed /\ p \in {"clean", "remove directory"}
        <5>1. \A k \in Keys : Done(k) => entry[Source][k].files = "none"
          BY <3>1, <4>2 DEF Finishes
        <5>2. \A k \in Keys : Done(k)' => entry'[Source'][k].files = "none"
          BY <2>2, <2>8, <3>1, <5>1
        <5>3. QED
          BY <5>2
      <4>3. QED
        BY <2>1, <4>1, <4>2
    <3>5. (p \in CleanedOnes /\ work.forward =>
             work.failed \/ \A k \in work.journal.keys : entry[Source][k].files = "none")'
      <4>1. CASE work.failed
        BY <2>1, <4>1
      <4>2. CASE ~work.failed /\ p \in CleanedOnes /\ work.forward
        <5>1. \A k \in work.journal.keys : entry[Source][k].files = "none"
          BY <3>1, <4>2 DEF Finishes
        <5>2. \A k \in work.journal.keys : entry'[Source'][k].files = "none"
          BY <2>2, <2>8, <3>1, <5>1
        <5>3. QED
          BY <2>1, <5>2
      <4>3. QED
        BY <2>1, <4>1, <4>2
    <3>6. (p = "untag" => \A k \in Keys : Done(k) => ~entry[Target][k].tag)'
      BY <2>1, <2>2, <2>8, <3>1 DEF Finishes
    <3>7. (p \in CleanedOnes \ {"untag"} /\ work.forward =>
             \A k \in work.journal.keys : ~entry[Target][k].tag)'
      BY <2>1, <2>2, <2>8, <3>1 DEF Finishes
    <3>8. QED
      BY <3>2, <3>3, <3>4, <3>5, <3>6, <3>7, Zenon DEF Finishes
  <2>11. QED
    BY <2>1, <2>5, <2>6, <2>7, <2>9, <2>10 DEF Holds
<1>5. QED
  BY <1>2, <1>3, <1>4

-----------------------------------------------------------------------------
(* Use of the cache *)

\* The lock of the root that the settings name is free: no move is before its commit.
LEMMA RootFree ==
  ASSUME MoveInvariant, global[setting] = None, control # None
  PROVE  pc[control] \notin Uncommitted
BY DEF MoveInvariant, HolderKeeps, Holds, Moves

LEMMA HolderGoesOn ==
  ASSUME UNCHANGED <<control, work, pc, global>>
  PROVE  HolderStays
BY DEF HolderStays

LEMMA UseSafe ==
  ASSUME MoveInvariant, NEW w \in Windows, NEW r \in Roots, NEW k \in Keys,
         \/ Lookup(w, r, k) \/ Release(w, r, k) \/ Publish(w, r, k)
         \/ Reclaim(w, r) \/ ClearInactive(w, r)
  PROVE  FilesKept' /\ LeasesKept' /\ HolderKeeps'
<1>1. UNCHANGED <<setting, journal, dir, redirect, marker, staged, control, global, pc, work>>
  BY DEF Lookup, Release, Publish, Reclaim, ClearInactive, Evict, disk, locks
<1>2. HolderStays /\ leases \in [Windows -> SUBSET (Roots \X Keys)]
  BY <1>1, HolderGoesOn DEF MoveInvariant, TypeInv, WindowTypes
<1>3. CASE Release(w, r, k)
  <2>1. UNCHANGED disk /\ \A v \in Windows : leases'[v] \subseteq leases[v]
    BY <1>2, <1>3 DEF Release
  <2>2. QED
    BY <1>2, <2>1, FilesUntouched
<1>4. CASE Reclaim(w, r) \/ ClearInactive(w, r)
  <2>1. PICK gone \in SUBSET Evictable(r) : Evict(w, r, gone)
    BY <1>4 DEF Reclaim, ClearInactive
  <2>2. /\ r = setting /\ global[r] = None /\ entry' = [entry EXCEPT ![r] = Without(r, gone)]
        /\ live' = live \ gone /\ leases' = leases
    BY <2>1 DEF Evict, Reaches, Usable, window
  <2>3. QED
    BY <1>1, <1>2, <2>2, FilesEvicted
<1>5. ASSUME r = setting, global[r] = None,
             leases' = [leases EXCEPT ![w] = @ \union {<<r, k>>}],
             entry'[r][k].files = "whole",
             \A v \in Windows : \A l \in leases[v] : entry'[l[1]][l[2]].files = "whole"
      PROVE  LeasesKept'
  <2>1. \A v \in Windows : \A l \in leases'[v] : l \in leases[v] \/ l = <<r, k>>
    BY <1>2, <1>5
  <2>2. QED
    BY <1>1, <1>5, <2>1 DEF LeasesKept, LeasedWhole, LeasesOfSetting, MoveInvariant
<1>6. CASE Lookup(w, r, k)
  <2>1. /\ r = setting /\ global[r] = None /\ entry[r][k].files = "whole"
        /\ leases' = [leases EXCEPT ![w] = @ \union {<<r, k>>}] /\ UNCHANGED <<entry, live>>
    BY <1>6 DEF Lookup, Reaches, Usable, disk
  <2>2. LeasesKept'
    BY <1>5, <2>1 DEF MoveInvariant, LeasesKept, LeasedWhole
  <2>3. FilesKept'
    BY <1>1, <2>1 DEF MoveInvariant, FilesKept, CacheFollowsSetting, SettingOwned, JournalKept,
       SelectedOpens
  <2>4. HolderKeeps'
    <3>1. control # None => Holds(pc[control]) /\ pc[control] \notin Uncommitted
      BY <2>1, RootFree DEF MoveInvariant, HolderKeeps
    <3>2. control # None => Holds(pc[control])'
      BY <1>1, <2>1, <3>1 DEF Holds, JournalOf, Moves, Copies, Settles, RollsBack, Finishes, Source,
         Target, Other, Done
    <3>3. QED
      BY <1>1, <3>2 DEF HolderKeeps
  <2>5. QED
    BY <2>2, <2>3, <2>4
<1>7. CASE Publish(w, r, k)
  <2>1. /\ r = setting /\ global[r] = None
        /\ leases' = [leases EXCEPT ![w] = @ \union {<<r, k>>}]
    BY <1>7 DEF Publish, Reaches, Usable
  <2>2. CASE entry[r][k].files = "whole" /\ UNCHANGED <<entry, live>>
    <3>1. Lookup(w, r, k)
      BY <1>7, <2>2 DEF Publish, Lookup, disk
    <3>2. QED
      BY <3>1, <1>6
  <2>3. CASE entry[r][k].files = "none"
    <3>1. PICK gone \in SUBSET Evictable(r) :
            /\ entry' = [entry EXCEPT ![r] = [Without(r, gone) EXCEPT ![k] = WholeEntry]]
            /\ live' = (live \ gone) \union {k}
      BY <1>7, <2>3 DEF Publish
    <3>2. /\ \A q \in Roots : \A x \in Keys :
               entry'[q][x] = IF q # r THEN entry[q][x] ELSE IF x = k THEN WholeEntry
                              ELSE IF x \in gone THEN NoEntry ELSE entry[q][x]
          /\ live \subseteq Keys /\ setting \in Roots
      <4>1. TypeInv /\ setting \in Roots /\ live \subseteq Keys
        BY DEF MoveInvariant, TypeInv, DiskTypes
      <4>2. UNCHANGED staged /\ entry' = [entry EXCEPT ![r] = [Without(r, gone) EXCEPT ![k] = WholeEntry]]
        BY <1>1, <3>1
      <4>3. \A q \in Roots : \A x \in Keys :
               entry'[q][x] = IF q # r THEN entry[q][x] ELSE IF x = k THEN WholeEntry
                              ELSE IF x \in gone THEN NoEntry ELSE entry[q][x]
        <5>1. Published(r, k, gone)
          BY <4>1, <4>2, EntriesPublished
        <5>2. QED
          BY <5>1 DEF Published
      <4>4. QED
        BY <4>1, <4>3
    <3>3. LeasesKept'
      <4>1. \A v \in Windows : \A l \in leases[v] :
              l \in Roots \X Keys /\ ~(l[1] = r /\ l[2] \in gone)
        BY <1>2 DEF Evictable, Unleased
      <4>2. \A v \in Windows : \A l \in leases[v] : entry'[l[1]][l[2]].files = "whole"
        BY <3>2, <4>1, EntryKinds DEF MoveInvariant, LeasesKept, LeasedWhole
      <4>3. QED
        BY <1>5, <2>1, <3>2, <4>2, EntryKinds
    <3>4. FilesKept'
      <4>1. CacheFollowsSetting' /\ SettingOwned'
        BY <1>1, <2>1, <3>1, <3>2, EntryKinds DEF MoveInvariant, FilesKept, CacheFollowsSetting,
           SettingOwned
      <4>2. \A q \in Roots : \A x \in Keys : ~entry[q][x].tag => ~entry'[q][x].tag
        BY <3>2, EntryKinds
      <4>3. JournalKept' /\ SelectedOpens'
        BY <1>1, <3>2, <4>2 DEF MoveInvariant, FilesKept, JournalKept, SelectedOpens
      <4>4. QED
        BY <4>1, <4>3 DEF FilesKept
    <3>5. HolderKeeps'
      <4> SUFFICES ASSUME control # None  PROVE Holds(pc[control])'
        BY <1>1 DEF HolderKeeps
      <4> DEFINE p == pc[control]
      <4>1. Holds(p) /\ p \notin Uncommitted
        BY <2>1, RootFree DEF MoveInvariant, HolderKeeps
      <4>10. /\ Source \in Roots /\ Target \in Roots /\ work.journal.keys \subseteq Keys
             /\ setting \in Roots
        BY WorkParts DEF MoveInvariant, TypeInv, LockTypes, DiskTypes
      <4>11. p \in Settling => (work.forward <=> setting = Target) /\ Target = Other(Source)
        BY <4>1 DEF Holds, Settles
      <4>12. p \in Settling => setting \in {Source, Target} /\ Source # Target
        BY <4>10, <4>11, ThreadsOf DEF Roots, Other
      <4>2. /\ Source \in Roots /\ Target \in Roots /\ work.journal.keys \subseteq Keys
            /\ p \in Settling => (work.forward <=> setting = Target) /\ Target = Other(Source)
            /\ p \in Settling => setting \in {Source, Target} /\ Source # Target
        BY <4>10, <4>11, <4>12
      <4>3. JournalOf(p)' /\ Moves(p)' /\ Copies(p)'
        BY <1>1, <4>1 DEF Holds, JournalOf, Moves, Copies, Uncommitted
      <4>4. Settles(p)'
        BY <1>1, <4>1 DEF Holds, Settles, Source, Target, Other
      <4>5. p \in Settling /\ ~work.forward => \A x \in Keys : entry'[Target][x] = entry[Target][x]
        BY <2>1, <3>2, <4>2
      <4>6. p \in Settling /\ work.forward =>
              \A x \in Keys : /\ entry'[Source][x] = entry[Source][x]
                              /\ ~entry[Target][x].tag => ~entry'[Target][x].tag
        BY <2>1, <3>2, <4>2, EntryKinds
      <4>7. RollsBack(p)'
        BY <1>1, <4>1, <4>2, <4>5 DEF Holds, RollsBack, Settles, Settling, RollingBack,
           RolledBackOnes, Source, Target, Done
      <4>8. Finishes(p)'
        BY <1>1, <4>1, <4>2, <4>6 DEF Holds, Finishes, Settles, Settling, CleanedOnes, Source,
           Target, Done
      <4>9. QED
        BY <1>1, <4>3, <4>4, <4>7, <4>8 DEF Holds
    <3>6. QED
      BY <3>3, <3>4, <3>5
  <2>4. QED
    BY <1>7, <2>2, <2>3 DEF Publish
<1>8. QED
  BY <1>3, <1>4, <1>6, <1>7

-----------------------------------------------------------------------------
(* Steps that change no file and do not work on the move *)

OthersStay(t) == \A u \in Threads : u # t => pc'[u] = pc[u]

LEMMA ThreadGoes ==
  ASSUME TypeInv, NEW t \in Threads, NEW p, Goto(t, p)
  PROVE  OthersStay(t) /\ pc'[t] = p
BY DEF TypeInv, ThreadTypes, Goto, OthersStay

\* A thread without the control lock goes on, or one gives up its locks.
LEMMA OtherGoes ==
  ASSUME TypeInv, NEW t \in Threads, pc[t] \notin Controlling, OthersStay(t),
         UNCHANGED <<control, work, global>>
  PROVE  HolderStays
BY DEF TypeInv, ControlHeld, LockTypes, OthersStay, HolderStays

LEMMA LocksGo ==
  ASSUME TypeInv, NEW t \in Threads, ReleaseLocks(t), OthersStay(t)
  PROVE  HolderStays
<1>1. CASE control = t
  BY <1>1 DEF ReleaseLocks, HolderStays
<1>2. CASE control # t
  BY <1>2 DEF ReleaseLocks, HolderStays, OthersStay, TypeInv, LockTypes
<1>3. QED
  BY <1>1, <1>2

LEMMA Releases ==
  /\ \A t \in Threads : TypeInv /\ (Leave(t) \/ Settled(t) \/ Failed(t)) => HolderStays
  /\ \A c \in Windows \X Callers : TypeInv /\ Return(c) => HolderStays
<1>1. \A t \in Threads : Leave(t) \/ Settled(t) \/ Failed(t) \/ Return(t) =>
        ReleaseLocks(t) /\ \E p \in Points : Goto(t, p)
  BY DEF Leave, Settled, Failed, Return, Points, Moving, Calling
<1>2. QED
  BY <1>1, LocksGo, ThreadGoes, ThreadsOf

LEMMA RefusedStays ==
  ASSUME TypeInv, NEW t \in Threads, Refused(t)
  PROVE  HolderStays /\ UNCHANGED disk /\ leases' = leases
BY Releases DEF Refused, window

\* The points of a thread that does not hold the control lock.
LEMMA Uncontrolled ==
  {"idle", "preview", "control", "mutex", "recover", "read", "open", "reopen", "install",
   "update control"} \intersect Controlling = {}
BY DEF Controlling, Uncommitted, Settling

LEMMA MoverStays ==
  ASSUME TypeInv, NEW w \in Windows
  PROVE  /\ StartMove(w) \/ Preview(w) \/ Reopen(w) => HolderStays /\ leases' = leases
         /\ TakeControl(w) /\ journal # None => HolderStays /\ leases' = leases
<1> DEFINE m == Mover(w)
<1>1. m \in Threads /\ (~busy[w] => pc[m] = "idle")
  BY ThreadsOf DEF TypeInv, ControlHeld
<1>2. StartMove(w) => /\ pc[m] = "idle" /\ OthersStay(m) /\ leases' = leases
                      /\ UNCHANGED <<control, work, global>>
  BY <1>1, ThreadGoes DEF StartMove, locks
<1>3. Preview(w) => /\ pc[m] = "preview" /\ OthersStay(m) /\ leases' = leases
                    /\ UNCHANGED <<control, work, global>>
  BY <1>1, ThreadGoes DEF Preview, locks
<1>4. Reopen(w) => /\ pc[m] = "reopen" /\ OthersStay(m) /\ leases' = leases
                   /\ UNCHANGED <<control, work, global>>
  BY <1>1, ThreadGoes DEF Reopen, locks, window
<1>5. TakeControl(w) /\ journal # None => Leave(m) /\ leases' = leases
  BY DEF TakeControl
<1>6. QED
  BY <1>1, <1>2, <1>3, <1>4, <1>5, OtherGoes, Releases, Uncontrolled

LEMMA CallerStays ==
  ASSUME TypeInv, NEW c \in Windows \X Callers
  PROVE  /\ BeginQuery(c) \/ TakeMutex(c) \/ Read(c) \/ BeginUpdate(c) => HolderStays /\ leases' = leases
         /\ Recover(c) /\ journal = None => HolderStays /\ leases' = leases
         /\ UpdateMutex(c) /\ service[c[1]] # setting => HolderStays /\ leases' = leases
<1>1. c \in Threads
  BY ThreadsOf
<1>2. BeginQuery(c) => /\ pc[c] = "idle" /\ OthersStay(c) /\ leases' = leases
                       /\ UNCHANGED <<control, work, global>>
  BY <1>1, ThreadGoes DEF BeginQuery, locks, window
<1>3. TakeMutex(c) => /\ pc[c] = "mutex" /\ OthersStay(c) /\ leases' = leases
                      /\ UNCHANGED <<control, work, global>>
  BY <1>1, ThreadGoes DEF TakeMutex, window
<1>4. Read(c) => /\ pc[c] = "read" /\ OthersStay(c) /\ leases' = leases
                 /\ UNCHANGED <<control, work, global>>
  BY <1>1, ThreadGoes DEF Read, locks, window
<1>5. BeginUpdate(c) => /\ pc[c] = "idle" /\ OthersStay(c) /\ leases' = leases
                        /\ UNCHANGED <<control, work, global>>
  BY <1>1, ThreadGoes DEF BeginUpdate, locks, window
<1>6. Recover(c) /\ journal = None => /\ pc[c] = "recover" /\ OthersStay(c) /\ leases' = leases
                                      /\ UNCHANGED <<control, work, global>>
  BY <1>1, ThreadGoes DEF Recover, window
<1>7. UpdateMutex(c) /\ service[c[1]] # setting => Return(c) /\ leases' = leases
  BY DEF UpdateMutex
<1>8. QED
  BY <1>1, <1>2, <1>3, <1>4, <1>5, <1>6, <1>7, OtherGoes, Releases, Uncontrolled

LEMMA FailStays ==
  ASSUME TypeInv, NEW t \in Threads, Fail(t)
  PROVE  HolderStays /\ UNCHANGED disk /\ leases' = leases
BY Releases DEF Fail

LEMMA CrashStays ==
  ASSUME TypeInv, NEW w \in Windows, Crash(w)
  PROVE  HolderStays /\ UNCHANGED disk /\ \A v \in Windows : leases'[v] \subseteq leases[v]
<1>1. CASE control # None /\ control[1] = w
  BY <1>1 DEF Crash, HolderStays, TypeInv, WindowTypes
<1>2. CASE control = None \/ control[1] # w
  <2>1. control' = control /\ work' = work
    BY <1>2 DEF Crash
  <2>2. control # None => control \in Threads /\ control \notin {w} \X (Callers \union {"mover"})
    BY <1>2 DEF TypeInv, LockTypes
  <2>3. /\ control # None => pc'[control] = pc[control]
        /\ \A r \in Roots : global[r] = control => global'[r] = control
    BY <1>2, <2>2 DEF Crash
  <2>4. QED
    BY <2>1, <2>3 DEF HolderStays, Crash, TypeInv, WindowTypes
<1>3. QED
  BY <1>1, <1>2

-----------------------------------------------------------------------------
(* Steps that take the control lock or evict entries *)

LEMMA Acquires ==
  ASSUME MoveInvariant, UNCHANGED disk, leases' = leases,
         pc'[control'] \in {"check", "inspect", "update mutex", "update limit"},
         pc'[control'] = "check" => journal = None
  PROVE  FilesKept' /\ LeasesKept' /\ HolderKeeps'
<1>1. FilesKept' /\ LeasesKept'
  BY FilesSame
<1>2. journal' = journal
  BY DEF disk
<1>3. Holds(pc[control])'
  BY <1>2 DEF Holds, JournalOf, Moves, Copies, Settles, RollsBack, Finishes, Journaled, Unjournaled,
     Settling, Pruning, Uncommitted, RollingBack, RolledBackOnes, CleanedOnes
<1>4. QED
  BY <1>1, <1>3 DEF HolderKeeps

LEMMA TakesControl ==
  ASSUME MoveInvariant
  PROVE  /\ \A w \in Windows : TakeControl(w) => FilesKept' /\ LeasesKept' /\ HolderKeeps'
         /\ \A c \in Windows \X Callers :
              Recover(c) \/ UpdateControl(c) \/ UpdateMutex(c) =>
                FilesKept' /\ LeasesKept' /\ HolderKeeps'
<1>1. TypeInv
  BY DEF MoveInvariant
<1>2. ASSUME NEW w \in Windows, TakeControl(w)  PROVE FilesKept' /\ LeasesKept' /\ HolderKeeps'
  <2>1. UNCHANGED disk /\ leases' = leases /\ Mover(w) \in Threads
    BY <1>2, ThreadsOf DEF TakeControl
  <2>2. CASE journal # None
    BY <1>1, <1>2, <2>1, <2>2, MoverStays, FilesUntouched
  <2>3. CASE journal = None
    <3>1. control' = Mover(w) /\ pc'[Mover(w)] = "check"
      BY <1>1, <1>2, <2>1, <2>3, ThreadGoes DEF TakeControl
    <3>2. QED
      BY <2>1, <2>3, <3>1, Acquires
  <2>4. QED
    BY <2>2, <2>3
<1>3. ASSUME NEW c \in Windows \X Callers, Recover(c)  PROVE FilesKept' /\ LeasesKept' /\ HolderKeeps'
  <2>1. UNCHANGED disk /\ leases' = leases /\ c \in Threads
    BY <1>3, ThreadsOf DEF Recover, window
  <2>2. CASE journal = None
    BY <1>1, <1>3, <2>1, <2>2, CallerStays, FilesUntouched
  <2>3. CASE journal # None
    <3>1. control' = c /\ pc'[c] = "inspect"
      BY <1>1, <1>3, <2>1, <2>3, ThreadGoes DEF Recover
    <3>2. QED
      BY <2>1, <3>1, Acquires
  <2>4. QED
    BY <2>2, <2>3
<1>4. ASSUME NEW c \in Windows \X Callers, UpdateControl(c)
      PROVE  FilesKept' /\ LeasesKept' /\ HolderKeeps'
  <2>1. UNCHANGED disk /\ leases' = leases /\ c \in Threads
    BY <1>4, ThreadsOf DEF UpdateControl, window
  <2>2. control' = c /\ pc'[c] = "update mutex"
    BY <1>1, <1>4, <2>1, ThreadGoes DEF UpdateControl
  <2>3. QED
    BY <2>1, <2>2, Acquires
<1>5. ASSUME NEW c \in Windows \X Callers, UpdateMutex(c)
      PROVE  FilesKept' /\ LeasesKept' /\ HolderKeeps'
  <2>1. UNCHANGED disk /\ leases' = leases /\ c \in Threads
    BY <1>5, ThreadsOf DEF UpdateMutex
  <2>2. CASE service[c[1]] # setting
    BY <1>1, <1>5, <2>1, <2>2, CallerStays, FilesUntouched
  <2>3. CASE service[c[1]] = setting
    <3>1. control = c
      BY <1>1, <1>5, <2>1 DEF UpdateMutex, TypeInv, ControlHeld, Controlling
    <3>4. control' = control /\ Goto(c, "update limit")
      BY <1>5, <2>3 DEF UpdateMutex
    <3>2. control' = c /\ pc'[c] = "update limit"
      BY <1>1, <2>1, <3>1, <3>4, ThreadGoes
    <3>3. QED
      BY <2>1, <3>2, Acquires
  <2>4. QED
    BY <2>2, <2>3
<1>6. QED
  BY <1>2, <1>3, <1>4, <1>5

LEMMA OpensSafe ==
  ASSUME MoveInvariant
  PROVE  /\ \A w \in Windows : Install(w) => FilesKept' /\ LeasesKept' /\ HolderKeeps'
         /\ \A c \in Windows \X Callers :
              Open(c) \/ UpdateLimit(c) => FilesKept' /\ LeasesKept' /\ HolderKeeps'
<1>1. TypeInv
  BY DEF MoveInvariant
<1>2. ASSUME NEW r, r \in Roots, Evicted(r) \/ UNCHANGED <<entry, live>>, HolderStays,
             global[r] = None \/ control' = None, leases' = leases,
             UNCHANGED <<setting, journal, dir, redirect, marker, staged>>
      PROVE  FilesKept' /\ LeasesKept' /\ HolderKeeps'
  <2>1. CASE UNCHANGED <<entry, live>>
    <3>1. UNCHANGED disk
      BY <1>2, <2>1 DEF disk
    <3>2. QED
      BY <1>2, <3>1, FilesUntouched
  <2>2. CASE Evicted(r)
    <3>1. PICK gone \in SUBSET Evictable(r) :
            /\ entry' = [entry EXCEPT ![r] = Without(r, gone)]
            /\ live' = IF r = setting THEN live \ gone ELSE live
      BY <2>2 DEF Evicted
    <3>2. QED
      BY <1>2, <3>1, FilesEvicted
  <2>3. QED
    BY <1>2, <2>1, <2>2
<1>3. ASSUME NEW w \in Windows, Install(w)  PROVE FilesKept' /\ LeasesKept' /\ HolderKeeps'
  <2>1. /\ Mover(w) \in Threads /\ at[Mover(w)] \in Roots
        /\ pc[Mover(w)] = "install" /\ global[at[Mover(w)]] = None /\ Goto(Mover(w), "idle")
        /\ UNCHANGED <<control, work, global>>
    BY <1>1, <1>3, ThreadsOf DEF Install, locks, TypeInv, ThreadTypes
  <2>2. HolderStays
    BY <1>1, <2>1, ThreadGoes, OtherGoes, Uncontrolled
  <2>3. /\ Evicted(at[Mover(w)]) \/ UNCHANGED <<entry, live>>
        /\ leases' = leases /\ UNCHANGED <<setting, journal, dir, redirect, marker, staged>>
    BY <1>3 DEF Install
  <2>4. QED
    BY <1>2, <2>1, <2>2, <2>3
<1>4. ASSUME NEW c \in Windows \X Callers, Open(c)  PROVE FilesKept' /\ LeasesKept' /\ HolderKeeps'
  <2>1. c \in Threads /\ at[c] \in Roots /\ global[at[c]] = None /\ HolderStays
    BY <1>1, <1>4, ThreadsOf, Releases DEF Open, TypeInv, ThreadTypes
  <2>2. /\ Evicted(at[c]) \/ UNCHANGED <<entry, live>>
        /\ leases' = leases /\ UNCHANGED <<setting, journal, dir, redirect, marker, staged>>
    BY <1>4 DEF Open
  <2>3. QED
    BY <1>2, <2>1, <2>2
<1>5. ASSUME NEW c \in Windows \X Callers, UpdateLimit(c)
      PROVE  FilesKept' /\ LeasesKept' /\ HolderKeeps'
  <2>1. c \in Threads /\ HolderStays /\ setting \in Roots
    BY <1>1, <1>5, ThreadsOf, Releases DEF UpdateLimit, TypeInv, DiskTypes
  <2>2. /\ leases' = leases /\ UNCHANGED <<setting, journal, dir, redirect, marker, staged>>
        /\ \/ UNCHANGED <<entry, live>>
           \/ Evicted(setting) /\ service[c[1]] = setting
    BY <1>5 DEF UpdateLimit, Usable
  <2>3. control' = None
    BY <1>1, <1>5, <2>1 DEF UpdateLimit, Return, ReleaseLocks, TypeInv, ControlHeld, Controlling
  <2>4. QED
    BY <1>2, <2>1, <2>2, <2>3
<1>6. QED
  BY <1>3, <1>4, <1>5

-----------------------------------------------------------------------------
(* The holder of the control lock *)

LEMMA Holder ==
  ASSUME MoveInvariant, NEW t \in Threads, pc[t] \in Controlling
  PROVE  /\ control = t /\ Holds(pc[t]) /\ TypeInv /\ work \in Works
         /\ Source \in Roots /\ Target \in Roots /\ setting \in Roots
         /\ work.todo \subseteq Keys /\ work.journal.keys \subseteq Keys
<1>1. TypeInv /\ control = t /\ t # None
  BY ThreadsOf DEF MoveInvariant, TypeInv, ControlHeld
<1>2. Holds(pc[t])
  BY <1>1 DEF MoveInvariant, HolderKeeps
<1>3. QED
  BY <1>1, <1>2, WorkParts DEF TypeInv, LockTypes, DiskTypes

LEMMA HolderGoes ==
  ASSUME TypeInv, NEW t \in Threads, NEW p, Goto(t, p), control' = t, Holds(p)'
  PROVE  HolderKeeps'
<1>1. pc'[t] = p
  BY ThreadGoes
<1>2. QED
  BY <1>1 DEF HolderKeeps, Holds, JournalOf, Moves, Copies, Settles, RollsBack, Finishes

\* What is left to show at a point before the commit, and at one after it.
LEMMA UncommittedHolds ==
  ASSUME NEW p \in Uncommitted
  PROVE  /\ JournalOf(p) /\ Moves(p) /\ Copies(p) => Holds(p)
         /\ (JournalOf(p) /\ Moves(p) /\ Copies(p))' => Holds(p)'
<1>1. p \notin Settling
  BY DEF Uncommitted, Settling
<1>2. p \notin RolledBackOnes /\ p \notin CleanedOnes /\ p \notin {"roll back", "verify", "clean", "remove directory"}
  BY DEF Uncommitted, RolledBackOnes, CleanedOnes
<1>3. p # "untag" /\ p \notin RolledBackOnes \ {"undo redirect"} /\ p \notin CleanedOnes \ {"untag"}
  BY <1>2 DEF CleanedOnes
<1>4. Settles(p) /\ RollsBack(p) /\ Finishes(p) /\ (Settles(p) /\ RollsBack(p) /\ Finishes(p))'
  BY <1>1, <1>2, <1>3 DEF Settles, RollsBack, Finishes
<1>5. QED
  BY <1>4 DEF Holds

LEMMA SettlingHolds ==
  ASSUME NEW p \in Settling
  PROVE  /\ JournalOf(p) /\ Settles(p) /\ RollsBack(p) /\ Finishes(p) => Holds(p)
         /\ (JournalOf(p) /\ Settles(p) /\ RollsBack(p) /\ Finishes(p))' => Holds(p)'
<1>1. p \notin Uncommitted /\ p \notin {"copy", "unredirect", "redirect", "commit"}
  BY DEF Uncommitted, Settling
<1>2. Moves(p) /\ Copies(p) /\ (Moves(p) /\ Copies(p))'
  BY <1>1 DEF Moves, Copies
<1>3. QED
  BY <1>2 DEF Holds

\* Which points keep the journal on the disk, and which come before or after it.
LEMMA PointKinds ==
  /\ Journaled \union Unjournaled \subseteq Controlling /\ Journaled \intersect Unjournaled = {}
  /\ Uncommitted \subseteq Controlling /\ Settling \subseteq Controlling
  /\ Uncommitted \intersect Settling = {}
  /\ {"create", "own", "lock", "journal"} \subseteq Unjournaled \intersect Uncommitted
  /\ {"mark source", "mark target", "copy", "unredirect", "redirect", "commit"}
       \subseteq Journaled \intersect Uncommitted
  /\ {"roll back", "undo redirect", "restore redirect", "verify", "clean", "remove directory",
      "untag", "unmark one", "unmark other", "drop journal"} \subseteq Journaled \intersect Settling
  /\ {"prune", "prune owner", "prune directory"} \subseteq Unjournaled \intersect Settling
  /\ "check" \in Unjournaled /\ "check" \in Controlling /\ "inspect" \in Controlling
<1> USE DEF Journaled, Unjournaled, Controlling, Uncommitted, Settling, Pruning
<1>1. Journaled \union Unjournaled \subseteq Controlling /\ Journaled \intersect Unjournaled = {}
  OBVIOUS
<1>2. /\ Uncommitted \subseteq Controlling /\ Settling \subseteq Controlling
      /\ Uncommitted \intersect Settling = {}
  OBVIOUS
<1>3. /\ {"create", "own", "lock", "journal"} \subseteq Unjournaled \intersect Uncommitted
      /\ {"mark source", "mark target", "copy", "unredirect", "redirect", "commit"}
           \subseteq Journaled \intersect Uncommitted
  OBVIOUS
<1>4. {"roll back", "undo redirect", "restore redirect", "verify", "clean", "remove directory",
       "untag", "unmark one", "unmark other", "drop journal"} \subseteq Journaled \intersect Settling
  OBVIOUS
<1>5. /\ {"prune", "prune owner", "prune directory"} \subseteq Unjournaled \intersect Settling
      /\ "check" \in Unjournaled /\ "check" \in Controlling /\ "inspect" \in Controlling
  OBVIOUS
<1>6. QED
  BY <1>1, <1>2, <1>3, <1>4, <1>5

\* A step of the holder that changes no file and no lease.
LEMMA HolderStep ==
  ASSUME MoveInvariant, NEW t \in Threads, NEW p, Goto(t, p), control' = t, UNCHANGED disk,
         leases' = leases, Holds(p)'
  PROVE  FilesKept' /\ LeasesKept' /\ HolderKeeps'
<1>1. TypeInv
  BY DEF MoveInvariant
<1>2. QED
  BY <1>1, HolderGoes, FilesSame

\* A move before its commit.
LEMMA MoveFacts ==
  ASSUME MoveInvariant, NEW t \in Threads, pc[t] \in Uncommitted
  PROVE  /\ setting = Source /\ Target # Source /\ Target = Other(Source) /\ global[Source] = t
         /\ ~work.forward /\ ~work.failed /\ ~work.journal.started
         /\ \A k \in Keys : k \in work.journal.keys <=> entry[Source][k].files = "whole"
<1>1. Holds(pc[t]) /\ control = t /\ Source \in Roots
  BY Holder, PointKinds
<1>2. QED
  BY <1>1, ThreadsOf DEF Holds, Moves

LEMMA RefusedSafe ==
  ASSUME MoveInvariant, NEW t \in Threads, Refused(t)
  PROVE  FilesKept' /\ LeasesKept' /\ HolderKeeps'
BY RefusedStays, FilesUntouched DEF MoveInvariant

LEMMA CheckSafe ==
  ASSUME MoveInvariant, NEW w \in Windows, Check(w)
  PROVE  FilesKept' /\ LeasesKept' /\ HolderKeeps'
<1> DEFINE m == Mover(w)
           source == at[m]
           target == Other(source)
<1>1. m \in Threads /\ source \in Roots /\ pc[m] = "check"
  BY ThreadsOf DEF Check, MoveInvariant, TypeInv, ThreadTypes
<1>2. TypeInv /\ control = m /\ journal = None
  BY <1>1, Holder, PointKinds DEF Holds, JournalOf
<1>3. CASE Refused(m)
  BY <1>1, <1>3, RefusedSafe
<1>4. CASE ~Refused(m)
  <2>1. /\ Usable(source) /\ Destination(target) /\ UNCHANGED disk /\ control' = m
        /\ global' = [global EXCEPT ![source] = m] /\ work' = NewWork(source)
        /\ Goto(m, IF dir[target] = "absent" THEN "create" ELSE "lock")
        /\ leases' = leases
    BY <1>2, <1>4 DEF Check, window
  <2>2. /\ Source' = source /\ Target' = target /\ ~work'.forward /\ ~work'.failed
        /\ ~work'.journal.started
        /\ work'.journal.keys = {k \in Keys : entry[source][k].files = "whole"}
    BY <2>1 DEF NewWork, NoWork, Source, Target
  <2>3. /\ setting = source /\ global'[source] = m
        /\ dir[target] # "absent" => dir[target] = "owned"
    BY <1>1, <1>2, <2>1 DEF Usable, Destination, TypeInv, LockTypes
  <2>4. UNCHANGED <<setting, journal, dir, entry>>
    BY <2>1 DEF disk
  <2> PICK p : /\ p \in {"create", "lock"} /\ Goto(m, p)
               /\ p = "lock" => dir[target] = "owned"
    BY <2>1, <2>3
  <2>5. p \in Uncommitted /\ p \in Unjournaled /\ p \notin Journaled
    BY PointKinds
  <2>6. Moves(p)'
    BY <2>1, <2>2, <2>3, <2>4 DEF Moves
  <2>7. JournalOf(p)' /\ Copies(p)'
    BY <1>2, <2>4, <2>5 DEF JournalOf, Copies
  <2>8. Holds(p)'
    BY <2>5, <2>6, <2>7, UncommittedHolds
  <2>9. QED
    BY <1>1, <2>1, <2>8, HolderStep
<1>5. QED
  BY <1>3, <1>4

LEMMA CreateSafe ==
  ASSUME MoveInvariant, NEW w \in Windows, CreateTarget(w)
  PROVE  FilesKept' /\ LeasesKept' /\ HolderKeeps'
<1> DEFINE m == Mover(w)
<1>1. m \in Threads /\ pc[m] = "create" /\ pc[m] \in Uncommitted
  BY ThreadsOf, PointKinds DEF CreateTarget
<1>2. /\ TypeInv /\ control = m /\ Holds("create") /\ Source \in Roots /\ Target \in Roots
      /\ setting = Source /\ Target # Source
  BY <1>1, Holder, PointKinds, MoveFacts
<1>3. CASE Refused(m)
  BY <1>1, <1>3, RefusedSafe
<1>4. CASE ~Refused(m)
  <2>1. /\ dir' = [dir EXCEPT ![Target] = "bare"] /\ Goto(m, "own")
        /\ UNCHANGED <<setting, journal, redirect, marker, entry, staged, live, control, global,
                       work, leases>>
    BY <1>4 DEF CreateTarget, Step, locks, window
  <2>2. FilesKept'
    <3>1. dir'[setting] = dir[setting]
      BY <1>2, <2>1 DEF TypeInv, DiskTypes
    <3>2. QED
      BY <2>1, <3>1 DEF MoveInvariant, FilesKept, CacheFollowsSetting, SettingOwned, JournalKept,
         SelectedOpens
  <2>3. LeasesKept'
    BY <2>1 DEF MoveInvariant, LeasesKept, LeasedWhole, LeasesOfSetting
  <2>4. Holds("own")'
    <3>1. JournalOf("own")'
      BY <1>2, <2>1, PointKinds DEF Holds, JournalOf
    <3>2. Moves("own")'
      BY <1>1, <1>2, <2>1, PointKinds DEF Holds, Moves, Source, Target, Other
    <3>3. Copies("own")'
      BY DEF Copies
    <3>4. QED
      BY <3>1, <3>2, <3>3, PointKinds, UncommittedHolds
  <2>5. QED
    BY <1>1, <1>2, <2>1, <2>2, <2>3, <2>4, HolderGoes
<1>5. QED
  BY <1>3, <1>4

LEMMA OwnSafe ==
  ASSUME MoveInvariant, NEW w \in Windows, OwnTarget(w)
  PROVE  FilesKept' /\ LeasesKept' /\ HolderKeeps'
<1> DEFINE m == Mover(w)
<1>1. m \in Threads /\ pc[m] = "own" /\ pc[m] \in Uncommitted
  BY ThreadsOf, PointKinds DEF OwnTarget
<1>2. /\ TypeInv /\ control = m /\ Holds("own") /\ Source \in Roots /\ Target \in Roots
      /\ setting = Source /\ Target # Source
  BY <1>1, Holder, PointKinds, MoveFacts
<1>3. /\ UNCHANGED <<setting, journal, redirect, marker, entry, staged, live, leases>>
      /\ dir'[setting] = dir[setting]
  BY <1>2 DEF OwnTarget, Step, window, TypeInv, DiskTypes
<1>4. FilesKept' /\ LeasesKept'
  BY <1>3 DEF MoveInvariant, FilesKept, CacheFollowsSetting, SettingOwned, JournalKept,
     SelectedOpens, LeasesKept, LeasedWhole, LeasesOfSetting
<1>5. CASE Leave(m)
  BY <1>2, <1>4, <1>5 DEF Leave, ReleaseLocks, HolderKeeps
<1>6. CASE ~Leave(m)
  <2>1. /\ dir' = [dir EXCEPT ![Target] = "owned"] /\ Goto(m, "lock")
        /\ UNCHANGED <<control, global, work>>
    BY <1>6 DEF OwnTarget, Step, locks
  <2>2. Holds("lock")'
    <3>1. JournalOf("lock")'
      BY <1>2, <1>3, PointKinds DEF Holds, JournalOf
    <3>2. Moves("lock")'
      BY <1>1, <1>2, <1>3, <2>1, PointKinds DEF Holds, Moves, Source, Target, Other, TypeInv, DiskTypes
    <3>3. Copies("lock")'
      BY DEF Copies
    <3>4. QED
      BY <3>1, <3>2, <3>3, PointKinds, UncommittedHolds
  <2>3. QED
    BY <1>1, <1>2, <1>4, <2>1, <2>2, HolderGoes
<1>7. QED
  BY <1>5, <1>6

LEMMA LockSafe ==
  ASSUME MoveInvariant, NEW w \in Windows, LockTarget(w)
  PROVE  FilesKept' /\ LeasesKept' /\ HolderKeeps'
<1> DEFINE m == Mover(w)
<1>1. m \in Threads /\ pc[m] = "lock" /\ pc[m] \in Uncommitted
  BY ThreadsOf, PointKinds DEF LockTarget
<1>2. /\ TypeInv /\ control = m /\ Holds("lock") /\ Source \in Roots /\ Target \in Roots
      /\ setting = Source /\ Target # Source
      /\ \A k \in Keys : k \in work.journal.keys <=> entry[Source][k].files = "whole"
  BY <1>1, Holder, PointKinds, MoveFacts
<1>3. CASE Refused(m)
  BY <1>1, <1>3, RefusedSafe
<1>4. CASE ~Refused(m)
  <2>1. /\ \A k \in work.journal.keys : Unleased(Source, k)
        /\ global' = [global EXCEPT ![Target] = m] /\ Goto(m, "journal") /\ UNCHANGED disk
        /\ UNCHANGED <<control, work, leases>>
    BY <1>4 DEF LockTarget, window
  <2>2. \A v \in Windows : leases[v] = {}
    <3> SUFFICES ASSUME NEW v \in Windows, NEW l \in leases[v]  PROVE FALSE
      OBVIOUS
    <3>1. l \in Roots \X Keys /\ l[1] = Source /\ entry[Source][l[2]].files = "whole"
      BY <1>2 DEF MoveInvariant, LeasesKept, LeasedWhole, LeasesOfSetting, TypeInv, WindowTypes
    <3>2. l = <<Source, l[2]>> /\ l[2] \in work.journal.keys
      BY <1>2, <3>1
    <3>3. QED
      BY <2>1, <3>2 DEF Unleased
  <2>3. Holds("journal")'
    <3>1. UNCHANGED <<setting, journal, dir, entry>>
      BY <2>1 DEF disk
    <3>2. JournalOf("journal")'
      BY <1>2, <3>1, PointKinds DEF Holds, JournalOf
    <3>3. Moves("journal")'
      <4>1. global'[Target] = m /\ global'[Source] = global[Source]
        BY <1>2, <2>1 DEF TypeInv, LockTypes
      <4>2. Moves("lock") /\ "lock" \in Uncommitted
        BY <1>2, PointKinds DEF Holds
      <4>3. QED
        BY <1>2, <2>1, <2>2, <3>1, <4>1, <4>2 DEF Moves, Source, Target, Other
    <3>4. Copies("journal")'
      BY DEF Copies
    <3>5. QED
      BY <3>2, <3>3, <3>4, PointKinds, UncommittedHolds
  <2>4. QED
    BY <1>1, <1>2, <2>1, <2>3, HolderStep
<1>5. QED
  BY <1>3, <1>4

\* A move that has locked both roots: nobody leases, so only the files can go wrong.
LEMMA MoveGoes ==
  ASSUME MoveInvariant, NEW t \in Threads, NEW p \in Uncommitted \ {"create", "own", "lock"},
         pc[t] \in Uncommitted \ {"create", "own", "lock"}, Goto(t, p),
         UNCHANGED <<control, global, leases, setting, dir>>,
         \A k \in Keys : entry'[Source][k] = entry[Source][k],
         work'.journal = work.journal, work'.forward = work.forward, work'.failed = work.failed,
         JournalOf(p)', Copies(p)', FilesKept'
  PROVE  FilesKept' /\ LeasesKept' /\ HolderKeeps'
<1>1. /\ TypeInv /\ control = t /\ Holds(pc[t]) /\ Source \in Roots /\ Target \in Roots
      /\ work.journal.keys \subseteq Keys
  BY Holder, PointKinds
<1>2. \A w \in Windows : leases[w] = {}
  BY <1>1 DEF Holds, Moves
<1>3. LeasesKept'
  BY <1>2 DEF LeasesKept, LeasedWhole, LeasesOfSetting
<1>4. Moves(p)'
  BY <1>1 DEF Holds, Moves, Source, Target, Other
<1>5. Holds(p)'
  BY <1>4, UncommittedHolds
<1>6. QED
  BY <1>1, <1>3, <1>5, HolderGoes

LEMMA JournalSafe ==
  ASSUME MoveInvariant, NEW w \in Windows, WriteJournal(w)
  PROVE  FilesKept' /\ LeasesKept' /\ HolderKeeps'
<1> DEFINE m == Mover(w)
<1>1. m \in Threads /\ pc[m] = "journal" /\ pc[m] \in Uncommitted \ {"create", "own", "lock"}
  BY ThreadsOf, PointKinds DEF WriteJournal
<1>2. /\ control = m /\ Holds("journal") /\ Source \in Roots /\ Target \in Roots
      /\ setting = Source /\ Target # Source /\ Target = Other(Source)
      /\ ~work.journal.started /\ journal = None /\ work.journal # None
  BY <1>1, Holder, PointKinds, MoveFacts, WorkParts, NoneIsNoJournal DEF Holds, JournalOf
<1>3. CASE Refused(m)
  BY <1>1, <1>3, RefusedSafe
<1>4. CASE ~Refused(m)
  <2>1. /\ journal' = work.journal /\ Goto(m, "mark source")
        /\ UNCHANGED <<setting, dir, redirect, marker, entry, staged, live, control, global, work,
                       leases>>
    BY <1>4 DEF WriteJournal, Step, locks, window
  <2>2. FilesKept'
    <3>1. /\ CacheFollowsSetting /\ SettingOwned
          /\ \A k \in Keys : staged[k] = NoEntry /\ \A r \in Roots : ~entry[r][k].tag
      BY <1>2 DEF MoveInvariant, FilesKept, SelectedOpens
    <3>2. CacheFollowsSetting' /\ SettingOwned' /\ SelectedOpens'
      BY <1>2, <2>1, <3>1 DEF CacheFollowsSetting, SettingOwned, SelectedOpens
    <3>3. JournalKept'
      BY <1>2, <2>1, <3>1 DEF JournalKept, Source, Target, Other
    <3>4. QED
      BY <3>2, <3>3 DEF FilesKept
  <2>3. JournalOf("mark source")' /\ Copies("mark source")'
    BY <2>1, PointKinds DEF JournalOf, Copies
  <2>4. QED
    BY <1>1, <2>1, <2>2, <2>3, PointKinds, MoveGoes
<1>5. QED
  BY <1>3, <1>4

LEMMA MarkSafe ==
  ASSUME MoveInvariant, NEW w \in Windows, MarkSource(w) \/ MarkTarget(w)
  PROVE  FilesKept' /\ LeasesKept' /\ HolderKeeps'
<1> DEFINE m == Mover(w)
<1>1. PICK p \in {"mark target", "copy"} :
        /\ pc[m] \in {"mark source", "mark target"}
        /\ \/ Refused(m)
           \/ /\ Goto(m, p) /\ work' = [work EXCEPT !.todo = work.journal.keys]
              /\ UNCHANGED <<setting, journal, dir, redirect, entry, staged, live, control, global,
                             leases>>
  BY DEF MarkSource, MarkTarget, Mark, locks, window
<1>2. /\ m \in Threads /\ pc[m] \in Uncommitted \ {"create", "own", "lock"}
      /\ pc[m] \in Journaled
  BY <1>1, ThreadsOf, PointKinds
<1>3. /\ control = m /\ Holds(pc[m]) /\ work \in Works
      /\ journal = work.journal /\ work.journal # None
  BY <1>2, Holder, PointKinds, WorkParts, NoneIsNoJournal DEF Holds, JournalOf
<1>4. CASE Refused(m)
  BY <1>2, <1>4, RefusedSafe
<1>5. CASE ~Refused(m)
  <2>1. /\ Goto(m, p) /\ work' = [work EXCEPT !.todo = work.journal.keys]
        /\ UNCHANGED <<setting, journal, dir, redirect, entry, staged, live, control, global,
                       leases>>
    BY <1>1, <1>5
  <2>2. FilesKept'
    <3>1. CacheFollowsSetting' /\ SettingOwned' /\ JournalKept'
      BY <2>1 DEF MoveInvariant, FilesKept, CacheFollowsSetting, SettingOwned, JournalKept
    <3>2. SelectedOpens'
      BY <1>3, <2>1 DEF SelectedOpens
    <3>3. QED
      BY <3>1, <3>2 DEF FilesKept
  <2>3. /\ work'.journal = work.journal /\ work'.todo = work.journal.keys
        /\ work'.forward = work.forward /\ work'.failed = work.failed
    BY <1>3, <2>1 DEF Works
  <2>4. p \in Uncommitted \ {"create", "own", "lock"} /\ p \in Journaled /\ p \notin Unjournaled
    BY PointKinds
  <2>5. JournalOf(p)'
    BY <1>3, <2>1, <2>3, <2>4 DEF JournalOf
  <2>6. Copies(p)'
    BY <2>3 DEF Copies, Done
  <2>7. QED
    BY <1>2, <2>1, <2>2, <2>3, <2>4, <2>5, <2>6, MoveGoes
<1>6. QED
  BY <1>4, <1>5

\* A move that has marked its roots: the target is free of redirects and leases.
LEMMA CopyFacts ==
  ASSUME MoveInvariant, NEW t \in Threads, pc[t] \in {"copy", "unredirect", "redirect", "commit"}
  PROVE  /\ pc[t] \in Uncommitted \ {"create", "own", "lock"} /\ pc[t] \in Controlling
         /\ control = t /\ Holds(pc[t]) /\ Copies(pc[t]) /\ TypeInv /\ work \in Works
         /\ Source \in Roots /\ Target \in Roots /\ setting = Source /\ Target # Source
         /\ Target = Other(Source)
         /\ work.todo \subseteq Keys /\ work.journal.keys \subseteq Keys
         /\ ~work.journal.started /\ ~work.forward /\ ~work.failed
         /\ journal = work.journal /\ journal # None
         /\ FilesKept /\ LeasesKept
<1>1. /\ pc[t] \in Uncommitted \ {"create", "own", "lock"} /\ pc[t] \in Controlling
      /\ pc[t] \in Journaled
  BY PointKinds
<1>2. /\ control = t /\ Holds(pc[t]) /\ TypeInv /\ work \in Works
      /\ Source \in Roots /\ Target \in Roots
      /\ work.todo \subseteq Keys /\ work.journal.keys \subseteq Keys
  BY <1>1, Holder
<1>3. /\ setting = Source /\ Target # Source /\ Target = Other(Source)
      /\ ~work.journal.started /\ ~work.forward /\ ~work.failed
  BY <1>1, MoveFacts
<1>4. Copies(pc[t]) /\ journal = work.journal /\ journal # None
  BY <1>1, <1>2, WorkParts, NoneIsNoJournal DEF Holds, JournalOf
<1>5. QED
  BY <1>1, <1>2, <1>3, <1>4 DEF MoveInvariant

LEMMA CopySafe ==
  ASSUME MoveInvariant, NEW w \in Windows, Copy(w)
  PROVE  FilesKept' /\ LeasesKept' /\ HolderKeeps'
<1> DEFINE m == Mover(w)
           k == Min(work.todo)
<1>1. /\ m \in Threads /\ pc[m] = "copy" /\ work.todo # {} /\ Goto(m, "copy")
      /\ UNCHANGED <<setting, journal, dir, redirect, marker, live, control, global, leases>>
  BY ThreadsOf DEF Copy, locks, window, MoveInvariant, TypeInv, ThreadTypes, Goto
<1>2. /\ pc[m] \in Uncommitted \ {"create", "own", "lock"}
      /\ control = m /\ Copies("copy") /\ TypeInv /\ work \in Works
      /\ Source \in Roots /\ Target \in Roots /\ setting = Source /\ Target # Source
      /\ work.todo \subseteq Keys /\ work.journal.keys \subseteq Keys
      /\ journal = work.journal /\ journal # None /\ FilesKept
  BY <1>1, CopyFacts
<1>3. k \in work.todo /\ k \in Keys /\ k \in work.journal.keys /\ staged[k] \in Entries
  BY <1>1, <1>2, NextEntries DEF Copies
<1>4. /\ work'.journal = work.journal /\ work'.forward = work.forward /\ work'.failed = work.failed
      /\ work'.todo \subseteq work.todo
      /\ \A x \in Keys : entry'[Source][x] = entry[Source][x]
      /\ \A x \in Keys : x # k => /\ staged'[x] = staged[x] /\ entry'[Target][x] = entry[Target][x]
                                  /\ x \in work'.todo <=> x \in work.todo
      /\ k \notin work'.todo => entry'[Target][k].files = "whole" /\ staged'[k] = NoEntry
  <2>1. CASE staged[k].files # "whole"
    <3>1. staged' = [staged EXCEPT ![k] = Grown(@)] /\ UNCHANGED <<entry, work>>
      BY <2>1 DEF Copy
    <3>2. \A x \in Keys : x # k => staged'[x] = staged[x]
      BY <1>2, <3>1 DEF TypeInv, EntryTypes
    <3>3. QED
      BY <1>3, <3>1, <3>2
  <2>2. CASE staged[k].files = "whole"
    <3>1. /\ entry' = [entry EXCEPT ![Target][k] = staged[k]]
          /\ staged' = [staged EXCEPT ![k] = NoEntry]
          /\ work' = [work EXCEPT !.todo = @ \ {k}]
      BY <2>2 DEF Copy
    <3>2. /\ entry'[Target][k] = staged[k]
          /\ \A q \in Roots : \A x \in Keys : q # Target \/ x # k => entry'[q][x] = entry[q][x]
      <4>1. entry \in [Roots -> [Keys -> Entries]]
        BY <1>2 DEF TypeInv, EntryTypes
      <4>2. QED
        BY <1>2, <1>3, <3>1, <4>1, PutEntry
    <3>3. /\ work'.journal = work.journal /\ work'.forward = work.forward
          /\ work'.failed = work.failed /\ work'.todo = work.todo \ {k}
      BY <1>2, <3>1 DEF Works
    <3>4. staged'[k] = NoEntry /\ \A x \in Keys : x # k => staged'[x] = staged[x]
      BY <1>2, <1>3, <3>1 DEF TypeInv, EntryTypes
    <3>5. QED
      BY <1>2, <1>3, <2>2, <3>2, <3>3, <3>4
  <2>3. QED
    BY <2>1, <2>2
<1>5. FilesKept'
  <2>1. CacheFollowsSetting' /\ SettingOwned'
    BY <1>1, <1>2, <1>4 DEF FilesKept, CacheFollowsSetting, SettingOwned, TypeInv, DiskTypes
  <2>2. SelectedOpens'
    BY <1>1, <1>2 DEF SelectedOpens
  <2>3. JournalKept'
    <3>1. JournalKept /\ Roots = {Source, Target}
      BY <1>2 DEF FilesKept, Roots
    <3>2. \A x \in Keys \ journal'.keys : staged'[x] = NoEntry /\ \A r \in Roots : ~entry'[r][x].tag
      BY <1>1, <1>2, <1>3, <1>4, <3>1 DEF JournalKept
    <3>3. QED
      BY <1>1, <1>2, <1>4, <3>1, <3>2 DEF JournalKept, Source, Target
  <2>4. QED
    BY <2>1, <2>2, <2>3 DEF FilesKept
<1>6. JournalOf("copy")'
  BY <1>1, <1>2, <1>4, PointKinds DEF JournalOf
<1>7. Copies("copy")'
  <2>1. Target' = Target
    BY <1>4 DEF Target
  <2>2. \A x \in Keys : Done(x)' => entry'[Target][x].files = "whole" /\ staged'[x] = NoEntry
    BY <1>2, <1>4 DEF Copies, Done
  <2>3. QED
    BY <1>2, <1>4, <2>1, <2>2 DEF Copies
<1>8. QED
  BY <1>1, <1>2, <1>4, <1>5, <1>6, <1>7, MoveGoes

LEMMA CopiedSafe ==
  ASSUME MoveInvariant, NEW w \in Windows, Copied(w)
  PROVE  FilesKept' /\ LeasesKept' /\ HolderKeeps'
<1> DEFINE m == Mover(w)
<1>1. /\ m \in Threads /\ pc[m] = "copy" /\ work.todo = {} /\ Goto(m, "unredirect")
      /\ UNCHANGED disk /\ UNCHANGED <<control, global, leases, work>>
  BY ThreadsOf DEF Copied, Step, locks, window
<1>2. /\ pc[m] \in Uncommitted \ {"create", "own", "lock"} /\ Copies("copy") /\ FilesKept
      /\ journal = work.journal /\ journal # None /\ work.journal.keys \subseteq Keys
  BY <1>1, CopyFacts
<1>3. FilesKept'
  BY <1>1, FilesSame
<1>4. UNCHANGED <<setting, journal, dir, entry, staged>>
  BY <1>1 DEF disk
<1>5. JournalOf("unredirect")'
  BY <1>1, <1>2, <1>4, PointKinds DEF JournalOf
<1>6. Copies("unredirect")'
  <2>1. \A k \in Keys : staged[k] = NoEntry
    BY <1>1, <1>2 DEF Copies, Done, FilesKept, JournalKept
  <2>2. \A k \in work.journal.keys : entry[Target][k].files = "whole"
    BY <1>1, <1>2 DEF Copies, Done
  <2>3. QED
    BY <1>1, <1>4, <2>1, <2>2 DEF Copies, Target
<1>7. QED
  BY <1>1, <1>2, <1>3, <1>4, <1>5, <1>6, PointKinds, MoveGoes

LEMMA AbandonSafe ==
  ASSUME MoveInvariant, NEW w \in Windows, Abandon(w)
  PROVE  FilesKept' /\ LeasesKept' /\ HolderKeeps'
<1> DEFINE m == Mover(w)
<1>1. /\ m \in Threads /\ pc[m] \in {"copy", "unredirect", "redirect", "commit"}
      /\ work' = [work EXCEPT !.todo = work.journal.keys] /\ Goto(m, "roll back")
      /\ UNCHANGED disk /\ UNCHANGED <<control, leases>>
  BY ThreadsOf DEF Abandon, locks, window
<1>2. /\ control = m /\ work \in Works /\ setting = Source /\ Target # Source
      /\ Target = Other(Source) /\ ~work.forward /\ ~work.failed /\ journal = work.journal
  BY <1>1, CopyFacts
<1>3. /\ UNCHANGED <<setting, journal>> /\ work'.journal = work.journal
      /\ work'.todo = work.journal.keys /\ work'.forward = work.forward
      /\ work'.failed = work.failed
  BY <1>1, <1>2 DEF disk, Works
<1>4. JournalOf("roll back")' /\ Settles("roll back")'
  BY <1>2, <1>3, PointKinds DEF JournalOf, Settles, Source, Target, Other
<1>5. RollsBack("roll back")' /\ Finishes("roll back")'
  BY <1>3 DEF RollsBack, Finishes, Done, RolledBackOnes, CleanedOnes
<1>6. Holds("roll back")'
  BY <1>4, <1>5, PointKinds, SettlingHolds
<1>7. QED
  BY <1>1, <1>2, <1>6, HolderStep

LEMMA RedirectSafe ==
  ASSUME MoveInvariant, NEW w \in Windows, Unredirect(w) \/ Redirect(w)
  PROVE  FilesKept' /\ LeasesKept' /\ HolderKeeps'
<1> DEFINE m == Mover(w)
<1>1. PICK p \in {"redirect", "commit"} :
        /\ pc[m] = (IF p = "redirect" THEN "unredirect" ELSE "redirect") /\ Goto(m, p)
        /\ redirect' = IF p = "redirect" THEN [redirect EXCEPT ![Target] = None]
                       ELSE [redirect EXCEPT ![Source] = Target]
        /\ UNCHANGED <<setting, journal, dir, marker, entry, staged, live, control, global,
                       leases, work>>
  BY DEF Unredirect, Redirect, Step, locks, window
<1>2. /\ m \in Threads /\ pc[m] \in Uncommitted \ {"create", "own", "lock"}
      /\ Copies(pc[m]) /\ FilesKept /\ TypeInv
      /\ Source \in Roots /\ Target \in Roots /\ setting = Source /\ Target # Source
      /\ journal = work.journal /\ journal # None
  BY <1>1, ThreadsOf, CopyFacts
<1>3. redirect'[Target] = None
  BY <1>1, <1>2 DEF Copies, TypeInv, DiskTypes
<1>4. FilesKept'
  <2>1. CacheFollowsSetting' /\ SettingOwned' /\ SelectedOpens'
    BY <1>1, <1>2 DEF FilesKept, CacheFollowsSetting, SettingOwned, SelectedOpens
  <2>2. JournalKept'
    BY <1>1, <1>2 DEF FilesKept, JournalKept, Source, Target
  <2>3. QED
    BY <2>1, <2>2 DEF FilesKept
<1>5. JournalOf(p)'
  BY <1>1, <1>2, PointKinds DEF JournalOf
<1>6. Copies(p)'
  BY <1>1, <1>2, <1>3 DEF Copies, Target
<1>7. QED
  BY <1>1, <1>2, <1>4, <1>5, <1>6, PointKinds, MoveGoes

LEMMA CommitSafe ==
  ASSUME MoveInvariant, NEW w \in Windows, Commit(w)
  PROVE  FilesKept' /\ LeasesKept' /\ HolderKeeps'
<1> DEFINE m == Mover(w)
<1>1. /\ m \in Threads /\ pc[m] = "commit" /\ setting' = Target /\ Goto(m, "verify")
      /\ work' = [work EXCEPT !.todo = work.journal.keys, !.forward = TRUE]
      /\ UNCHANGED <<journal, dir, redirect, marker, entry, staged, live, control, leases>>
  BY ThreadsOf DEF Commit, locks, window
<1>2. /\ control = m /\ Holds("commit") /\ Copies("commit") /\ FilesKept /\ LeasesKept /\ TypeInv
      /\ work \in Works /\ Target \in Roots /\ setting = Source /\ Target # Source
      /\ Target = Other(Source) /\ ~work.journal.started /\ ~work.failed
      /\ journal = work.journal /\ journal # None
  BY <1>1, CopyFacts
<1>3. /\ work'.journal = work.journal /\ work'.todo = work.journal.keys /\ work'.forward
      /\ work'.failed = work.failed
  BY <1>1, <1>2 DEF Works
<1>4. /\ dir[Target] = "owned" /\ redirect[Target] = None
      /\ \A k \in Keys : staged[k] = NoEntry /\ \A v \in Windows : leases[v] = {}
      /\ \A k \in live : entry[Target][k].files = "whole"
  <2>1. /\ redirect[Target] = None /\ \A k \in Keys : staged[k] = NoEntry
        /\ \A k \in work.journal.keys : entry[Target][k].files = "whole"
    BY <1>2 DEF Copies
  <2>2. /\ dir[Target] = "owned" /\ \A v \in Windows : leases[v] = {}
        /\ \A k \in Keys : k \in work.journal.keys <=> entry[Source][k].files = "whole"
    BY <1>2, PointKinds DEF Holds, Moves
  <2>3. \A k \in live : k \in Keys /\ entry[Source][k].files = "whole"
    BY <1>2 DEF FilesKept, CacheFollowsSetting, TypeInv, DiskTypes
  <2>4. QED
    BY <2>1, <2>2, <2>3
<1>5. FilesKept'
  <2>1. CacheFollowsSetting' /\ SettingOwned' /\ SelectedOpens'
    BY <1>1, <1>2, <1>4 DEF CacheFollowsSetting, SettingOwned, SelectedOpens
  <2>2. JournalKept'
    BY <1>1, <1>2, <1>4 DEF FilesKept, JournalKept, Source, Target
  <2>3. QED
    BY <2>1, <2>2 DEF FilesKept
<1>6. LeasesKept'
  <2>1. \A v \in Windows : leases[v] = {}
    BY <1>2, PointKinds DEF Holds, Moves
  <2>2. QED
    BY <1>1, <2>1 DEF LeasesKept, LeasedWhole, LeasesOfSetting
<1>7. JournalOf("verify")' /\ Settles("verify")'
  BY <1>1, <1>2, <1>3, PointKinds DEF JournalOf, Settles, RollingBack, Pruning, Source, Target, Other
<1>8. RollsBack("verify")' /\ Finishes("verify")'
  BY <1>3 DEF RollsBack, Finishes, Done, RolledBackOnes, CleanedOnes
<1>9. Holds("verify")'
  BY <1>7, <1>8, PointKinds, SettlingHolds
<1>10. QED
  BY <1>1, <1>2, <1>5, <1>6, <1>9, HolderGoes

-----------------------------------------------------------------------------
(* Rollback and completion *)

LEMMA InspectSafe ==
  ASSUME MoveInvariant, NEW c \in Windows \X Callers, Inspect(c)
  PROVE  FilesKept' /\ LeasesKept' /\ HolderKeeps'
<1> DEFINE j == journal
<1>1. /\ c \in Threads /\ pc[c] = "inspect"
      /\ UNCHANGED <<setting, journal, dir, marker, entry, staged, live, leases>>
  BY ThreadsOf DEF Inspect
<1>2. /\ TypeInv /\ control = c /\ setting \in Roots /\ journal # None /\ journal \in Journals
      /\ FilesKept /\ LeasesKept
  BY <1>1, Holder, PointKinds DEF MoveInvariant, TypeInv, ControlHeld, DiskTypes
<1>3. CASE Return(c) /\ UNCHANGED redirect
  <2>1. UNCHANGED disk
    BY <1>1, <1>3 DEF disk
  <2>2. QED
    BY <1>1, <1>2, <1>3, <2>1, Releases, FilesUntouched
<1>4. CASE ~(Return(c) /\ UNCHANGED redirect)
  <2>1. /\ work' = [journal |-> j, todo |-> j.keys, failed |-> FALSE, forward |-> Completes(j)]
        /\ redirect' = IF Completes(j) /\ redirect[j.source] = None
                       THEN [redirect EXCEPT ![j.source] = j.target] ELSE redirect
        /\ Goto(c, IF Completes(j) THEN "verify" ELSE "roll back") /\ control' = control
    BY <1>4 DEF Inspect
  <2>2. /\ Source' = j.source /\ Target' = j.target /\ work'.todo = j.keys /\ ~work'.failed
        /\ work'.journal = j /\ (work'.forward <=> setting = j.target)
    BY <2>1 DEF Source, Target, Completes
  <2>3. /\ j.target = Other(j.source) /\ j.source \in Roots /\ j.target \in Roots
        /\ j.source # j.target
    BY <1>2, ThreadsOf DEF FilesKept, JournalKept, Journals
  <2>4. FilesKept'
    <3>1. CacheFollowsSetting' /\ SettingOwned' /\ SelectedOpens'
      BY <1>1, <1>2 DEF FilesKept, CacheFollowsSetting, SettingOwned, SelectedOpens
    <3>2. redirect[j.target] = None => redirect'[j.target] = None
      BY <2>1, <2>3, <1>2 DEF TypeInv, DiskTypes
    <3>3. JournalKept'
      BY <1>1, <1>2, <3>2 DEF FilesKept, JournalKept
    <3>4. QED
      BY <3>1, <3>3 DEF FilesKept
  <2>5. LeasesKept'
    BY <1>1, <1>2 DEF LeasesKept, LeasedWhole, LeasesOfSetting
  <2> PICK p \in {"verify", "roll back"} : Goto(c, p) /\ (p = "verify" <=> setting = j.target)
    BY <2>1 DEF Completes
  <2>6. p \in Journaled \intersect Settling /\ p \notin Unjournaled
    BY PointKinds
  <2>7. JournalOf(p)'
    BY <1>1, <2>2, <2>6 DEF JournalOf
  <2>8. Settles(p)'
    <3>1. work'.forward <=> p = "verify"
      BY <2>2
    <3>2. p \notin RollingBack \/ p = "roll back"
      BY DEF RollingBack, Pruning
    <3>3. QED
      BY <1>1, <2>2, <2>3, <3>1, <3>2 DEF Settles
  <2>9. RollsBack(p)' /\ Finishes(p)'
    BY <2>2 DEF RollsBack, Finishes, Done, RolledBackOnes, CleanedOnes
  <2>10. Holds(p)'
    BY <2>6, <2>7, <2>8, <2>9, SettlingHolds
  <2>11. QED
    BY <1>1, <1>2, <2>1, <2>4, <2>5, <2>10, HolderGoes
<1>5. QED
  BY <1>3, <1>4

\* The holder rolls a move back or completes it.
LEMMA SettleFacts ==
  ASSUME MoveInvariant, NEW t \in Threads, pc[t] \in Settling
  PROVE  /\ control = t /\ Holds(pc[t]) /\ TypeInv /\ work \in Works
         /\ JournalOf(pc[t]) /\ Settles(pc[t]) /\ RollsBack(pc[t]) /\ Finishes(pc[t])
         /\ Source \in Roots /\ Target \in Roots /\ setting \in Roots /\ Roots = {Source, Target}
         /\ Target # Source /\ Target = Other(Source)
         /\ work.todo \subseteq Keys /\ work.journal.keys \subseteq Keys
         /\ work.todo \subseteq work.journal.keys
         /\ work.forward <=> setting = Target
         /\ ~work.forward <=> setting = Source
         /\ pc[t] \in Journaled => journal = work.journal /\ journal # None
         /\ FilesKept /\ LeasesKept
<1>1. /\ control = t /\ Holds(pc[t]) /\ TypeInv /\ work \in Works
      /\ Source \in Roots /\ Target \in Roots /\ setting \in Roots
      /\ work.todo \subseteq Keys /\ work.journal.keys \subseteq Keys
  BY Holder, PointKinds
<1>2. JournalOf(pc[t]) /\ Settles(pc[t]) /\ RollsBack(pc[t]) /\ Finishes(pc[t])
  BY <1>1 DEF Holds
<1>3. /\ Target = Other(Source) /\ Target # Source /\ work.todo \subseteq work.journal.keys
      /\ work.forward <=> setting = Target
  BY <1>1, <1>2, ThreadsOf DEF Settles
<1>4. Roots = {Source, Target}
  BY <1>1, <1>3 DEF Roots
<1>5. pc[t] \in Journaled => journal = work.journal /\ journal # None
  BY <1>1, <1>2, WorkParts, NoneIsNoJournal DEF JournalOf
<1>6. ~work.forward <=> setting = Source
  BY <1>1, <1>3, <1>4
<1>7. QED
  BY <1>1, <1>2, <1>3, <1>4, <1>5, <1>6 DEF MoveInvariant

\* A thread that ends the move, with an error or without, leaves the files as they are.
LEMMA EndsSafe ==
  ASSUME MoveInvariant, NEW t \in Threads, Failed(t) \/ Settled(t), UNCHANGED disk, leases' = leases
  PROVE  FilesKept' /\ LeasesKept' /\ HolderKeeps'
<1>1. TypeInv
  BY DEF MoveInvariant
<1>2. QED
  BY <1>1, Releases, FilesUntouched

\* The entries of the root that the settings name keep their files.
LEMMA LeasesStay ==
  ASSUME TypeInv, LeasesKept, UNCHANGED <<leases, setting>>,
         \A k \in Keys : entry'[setting][k].files = entry[setting][k].files
  PROVE  LeasesKept'
<1> SUFFICES ASSUME NEW w \in Windows, NEW l \in leases[w]
             PROVE  l[1] = setting /\ entry'[l[1]][l[2]].files = "whole"
  BY DEF LeasesKept, LeasedWhole, LeasesOfSetting
<1>1. l \in Roots \X Keys /\ l[1] = setting /\ entry[l[1]][l[2]].files = "whole"
  BY DEF TypeInv, WindowTypes, LeasesKept, LeasedWhole, LeasesOfSetting
<1>2. l[2] \in Keys /\ entry[setting][l[2]].files = "whole"
  BY <1>1
<1>3. entry'[setting][l[2]].files = "whole"
  BY <1>2
<1>4. QED
  BY <1>1, <1>3

\* Only one key of the journal is worked on: no other is staged or tagged.
LEMMA OutsideStays ==
  ASSUME NEW S \in SUBSET Keys, NEW k \in S,
         \A x \in Keys : x # k => staged'[x] = staged[x],
         \A q \in Roots : \A x \in Keys : x # k => entry'[q][x] = entry[q][x],
         \A x \in Keys \ S : staged[x] = NoEntry /\ \A r \in Roots : ~entry[r][x].tag
  PROVE  \A x \in Keys \ S : staged'[x] = NoEntry /\ \A r \in Roots : ~entry'[r][x].tag
OBVIOUS

LEMMA RollBackSafe ==
  ASSUME MoveInvariant, NEW t \in Threads, RollBack(t)
  PROVE  FilesKept' /\ LeasesKept' /\ HolderKeeps'
<1> DEFINE k == Min(work.todo)
           left == IF staged[k].files # "none" THEN staged[k] ELSE entry[Target][k]
<1>1. /\ pc[t] = "roll back" /\ work.todo # {}
      /\ UNCHANGED <<setting, journal, dir, redirect, marker, live, leases>>
  BY DEF RollBack
<1>2. /\ control = t /\ TypeInv /\ work \in Works /\ JournalOf("roll back")
      /\ Settles("roll back") /\ RollsBack("roll back")
      /\ Source \in Roots /\ Target \in Roots /\ setting \in Roots /\ Roots = {Source, Target}
      /\ Target # Source /\ Target = Other(Source)
      /\ work.todo \subseteq Keys /\ work.todo \subseteq work.journal.keys
      /\ journal = work.journal /\ journal # None /\ FilesKept /\ LeasesKept
  BY <1>1, SettleFacts, PointKinds
<1>3. ~work.forward /\ setting = Source
  BY <1>1, <1>2, SettleFacts, PointKinds DEF Settles, RollingBack
<1>4. k \in work.todo /\ k \in Keys
  BY <1>1, <1>2, NextEntries
<1>5. CASE left.files # "none" /\ ~Owned(left)
  <2>1. Failed(t) /\ UNCHANGED <<staged, entry>>
    BY <1>5 DEF RollBack
  <2>2. UNCHANGED disk
    BY <1>1, <2>1 DEF disk
  <2>3. QED
    BY <1>1, <2>1, <2>2, EndsSafe
<1>6. CASE ~(left.files # "none" /\ ~Owned(left))
  <2>1. /\ Goto(t, "roll back") /\ control' = control
        /\ \A x \in Keys : entry'[Source][x] = entry[Source][x]
        /\ \A x \in Keys : x # k => entry'[Target][x] = entry[Target][x] /\ staged'[x] = staged[x]
        /\ work'.journal = work.journal /\ work'.forward = work.forward /\ work'.failed = work.failed
        /\ work'.todo \subseteq work.todo
        /\ \A x \in Keys : x # k => (x \in work'.todo <=> x \in work.todo)
        /\ k \notin work'.todo => staged'[k].files = "none" /\ entry'[Target][k].files = "none"
    <3>1. CASE left.files = "none"
      <4>1. /\ work' = [work EXCEPT !.todo = @ \ {k}]
            /\ UNCHANGED <<staged, entry, pc, control>>
        BY <3>1 DEF RollBack
      <4>2. /\ work'.journal = work.journal /\ work'.forward = work.forward
            /\ work'.failed = work.failed /\ work'.todo = work.todo \ {k}
        BY <1>2, <4>1 DEF Works
      <4>3. Goto(t, "roll back")
        BY <1>1, <1>2, <4>1 DEF Goto, TypeInv, ThreadTypes
      <4>4. QED
        BY <3>1, <4>1, <4>2, <4>3
    <3>2. CASE left.files # "none" /\ staged[k].files # "none"
      <4>1. /\ staged' = [staged EXCEPT ![k] = Shrunk(@)]
            /\ UNCHANGED <<entry, work, pc, control>>
        BY <1>6, <3>2 DEF RollBack
      <4>2. Goto(t, "roll back")
        BY <1>1, <1>2, <4>1 DEF Goto, TypeInv, ThreadTypes
      <4>3. \A x \in Keys : x # k => staged'[x] = staged[x]
        BY <1>2, <4>1 DEF TypeInv, EntryTypes
      <4>4. QED
        BY <1>4, <4>1, <4>2, <4>3
    <3>3. CASE left.files # "none" /\ staged[k].files = "none"
      <4>1. /\ entry' = [entry EXCEPT ![Target][k] = Shrunk(@)]
            /\ UNCHANGED <<staged, work, pc, control>>
        BY <1>6, <3>3 DEF RollBack
      <4>2. Goto(t, "roll back")
        BY <1>1, <1>2, <4>1 DEF Goto, TypeInv, ThreadTypes
      <4>3. \A q \in Roots : \A x \in Keys : q # Target \/ x # k => entry'[q][x] = entry[q][x]
        <5>1. entry \in [Roots -> [Keys -> Entries]] /\ Shrunk(entry[Target][k]) \in Entries
          BY <1>2, <1>4, <3>3, EntryKinds DEF TypeInv, EntryTypes
        <5> PICK e \in Entries : e = Shrunk(entry[Target][k])
          BY <5>1
        <5>2. entry' = [entry EXCEPT ![Target][k] = e]
          BY <4>1
        <5>5. entry \in [Roots -> [Keys -> Entries]] /\ Target \in Roots /\ k \in Keys
          BY <1>2, <1>4, <5>1
        <5>3. /\ entry' \in [Roots -> [Keys -> Entries]]
              /\ entry'[Target][k] = e
              /\ \A q \in Roots : \A x \in Keys : q # Target \/ x # k => entry'[q][x] = entry[q][x]
          BY <5>5, <5>2, PutEntry
        <5>4. QED
          BY <5>3
      <4>4. QED
        BY <1>2, <1>4, <4>1, <4>2, <4>3
    <3>4. QED
      BY <3>1, <3>2, <3>3
  <2>2. FilesKept'
    <3>1. CacheFollowsSetting' /\ SettingOwned' /\ SelectedOpens'
      BY <1>1, <1>2, <1>3, <2>1 DEF FilesKept, CacheFollowsSetting, SettingOwned, SelectedOpens,
         TypeInv, DiskTypes
    <3>2. \A x \in Keys \ journal'.keys : staged'[x] = NoEntry /\ \A r \in Roots : ~entry'[r][x].tag
      <4>1. \A x \in Keys \ work.journal.keys : staged[x] = NoEntry /\ \A r \in Roots : ~entry[r][x].tag
        BY <1>2 DEF FilesKept, JournalKept
      <4>2. \A q \in Roots : \A x \in Keys : x # k => entry'[q][x] = entry[q][x]
        <5>1. \A x \in Keys : x # k => entry'[Target][x] = entry[Target][x]
          BY <2>1
        <5>2. \A x \in Keys : x # k => entry'[Source][x] = entry[Source][x]
          BY <2>1
        <5>3. QED
          BY <1>2, <5>1, <5>2
      <4>3. \A x \in Keys : x # k => staged'[x] = staged[x]
        BY <2>1
      <4>4. work.journal.keys \in SUBSET Keys /\ k \in work.journal.keys /\ journal' = work.journal
        BY <1>1, <1>2, <1>4, WorkParts
      <4>5. QED
        BY <4>1, <4>2, <4>3, <4>4, OutsideStays
    <3>3. JournalKept'
      BY <1>1, <1>2, <1>3, <2>1, <3>2 DEF FilesKept, JournalKept, Target
    <3>4. QED
      BY <3>1, <3>3 DEF FilesKept
  <2>3. LeasesKept'
    <3>1. \A x \in Keys : entry'[setting][x].files = entry[setting][x].files
      BY <1>3, <2>1
    <3>2. QED
      BY <1>1, <1>2, <3>1, LeasesStay
  <2>4. JournalOf("roll back")' /\ Settles("roll back")'
    BY <1>1, <1>2, <2>1, PointKinds DEF JournalOf, Settles, Source, Target, Other
  <2>5. RollsBack("roll back")'
    <3>1. \A x \in Keys : Done(x)' => staged'[x].files = "none" /\ entry'[Target][x].files = "none"
      BY <1>2, <2>1 DEF RollsBack, Done
    <3>2. Target' = Target
      BY <2>1 DEF Target
    <3>3. QED
      BY <3>1, <3>2 DEF RollsBack, RolledBackOnes
  <2>6. Finishes("roll back")'
    BY DEF Finishes, CleanedOnes
  <2>7. Holds("roll back")'
    BY <2>4, <2>5, <2>6, PointKinds, SettlingHolds
  <2>8. QED
    BY <1>2, <2>1, <2>2, <2>3, <2>7, HolderGoes
<1>7. QED
  BY <1>5, <1>6

LEMMA SettleGoes ==
  ASSUME MoveInvariant, NEW t \in Threads, NEW p \in Settling, pc[t] \in Settling, Goto(t, p),
         control' = control, FilesKept', LeasesKept',
         (JournalOf(p) /\ Settles(p) /\ RollsBack(p) /\ Finishes(p))'
  PROVE  FilesKept' /\ LeasesKept' /\ HolderKeeps'
BY SettleFacts, SettlingHolds, HolderGoes

LEMMA RolledBackSafe ==
  ASSUME MoveInvariant, NEW t \in Threads, RolledBack(t)
  PROVE  FilesKept' /\ LeasesKept' /\ HolderKeeps'
<1>1. /\ pc[t] = "roll back" /\ work.todo = {} /\ Goto(t, "undo redirect")
      /\ UNCHANGED disk /\ UNCHANGED <<control, leases, work>>
  BY DEF RolledBack, Settle, locks, window
<1>2. /\ JournalOf("roll back") /\ Settles("roll back") /\ RollsBack("roll back")
      /\ work.journal.keys \subseteq Keys
  BY <1>1, SettleFacts, PointKinds
<1>3. UNCHANGED <<setting, journal, redirect, marker, entry, staged>>
  BY <1>1 DEF disk
<1>4. JournalOf("undo redirect")' /\ Settles("undo redirect")'
  BY <1>1, <1>2, <1>3, PointKinds DEF JournalOf, Settles, RollingBack, Source, Target, Other
<1>5. RollsBack("undo redirect")'
  <2>1. \A k \in work.journal.keys : staged[k].files = "none" /\ entry[Target][k].files = "none"
    BY <1>1, <1>2 DEF RollsBack, Done
  <2>2. QED
    BY <1>1, <1>3, <2>1 DEF RollsBack, Target
<1>6. Finishes("undo redirect")'
  BY DEF Finishes, CleanedOnes
<1>7. Holds("undo redirect")'
  BY <1>4, <1>5, <1>6, PointKinds, SettlingHolds
<1>8. QED
  BY <1>1, <1>7, HolderStep, SettleFacts, PointKinds

LEMMA UndoSafe ==
  ASSUME MoveInvariant, NEW t \in Threads, UndoRedirect(t)
  PROVE  FilesKept' /\ LeasesKept' /\ HolderKeeps'
<1>1. /\ pc[t] = "undo redirect" /\ Goto(t, "restore redirect")
      /\ redirect' = [redirect EXCEPT ![Source] = None]
      /\ UNCHANGED <<setting, journal, dir, marker, entry, staged, live, control, leases, work>>
  BY DEF UndoRedirect, Settle, locks, window
<1>2. /\ TypeInv /\ JournalOf("undo redirect") /\ Settles("undo redirect")
      /\ RollsBack("undo redirect") /\ Source \in Roots /\ Target # Source
      /\ (work.forward <=> setting = Target)
      /\ journal = work.journal /\ journal # None /\ FilesKept /\ LeasesKept
  BY <1>1, SettleFacts, PointKinds
<1>3. ~work.forward /\ redirect'[Source] = None
  BY <1>1, <1>2, PointKinds DEF Settles, RollingBack, TypeInv, DiskTypes
<1>4. FilesKept'
  BY <1>1, <1>2, <1>3 DEF FilesKept, CacheFollowsSetting, SettingOwned, SelectedOpens, JournalKept, Target
<1>5. LeasesKept'
  BY <1>1, <1>2, LeasesStay
<1>6. JournalOf("restore redirect")' /\ Settles("restore redirect")'
  BY <1>1, <1>2, <1>3, PointKinds DEF JournalOf, Settles, Source, Target, Other
<1>7. RollsBack("restore redirect")'
  BY <1>1, <1>2, <1>3 DEF RollsBack, RolledBackOnes, Source, Target
<1>8. Finishes("restore redirect")'
  BY DEF Finishes, CleanedOnes
<1>9. QED
  BY <1>1, <1>4, <1>5, <1>6, <1>7, <1>8, PointKinds, SettleGoes

LEMMA RestoreSafe ==
  ASSUME MoveInvariant, NEW t \in Threads, RestoreRedirect(t)
  PROVE  FilesKept' /\ LeasesKept' /\ HolderKeeps'
<1>1. /\ pc[t] = "restore redirect" /\ Goto(t, "unmark one")
      /\ UNCHANGED <<setting, journal, dir, marker, entry, staged, live, control, leases, work>>
  BY DEF RestoreRedirect, Settle, locks, window
<1>2. /\ TypeInv /\ JournalOf("restore redirect") /\ Settles("restore redirect")
      /\ RollsBack("restore redirect") /\ Source \in Roots /\ Target # Source
      /\ (work.forward <=> setting = Target)
      /\ journal = work.journal /\ journal # None /\ FilesKept /\ LeasesKept
  BY <1>1, SettleFacts, PointKinds
<1>3. ~work.forward /\ redirect'[Source] = redirect[Source]
  BY <1>1, <1>2, PointKinds DEF RestoreRedirect, Settles, RollingBack, TypeInv, DiskTypes
<1>4. FilesKept'
  BY <1>1, <1>2, <1>3 DEF FilesKept, CacheFollowsSetting, SettingOwned, SelectedOpens, JournalKept, Target
<1>5. LeasesKept'
  BY <1>1, <1>2, LeasesStay
<1>6. JournalOf("unmark one")' /\ Settles("unmark one")'
  BY <1>1, <1>2, <1>3, PointKinds DEF JournalOf, Settles, RollingBack, Pruning, Source, Target, Other
<1>7. RollsBack("unmark one")'
  BY <1>1, <1>2, <1>3 DEF RollsBack, RolledBackOnes, Source, Target
<1>8. Finishes("unmark one")'
  BY <1>1, <1>3 DEF Finishes
<1>9. QED
  BY <1>1, <1>4, <1>5, <1>6, <1>7, <1>8, PointKinds, SettleGoes

LEMMA VerifySafe ==
  ASSUME MoveInvariant, NEW t \in Threads, Verify(t)
  PROVE  FilesKept' /\ LeasesKept' /\ HolderKeeps'
<1>1. /\ pc[t] = "verify"
      /\ UNCHANGED <<setting, dir, redirect, marker, entry, staged, live, leases>>
  BY DEF Verify
<1>2. /\ control = t /\ TypeInv /\ JournalOf("verify") /\ Settles("verify") /\ Finishes("verify")
      /\ RollsBack("verify") /\ Source \in Roots /\ Target # Source /\ work \in Works
      /\ Target = Other(Source) /\ (work.forward <=> setting = Target)
      /\ work.todo \subseteq work.journal.keys
      /\ journal = work.journal /\ journal # None /\ FilesKept /\ LeasesKept
  BY <1>1, SettleFacts, PointKinds
<1>3. work.forward /\ setting = Target
  BY <1>2, PointKinds DEF Settles
<1>4. CASE Failed(t) /\ UNCHANGED journal
  <2>1. UNCHANGED disk
    BY <1>1, <1>4 DEF disk
  <2>2. QED
    BY <1>1, <1>4, <2>1, EndsSafe
<1>5. CASE ~(Failed(t) /\ UNCHANGED journal)
  <2>1. /\ journal' = [work.journal EXCEPT !.started = TRUE]
        /\ work' = [work EXCEPT !.journal.started = TRUE] /\ Goto(t, "clean") /\ control' = control
    BY <1>5 DEF Verify, locks
  <2>2. /\ work'.journal = journal' /\ Source' = Source /\ Target' = Target
        /\ journal'.source = Source /\ journal'.target = Target
        /\ journal'.keys = work.journal.keys /\ work'.todo = work.todo
        /\ work'.forward = work.forward /\ work'.failed = work.failed
    BY <1>2, <2>1 DEF Works, Journals, Source, Target
  <2>3. journal' # None
    BY <1>2, <2>1, WorkParts, NoneIsNoJournal
  <2>4. FilesKept'
    <3>1. CacheFollowsSetting' /\ SettingOwned' /\ SelectedOpens'
      BY <1>1, <1>2, <2>3 DEF FilesKept, CacheFollowsSetting, SettingOwned, SelectedOpens
    <3>2. JournalKept'
      BY <1>1, <1>2, <1>3, <2>2 DEF FilesKept, JournalKept, Target
    <3>3. QED
      BY <3>1, <3>2 DEF FilesKept
  <2>5. LeasesKept'
    BY <1>1, <1>2, LeasesStay
  <2>6. JournalOf("clean")'
    BY <2>2, PointKinds DEF JournalOf
  <2>7. Settles("clean")'
    <3>1. Target' = Other(Source)'
      BY <1>2, <2>2 DEF Other
    <3>2. QED
      BY <1>1, <1>2, <1>3, <2>2, <3>1 DEF Settles, RollingBack, Pruning
  <2>8. RollsBack("clean")' /\ Finishes("clean")'
    BY <1>2, <2>2, PointKinds DEF RollsBack, Finishes, Done, RolledBackOnes, CleanedOnes
  <2>9. QED
    BY <1>1, <1>2, <2>1, <2>4, <2>5, <2>6, <2>7, <2>8, PointKinds, SettleGoes
<1>6. QED
  BY <1>4, <1>5

\* A completed move cleans its source: one key is worked on, or done, or has failed.
LEMMA CleanGoes ==
  ASSUME MoveInvariant, NEW t \in Threads, NEW p \in {"clean", "remove directory"},
         pc[t] \in {"clean", "remove directory"}, Goto(t, p), NEW k \in work.todo,
         UNCHANGED <<setting, journal, dir, redirect, marker, staged, live, control, leases>>,
         \A x \in Keys : entry'[Target][x] = entry[Target][x],
         \A x \in Keys : x # k => entry'[Source][x] = entry[Source][x],
         work'.journal = work.journal, work'.forward = work.forward,
         work.failed => work'.failed, work'.todo \subseteq work.todo,
         \A x \in Keys : x # k => (x \in work'.todo <=> x \in work.todo),
         k \notin work'.todo => work'.failed \/ entry'[Source][k].files = "none",
         p = "remove directory" => k \in work'.todo
  PROVE  FilesKept' /\ LeasesKept' /\ HolderKeeps'
<1>1. /\ control = t /\ TypeInv /\ JournalOf(pc[t]) /\ Settles(pc[t]) /\ Finishes(pc[t])
      /\ Source \in Roots /\ Target \in Roots /\ Roots = {Source, Target} /\ Target # Source
      /\ Target = Other(Source) /\ (work.forward <=> setting = Target)
      /\ work.todo \subseteq work.journal.keys /\ work.journal.keys \subseteq Keys
      /\ journal = work.journal /\ journal # None /\ FilesKept /\ LeasesKept
      /\ pc[t] \in Settling
  BY SettleFacts, PointKinds
<1>2. work.forward /\ setting = Target
  BY <1>1, PointKinds DEF Settles
<1>3. k \in Keys /\ k \in work.journal.keys /\ Source' = Source /\ Target' = Target
  BY <1>1 DEF Source, Target
<1>4. FilesKept'
  <2>1. CacheFollowsSetting' /\ SettingOwned' /\ SelectedOpens'
    BY <1>1, <1>2 DEF FilesKept, CacheFollowsSetting, SettingOwned, SelectedOpens, TypeInv, DiskTypes
  <2>2. \A x \in Keys \ journal'.keys : staged'[x] = NoEntry /\ \A r \in Roots : ~entry'[r][x].tag
    <3>1. \A x \in Keys \ work.journal.keys : staged[x] = NoEntry /\ \A r \in Roots : ~entry[r][x].tag
      BY <1>1 DEF FilesKept, JournalKept
    <3>2. \A q \in Roots : \A x \in Keys : x # k => entry'[q][x] = entry[q][x]
      BY <1>1
    <3>3. /\ work.journal.keys \in SUBSET Keys /\ k \in work.journal.keys
          /\ journal' = work.journal /\ \A x \in Keys : x # k => staged'[x] = staged[x]
      BY <1>1, <1>3
    <3>4. \A x \in Keys \ work.journal.keys : staged'[x] = NoEntry /\ \A r \in Roots : ~entry'[r][x].tag
      <4>1. ASSUME NEW x \in Keys \ work.journal.keys
            PROVE  /\ x # k /\ x \in Keys /\ staged'[x] = NoEntry
                   /\ \A r \in Roots : ~entry[r][x].tag /\ entry'[r][x] = entry[r][x]
        BY <3>1, <3>2, <3>3
      <4>2. QED
        BY <4>1
    <3>5. QED
      BY <3>3, <3>4
  <2>3. JournalKept'
    BY <1>1, <1>2, <2>2 DEF FilesKept, JournalKept, Source, Target
  <2>4. QED
    BY <2>1, <2>3 DEF FilesKept
<1>5. LeasesKept'
  BY <1>1, <1>2, LeasesStay
<1>6. JournalOf(p)'
  BY <1>1, PointKinds DEF JournalOf
<1>7. Settles(p)'
  BY <1>1, <1>2, <1>3, PointKinds DEF Settles, Source, Target, Other, RollingBack, Pruning
<1>8. RollsBack(p)'
  BY DEF RollsBack, RolledBackOnes
<1>9. Finishes(p)'
  <2>1. work'.failed \/ \A x \in Keys : Done(x)' => entry'[Source][x].files = "none"
    <3>1. CASE work'.failed
      BY <3>1
    <3>2. CASE ~work'.failed
      <4>1. \A x \in Keys : Done(x) => entry[Source][x].files = "none"
        BY <1>1, <3>2 DEF Finishes
      <4>2. \A x \in Keys : Done(x)' => entry'[Source][x].files = "none"
        <5> SUFFICES ASSUME NEW x \in Keys, Done(x)'  PROVE entry'[Source][x].files = "none"
          OBVIOUS
        <5>1. CASE x = k
          BY <3>2, <5>1 DEF Done
        <5>2. CASE x # k
          BY <4>1, <5>2 DEF Done
        <5>3. QED
          BY <5>1, <5>2
      <4>3. QED
        BY <4>2
    <3>3. QED
      BY <3>1, <3>2
  <2>2. p \notin CleanedOnes /\ p # "untag" /\ p # "verify"
    BY DEF CleanedOnes
  <2>3. QED
    BY <1>3, <2>1, <2>2 DEF Finishes
<1>10. QED
  BY <1>1, <1>4, <1>5, <1>6, <1>7, <1>8, <1>9, PointKinds, SettleGoes

LEMMA CleanSafe ==
  ASSUME MoveInvariant, NEW t \in Threads, Clean(t)
  PROVE  FilesKept' /\ LeasesKept' /\ HolderKeeps'
<1> DEFINE k == Min(work.todo)
           e == entry[Source][k]
<1>1. /\ pc[t] = "clean" /\ work.todo # {} /\ pc[t] \in Settling
      /\ UNCHANGED <<setting, journal, dir, redirect, marker, staged, live, control, leases>>
  BY PointKinds DEF Clean, locks, window
<1>2. /\ TypeInv /\ work \in Works /\ Source \in Roots /\ Target \in Roots /\ Target # Source
      /\ k \in work.todo /\ k \in Keys /\ e \in Entries
      /\ entry \in [Roots -> [Keys -> Entries]] /\ work.todo \subseteq Keys
      /\ (e.files \in {"none", "empty"} => ~e.tag)
  BY <1>1, SettleFacts, NextEntries DEF TypeInv, EntryTypes, Coherent
<1>3. CASE e.tag
  <2>1. /\ entry' = [entry EXCEPT ![Source][k] = Shrunk(e)] /\ work' = work
        /\ Goto(t, IF e.files = "part" THEN "remove directory" ELSE "clean")
    BY <1>3 DEF Clean
  <2>2. Shrunk(e) \in Entries
    BY <1>2, <1>3, EntryKinds
  <2>3. \A q \in Roots : \A x \in Keys : q # Source \/ x # k => entry'[q][x] = entry[q][x]
    <3> PICK f \in Entries : f = Shrunk(e)
      BY <2>2
    <3>1. entry' = [entry EXCEPT ![Source][k] = f]
      BY <2>1
    <3>3. Source \in Roots /\ k \in Keys /\ entry \in [Roots -> [Keys -> Entries]]
      BY <1>2
    <3>2. /\ entry' \in [Roots -> [Keys -> Entries]] /\ entry'[Source][k] = f
          /\ \A q \in Roots : \A x \in Keys : q # Source \/ x # k => entry'[q][x] = entry[q][x]
      BY <3>1, <3>3, PutEntry
    <3>4. QED
      BY <3>2
  <2> PICK p \in {"clean", "remove directory"} : Goto(t, p)
    BY <2>1
  <2>4. QED
    BY <1>1, <1>2, <2>1, <2>3, CleanGoes
<1>4. CASE ~e.tag /\ e.files = "whole"
  <2>1. entry' = [entry EXCEPT ![Source][k] = [e EXCEPT !.tag = TRUE]] /\ UNCHANGED <<work, pc>>
    BY <1>4 DEF Clean
  <2>2. \A q \in Roots : \A x \in Keys : q # Source \/ x # k => entry'[q][x] = entry[q][x]
    <3>5. PICK f \in Entries : f = [e EXCEPT !.tag = TRUE]
      BY <1>2 DEF Entries
    <3>1. entry' = [entry EXCEPT ![Source][k] = f]
      BY <2>1, <3>5
    <3>3. Source \in Roots /\ k \in Keys /\ entry \in [Roots -> [Keys -> Entries]]
      BY <1>2
    <3>2. /\ entry' \in [Roots -> [Keys -> Entries]] /\ entry'[Source][k] = f
          /\ \A q \in Roots : \A x \in Keys : q # Source \/ x # k => entry'[q][x] = entry[q][x]
      BY <3>1, <3>3, PutEntry
    <3>4. QED
      BY <3>2
  <2>3. Goto(t, "clean")
    BY <1>1, <1>2, <2>1 DEF Goto, TypeInv, ThreadTypes
  <2>4. QED
    BY <1>1, <1>2, <2>1, <2>2, <2>3, CleanGoes
<1>5. CASE ~e.tag /\ e.files # "whole"
  <2>1. /\ UNCHANGED <<entry, pc>>
        /\ \/ e.files = "none" /\ work' = [work EXCEPT !.todo = @ \ {k}]
           \/ work' = [work EXCEPT !.todo = @ \ {k}, !.failed = TRUE]
    <3>1. CASE e.files = "none"
      BY <1>5, <3>1 DEF Clean
    <3>2. CASE e.files # "none"
      <4>1. e.files \in {"empty", "part"}
        BY <1>2, <1>5, <3>2 DEF Entries
      <4>2. QED
        BY <1>5, <4>1 DEF Clean
    <3>3. QED
      BY <3>1, <3>2
  <2>2. /\ work'.journal = work.journal /\ work'.forward = work.forward
        /\ work.failed => work'.failed
        /\ work'.todo = work.todo \ {k}
        /\ work'.failed \/ e.files = "none"
    BY <1>2, <2>1 DEF Works
  <2>3. Goto(t, "clean")
    BY <1>1, <1>2, <2>1 DEF Goto, TypeInv, ThreadTypes
  <2>4. QED
    BY <1>1, <1>2, <2>1, <2>2, <2>3, CleanGoes
<1>6. QED
  BY <1>3, <1>4, <1>5

LEMMA RemoveSafe ==
  ASSUME MoveInvariant, NEW t \in Threads, RemoveDirectory(t)
  PROVE  FilesKept' /\ LeasesKept' /\ HolderKeeps'
<1> DEFINE k == Min(work.todo)
<1>1. /\ pc[t] = "remove directory" /\ pc[t] \in Settling /\ Goto(t, "clean")
      /\ entry' = [entry EXCEPT ![Source][k] = NoEntry]
      /\ work' = [work EXCEPT !.todo = @ \ {k}]
      /\ UNCHANGED <<setting, journal, dir, redirect, marker, staged, live, control, leases>>
  BY PointKinds DEF RemoveDirectory, Settle, locks, window
<1>2. /\ TypeInv /\ work \in Works /\ Source \in Roots /\ Target \in Roots /\ Target # Source
      /\ Finishes("remove directory") /\ work.todo \subseteq Keys
  BY <1>1, SettleFacts
<1>3. /\ k \in work.todo /\ k \in Keys /\ entry \in [Roots -> [Keys -> Entries]]
  BY <1>2, NextEntries DEF Finishes, TypeInv, EntryTypes
<1>4. /\ entry' \in [Roots -> [Keys -> Entries]] /\ entry'[Source][k] = NoEntry
      /\ \A q \in Roots : \A x \in Keys : q # Source \/ x # k => entry'[q][x] = entry[q][x]
  <2>1. /\ Source \in Roots /\ k \in Keys /\ entry \in [Roots -> [Keys -> Entries]]
        /\ NoEntry \in Entries /\ entry' = [entry EXCEPT ![Source][k] = NoEntry]
    BY <1>1, <1>2, <1>3, EntryKinds
  <2>2. QED
    BY <2>1, PutEntry
<1>5. /\ work'.journal = work.journal /\ work'.forward = work.forward
      /\ work'.failed = work.failed /\ work'.todo = work.todo \ {k}
  BY <1>1, <1>2 DEF Works
<1>6. entry'[Source][k].files = "none"
  BY <1>4, EntryKinds
<1>7. QED
  BY <1>1, <1>2, <1>3, <1>4, <1>5, <1>6, CleanGoes

LEMMA CleanFailsSafe ==
  ASSUME MoveInvariant, NEW t \in Threads, CleanFails(t)
  PROVE  FilesKept' /\ LeasesKept' /\ HolderKeeps'
<1> DEFINE k == Min(work.todo)
<1>1. /\ pc[t] \in {"clean", "remove directory"} /\ pc[t] \in Settling /\ Goto(t, "clean")
      /\ work' = [work EXCEPT !.todo = @ \ {k}, !.failed = TRUE] /\ work.todo # {}
      /\ UNCHANGED <<setting, journal, dir, redirect, marker, entry, staged, live, control, leases>>
  BY PointKinds DEF CleanFails, disk, locks, window
<1>2. work \in Works /\ work.todo \subseteq Keys /\ k \in work.todo
  BY <1>1, SettleFacts, NextKey
<1>3. /\ work'.journal = work.journal /\ work'.forward = work.forward
      /\ work'.failed /\ work'.todo = work.todo \ {k}
  BY <1>1, <1>2 DEF Works
<1>4. QED
  BY <1>1, <1>2, <1>3, CleanGoes

LEMMA CleanedSafe ==
  ASSUME MoveInvariant, NEW t \in Threads, Cleaned(t)
  PROVE  FilesKept' /\ LeasesKept' /\ HolderKeeps'
<1>1. /\ pc[t] = "clean" /\ work.todo = {} /\ Goto(t, "untag") /\ UNCHANGED disk
      /\ work' = [work EXCEPT !.todo = work.journal.keys] /\ UNCHANGED <<control, leases>>
  BY DEF Cleaned, Settle, locks, window
<1>2. /\ TypeInv /\ control = t /\ JournalOf("clean") /\ Settles("clean") /\ Finishes("clean")
      /\ work \in Works /\ work.journal.keys \subseteq Keys
  BY <1>1, SettleFacts, PointKinds
<1>3. /\ UNCHANGED <<setting, journal, marker, entry>> /\ work'.journal = work.journal
      /\ work'.todo = work.journal.keys /\ work'.forward = work.forward
      /\ work'.failed = work.failed
  BY <1>1, <1>2 DEF disk, Works
<1>4. JournalOf("untag")' /\ Settles("untag")'
  BY <1>2, <1>3, PointKinds DEF JournalOf, Settles, Source, Target, Other, RollingBack, Pruning
<1>5. Finishes("untag")'
  <2>1. work.failed \/ \A k \in work.journal.keys : entry[Source][k].files = "none"
    BY <1>1, <1>2 DEF Finishes, Done
  <2>2. \A k \in Keys : ~Done(k)'
    BY <1>3 DEF Done
  <2>3. QED
    BY <1>3, <2>1, <2>2 DEF Finishes, Source
<1>6. RollsBack("untag")'
  BY DEF RollsBack, RolledBackOnes
<1>7. Holds("untag")'
  BY <1>4, <1>5, <1>6, PointKinds, SettlingHolds
<1>8. QED
  BY <1>1, <1>2, <1>7, HolderStep

LEMMA UntagSafe ==
  ASSUME MoveInvariant, NEW t \in Threads, Untag(t)
  PROVE  FilesKept' /\ LeasesKept' /\ HolderKeeps'
<1> DEFINE k == Min(work.todo)
<1>1. /\ pc[t] = "untag" /\ pc[t] \in Settling
      /\ UNCHANGED <<setting, journal, dir, redirect, marker, staged, live, control, leases>>
  BY PointKinds DEF Untag, locks, window
<1>2. /\ control = t /\ TypeInv /\ JournalOf("untag") /\ Settles("untag") /\ Finishes("untag")
      /\ work \in Works /\ Source \in Roots /\ Target \in Roots /\ Roots = {Source, Target}
      /\ Target # Source /\ Target = Other(Source) /\ (work.forward <=> setting = Target)
      /\ work.todo \subseteq work.journal.keys /\ work.journal.keys \subseteq Keys
      /\ journal = work.journal /\ journal # None /\ FilesKept /\ LeasesKept
      /\ work.todo \subseteq Keys
  BY <1>1, SettleFacts, PointKinds
<1>3. work.forward /\ setting = Target /\ "untag" \in CleanedOnes
  BY <1>2, PointKinds DEF Settles, CleanedOnes
<1>4. work.failed \/ \A x \in work.journal.keys : entry[Source][x].files = "none"
  BY <1>2, <1>3 DEF Finishes
<1>5. CASE work.todo = {}
  <2>1. Goto(t, "unmark one") /\ UNCHANGED <<entry, work>>
    BY <1>5 DEF Untag
  <2>2. UNCHANGED disk
    BY <1>1, <2>1 DEF disk
  <2>3. \A x \in work.journal.keys : ~entry[Target][x].tag
    BY <1>2, <1>5 DEF Finishes, Done
  <2>4. JournalOf("unmark one")' /\ Settles("unmark one")'
    BY <1>1, <1>2, <1>3, <2>1, PointKinds DEF JournalOf, Settles, RollingBack, Pruning, Source,
       Target, Other
  <2>5. RollsBack("unmark one")'
    BY <1>3, <2>1 DEF RollsBack
  <2>6. Finishes("unmark one")'
    BY <1>4, <2>1, <2>3 DEF Finishes, Source, Target
  <2>7. Holds("unmark one")'
    BY <2>4, <2>5, <2>6, PointKinds, SettlingHolds
  <2>8. QED
    BY <1>1, <1>2, <2>1, <2>2, <2>7, HolderStep
<1>6. CASE work.todo # {}
  <2>1. /\ entry' = [entry EXCEPT ![Target][k].tag = FALSE]
        /\ work' = [work EXCEPT !.todo = @ \ {k}] /\ UNCHANGED pc
    BY <1>6 DEF Untag
  <2>2. /\ k \in work.todo /\ k \in Keys /\ entry[Target][k] \in Entries
        /\ k \in work.journal.keys
        /\ entry \in [Roots -> [Keys -> Entries]]
    BY <1>2, <1>6, NextEntries DEF TypeInv, EntryTypes
  <2>3. PICK f \in Entries : f = [entry[Target][k] EXCEPT !.tag = FALSE]
    BY <2>2 DEF Entries
  <2>4. entry' = [entry EXCEPT ![Target][k] = f]
    BY <2>1, <2>3
  <2>5. /\ entry' \in [Roots -> [Keys -> Entries]] /\ entry'[Target][k] = f
        /\ \A q \in Roots : \A x \in Keys : q # Target \/ x # k => entry'[q][x] = entry[q][x]
    <3>1. Target \in Roots /\ k \in Keys /\ entry \in [Roots -> [Keys -> Entries]]
      BY <1>2, <2>2
    <3>2. QED
      BY <2>4, <3>1, PutEntry
  <2>6. f.files = entry[Target][k].files /\ ~f.tag
    BY <2>2, <2>3 DEF Entries
  <2>7. /\ work'.journal = work.journal /\ work'.forward = work.forward
        /\ work'.failed = work.failed /\ work'.todo = work.todo \ {k}
    BY <1>2, <2>1 DEF Works
  <2>8. /\ \A x \in Keys : entry'[Source][x] = entry[Source][x]
        /\ \A x \in Keys : entry'[Target][x].files = entry[Target][x].files
        /\ \A x \in Keys : x # k => entry'[Target][x] = entry[Target][x]
        /\ ~entry'[Target][k].tag
    BY <1>2, <2>2, <2>5, <2>6
  <2>9. Goto(t, "untag") /\ Source' = Source /\ Target' = Target
    BY <1>1, <1>2, <2>1, <2>7 DEF Goto, TypeInv, ThreadTypes, Source, Target
  <2>10. FilesKept'
    <3>1. CacheFollowsSetting'
      BY <1>1, <1>2, <1>3, <2>8 DEF FilesKept, CacheFollowsSetting, TypeInv, DiskTypes
    <3>2. SettingOwned' /\ SelectedOpens'
      BY <1>1, <1>2 DEF FilesKept, SettingOwned, SelectedOpens
    <3>3. \A x \in Keys \ work.journal.keys : staged'[x] = NoEntry /\ \A r \in Roots : ~entry'[r][x].tag
      <4>1. \A x \in Keys \ work.journal.keys : staged[x] = NoEntry /\ \A r \in Roots : ~entry[r][x].tag
        BY <1>2 DEF FilesKept, JournalKept
      <4>2. /\ \A q \in Roots : \A x \in Keys : x # k => entry'[q][x] = entry[q][x]
            /\ \A x \in Keys : x # k => staged'[x] = staged[x]
            /\ work.journal.keys \in SUBSET Keys
        BY <1>1, <1>2, <2>5
      <4>3. QED
        BY <2>2, <4>1, <4>2, OutsideStays
    <3>4. JournalKept'
      BY <1>1, <1>2, <1>3, <3>3 DEF FilesKept, JournalKept, Source, Target
    <3>5. QED
      BY <3>1, <3>2, <3>4 DEF FilesKept
  <2>11. LeasesKept'
    BY <1>1, <1>2, <1>3, <2>8, LeasesStay
  <2>12. JournalOf("untag")' /\ Settles("untag")'
    BY <1>1, <1>2, <1>3, <2>7, <2>9, PointKinds DEF JournalOf, Settles, RollingBack, Pruning, Other
  <2>13. RollsBack("untag")'
    BY DEF RollsBack, RolledBackOnes
  <2>14. Finishes("untag")'
    <3>1. \A x \in Keys : Done(x)' => ~entry'[Target][x].tag
      <4> SUFFICES ASSUME NEW x \in Keys, Done(x)'  PROVE ~entry'[Target][x].tag
        OBVIOUS
      <4>1. CASE x = k
        BY <2>8, <4>1
      <4>2. CASE x # k
        BY <1>2, <2>7, <2>8, <4>2 DEF Done, Finishes
      <4>3. QED
        BY <4>1, <4>2
    <3>2. work'.failed \/ \A x \in work'.journal.keys : entry'[Source][x].files = "none"
      BY <1>2, <1>4, <2>7, <2>8
    <3>3. QED
      BY <2>9, <3>1, <3>2 DEF Finishes
  <2>15. QED
    BY <1>1, <1>2, <2>9, <2>10, <2>11, <2>12, <2>13, <2>14, SettleGoes
<1>7. QED
  BY <1>5, <1>6

LEMMA UnmarkSafe ==
  ASSUME MoveInvariant, NEW t \in Threads, UnmarkOne(t) \/ UnmarkOther(t)
  PROVE  FilesKept' /\ LeasesKept' /\ HolderKeeps'
<1>1. /\ pc[t] \in {"unmark one", "unmark other"}
      /\ pc[t] \in Settling /\ pc[t] \in Journaled /\ pc[t] \in RolledBackOnes \ {"undo redirect"}
      /\ pc[t] \in CleanedOnes \ {"untag"}
      /\ UNCHANGED <<setting, journal, dir, redirect, entry, staged, live, control, leases, work>>
  BY PointKinds DEF UnmarkOne, UnmarkOther, Settle, locks, window, RolledBackOnes, CleanedOnes
<1>2. /\ TypeInv /\ JournalOf(pc[t]) /\ Settles(pc[t]) /\ RollsBack(pc[t]) /\ Finishes(pc[t])
      /\ Source \in Roots /\ Target \in Roots /\ Roots = {Source, Target}
      /\ journal = work.journal /\ journal # None /\ FilesKept /\ LeasesKept
  BY <1>1, SettleFacts
<1> PICK p \in {"unmark other", "drop journal"} :
       /\ Goto(t, p)
       /\ p = "unmark other" =>
            marker' = [marker EXCEPT ![IF work.forward THEN Target ELSE Source] = FALSE]
       /\ p = "drop journal" =>
            /\ pc[t] = "unmark other"
            /\ marker' = [marker EXCEPT ![IF work.forward THEN Source ELSE Target] = FALSE]
  BY DEF UnmarkOne, UnmarkOther, Settle
<1>3. FilesKept'
  <2>1. CacheFollowsSetting' /\ SettingOwned' /\ SelectedOpens'
    BY <1>1, <1>2 DEF FilesKept, CacheFollowsSetting, SettingOwned, SelectedOpens
  <2>2. JournalKept'
    BY <1>1, <1>2 DEF FilesKept, JournalKept
  <2>3. QED
    BY <2>1, <2>2 DEF FilesKept
<1>4. LeasesKept'
  BY <1>1, <1>2, LeasesStay
<1>5. JournalOf(p)'
  BY <1>1, <1>2, PointKinds DEF JournalOf
<1>6. /\ p = "unmark other" => ~marker'[IF work.forward THEN Target ELSE Source]
      /\ p = "drop journal" => \A r \in Roots : ~marker'[r]
  <2>1. marker \in [Roots -> BOOLEAN] /\ work.forward \in BOOLEAN
    BY <1>1, <1>2, SettleFacts DEF TypeInv, DiskTypes, LockTypes, Works
  <2>2. pc[t] = "unmark other" => ~marker[IF work.forward THEN Target ELSE Source]
    BY <1>1, <1>2 DEF Settles
  <2>3. CASE work.forward
    BY <1>2, <2>1, <2>2, <2>3
  <2>4. CASE ~work.forward
    BY <1>2, <2>1, <2>2, <2>4
  <2>5. QED
    BY <2>3, <2>4
<1>7. Settles(p)'
  <2>1. p \notin RollingBack /\ p \notin {"verify", "clean", "remove directory", "untag"}
    BY DEF RollingBack, Pruning
  <2>2. Source' = Source /\ Target' = Target /\ Other(Source)' = Other(Source)
    BY <1>1 DEF Source, Target, Other
  <2>3. QED
    BY <1>1, <1>2, <1>6, <2>1, <2>2 DEF Settles
<1>8. RollsBack(p)'
  BY <1>1, <1>2 DEF RollsBack, Source, Target
<1>9. Finishes(p)'
  <2>1. p \notin {"verify", "clean", "remove directory", "untag"} /\ p \in CleanedOnes \ {"untag"}
    BY DEF CleanedOnes
  <2>2. work.forward => work.failed \/ \A k \in work.journal.keys : entry[Source][k].files = "none"
    BY <1>1, <1>2 DEF Finishes
  <2>3. work.forward => \A k \in work.journal.keys : ~entry[Target][k].tag
    BY <1>1, <1>2 DEF Finishes
  <2>4. QED
    BY <1>1, <2>1, <2>2, <2>3 DEF Finishes, Source, Target
<1>10. QED
  BY <1>1, <1>3, <1>4, <1>5, <1>7, <1>8, <1>9, PointKinds, SettleGoes

LEMMA DropSafe ==
  ASSUME MoveInvariant, NEW t \in Threads, DropJournal(t)
  PROVE  FilesKept' /\ LeasesKept' /\ HolderKeeps'
<1>1. /\ pc[t] = "drop journal" /\ pc[t] \in Settling
      /\ pc[t] \in RolledBackOnes \ {"undo redirect"} /\ pc[t] \in CleanedOnes \ {"untag"}
      /\ journal' = (IF work.failed THEN journal ELSE None)
      /\ UNCHANGED <<setting, dir, redirect, marker, entry, staged, live, leases>>
  BY PointKinds DEF DropJournal, window, RolledBackOnes, CleanedOnes
<1>2. /\ TypeInv /\ control = t /\ Settles("drop journal") /\ RollsBack("drop journal")
      /\ Finishes("drop journal") /\ work.journal.keys \subseteq Keys
      /\ Source \in Roots /\ Target \in Roots /\ Roots = {Source, Target}
      /\ (work.forward <=> setting = Target) /\ (~work.forward <=> setting = Source)
      /\ journal = work.journal /\ journal # None /\ FilesKept /\ LeasesKept
  BY <1>1, SettleFacts, PointKinds
<1>3. LeasesKept'
  BY <1>1, <1>2, LeasesStay
<1>4. ~work.failed =>
        /\ redirect[setting] = None /\ \A r \in Roots : ~marker[r]
        /\ \A k \in Keys : staged[k] = NoEntry /\ ~entry[Source][k].tag /\ ~entry[Target][k].tag
  <2> SUFFICES ASSUME ~work.failed
               PROVE  /\ redirect[setting] = None /\ \A r \in Roots : ~marker[r]
                      /\ \A k \in Keys : staged[k] = NoEntry /\ ~entry[Source][k].tag /\ ~entry[Target][k].tag
    OBVIOUS
  <2>1. \A r \in Roots : ~marker[r]
    BY <1>1, <1>2 DEF Settles
  <2>2. \A k \in Keys \ work.journal.keys :
          staged[k] = NoEntry /\ ~entry[Source][k].tag /\ ~entry[Target][k].tag
    BY <1>2 DEF FilesKept, JournalKept
  <2>3. \A e \in Entries : e.files = "none" /\ (e.files \in {"none", "empty"} => ~e.tag) => e = NoEntry
    BY DEF Entries, NoEntry
  <2>4. CASE work.forward
    <3>1. redirect[setting] = None /\ \A k \in Keys : staged[k] = NoEntry
      BY <1>2, <2>4 DEF FilesKept, JournalKept, Target
    <3>2. /\ \A k \in work.journal.keys : entry[Source][k].files = "none"
          /\ \A k \in work.journal.keys : ~entry[Target][k].tag
      BY <1>1, <1>2, <2>4 DEF Finishes
    <3>3. \A k \in work.journal.keys : ~entry[Source][k].tag
      BY <1>2, <3>2 DEF TypeInv, EntryTypes, Coherent
    <3>4. QED
      BY <2>1, <2>2, <3>1, <3>2, <3>3
  <2>5. CASE ~work.forward
    <3>1. redirect[setting] = None /\ \A k \in Keys : ~entry[Source][k].tag
      BY <1>1, <1>2, <2>5 DEF RollsBack, FilesKept, JournalKept, Source
    <3>2. \A k \in work.journal.keys : staged[k].files = "none" /\ entry[Target][k].files = "none"
      BY <1>1, <1>2, <2>5 DEF RollsBack
    <3>3. \A k \in work.journal.keys : ~entry[Target][k].tag
      BY <1>2, <3>2 DEF TypeInv, EntryTypes, Coherent
    <3>4. \A k \in work.journal.keys : staged[k] = NoEntry
      BY <1>2, <2>3, <3>2 DEF TypeInv, EntryTypes, Coherent
    <3>5. QED
      BY <2>1, <2>2, <3>1, <3>3, <3>4
  <2>6. QED
    BY <2>4, <2>5
<1>5. FilesKept'
  <2>1. CacheFollowsSetting' /\ SettingOwned'
    BY <1>1, <1>2 DEF FilesKept, CacheFollowsSetting, SettingOwned
  <2>2. JournalKept'
    BY <1>1, <1>2 DEF FilesKept, JournalKept
  <2>3. SelectedOpens'
    BY <1>1, <1>2, <1>4 DEF FilesKept, SettingOwned, SelectedOpens
  <2>4. QED
    BY <2>1, <2>2, <2>3 DEF FilesKept
<1>6. CASE Settled(t)
  <2>1. control' = None
    BY <1>2, <1>6 DEF Settled, ReleaseLocks
  <2>2. QED
    BY <1>3, <1>5, <2>1 DEF HolderKeeps
<1>7. CASE ~Settled(t)
  <2>1. ~work.forward /\ Goto(t, "prune") /\ UNCHANGED <<control, work>>
    BY <1>7 DEF DropJournal
  <2>2. ~work.failed
    BY <1>1, <1>2, <2>1 DEF Settles
  <2>3. JournalOf("prune")'
    BY <1>1, <2>2, PointKinds DEF JournalOf
  <2>4. Settles("prune")'
    BY <1>1, <1>2, <2>1, PointKinds DEF Settles, Source, Target, Other
  <2>5. RollsBack("prune")' /\ Finishes("prune")'
    BY DEF RollsBack, Finishes, RolledBackOnes, CleanedOnes
  <2>6. QED
    BY <1>1, <1>3, <1>5, <2>1, <2>3, <2>4, <2>5, PointKinds, SettleGoes
<1>8. QED
  BY <1>6, <1>7

LEMMA PruneSafe ==
  ASSUME MoveInvariant, NEW t \in Threads, Prune(t) \/ PruneOwner(t) \/ PruneDirectory(t)
  PROVE  FilesKept' /\ LeasesKept' /\ HolderKeeps'
<1>1. /\ pc[t] \in {"prune", "prune owner", "prune directory"} /\ pc[t] \in Settling
      /\ pc[t] \in Unjournaled /\ pc[t] \in RollingBack
      /\ UNCHANGED <<setting, journal, redirect, marker, entry, staged, live, leases>>
      /\ dir' = dir \/ \E left : dir' = [dir EXCEPT ![Target] = left]
  BY PointKinds DEF Prune, PruneOwner, PruneDirectory, Settle, disk, window, RollingBack, Pruning
<1>2. /\ TypeInv /\ control = t /\ Settles(pc[t]) /\ JournalOf(pc[t])
      /\ Target \in Roots /\ Target # Source /\ setting \in Roots
      /\ (~work.forward <=> setting = Source) /\ FilesKept /\ LeasesKept
  BY <1>1, SettleFacts
<1>3. journal = None /\ setting = Source
  BY <1>1, <1>2 DEF JournalOf, Settles
<1>4. LeasesKept'
  BY <1>1, <1>2, LeasesStay
<1>5. FilesKept'
  <2>1. dir'[setting] = dir[setting]
    BY <1>1, <1>2, <1>3 DEF TypeInv, DiskTypes
  <2>2. QED
    BY <1>1, <1>2, <1>3, <2>1 DEF FilesKept, CacheFollowsSetting, SettingOwned, JournalKept,
       SelectedOpens
<1>6. CASE Settled(t)
  <2>1. control' = None
    BY <1>2, <1>6 DEF Settled, ReleaseLocks
  <2>2. QED
    BY <1>4, <1>5, <2>1 DEF HolderKeeps
<1>7. CASE ~Settled(t)
  <2> PICK p \in {"prune owner", "prune directory"} : Goto(t, p) /\ UNCHANGED <<control, work>>
    BY <1>7 DEF Prune, PruneOwner, PruneDirectory, Settle, locks
  <2>1. JournalOf(p)'
    BY <1>1, <1>3, PointKinds DEF JournalOf
  <2>2. Settles(p)'
    BY <1>1, <1>2, PointKinds DEF Settles, Source, Target, Other
  <2>3. RollsBack(p)' /\ Finishes(p)'
    BY DEF RollsBack, Finishes, RolledBackOnes, CleanedOnes
  <2>4. QED
    BY <1>1, <1>4, <1>5, <2>1, <2>2, <2>3, PointKinds, SettleGoes
<1>8. QED
  BY <1>6, <1>7

-----------------------------------------------------------------------------
(* The theorems *)

LEMMA MoveSafe ==
  ASSUME MoveInvariant, NEW w \in Windows, StartMove(w) \/ MoverNext(w) \/ Abandon(w) \/ Crash(w)
  PROVE  FilesKept' /\ LeasesKept' /\ HolderKeeps'
<1>1. TypeInv
  BY DEF MoveInvariant
<1>2. CASE StartMove(w) \/ Preview(w) \/ Reopen(w)
  <2>1. UNCHANGED disk /\ HolderStays /\ leases' = leases
    BY <1>1, <1>2, MoverStays, DiskUntouched
  <2>2. QED
    BY <2>1, FilesUntouched
<1>3. CASE Crash(w)
  BY <1>1, <1>3, CrashStays, FilesUntouched
<1>4. CASE TakeControl(w) \/ Install(w)
  BY <1>4, TakesControl, OpensSafe
<1>5. QED
  BY <1>2, <1>3, <1>4, CheckSafe, CreateSafe, OwnSafe, LockSafe, JournalSafe, MarkSafe, CopySafe,
     CopiedSafe, AbandonSafe, RedirectSafe, CommitSafe DEF MoverNext

LEMMA SettleSafe ==
  ASSUME MoveInvariant, NEW t \in Threads, SettleNext(t) \/ Fail(t) \/ CleanFails(t)
  PROVE  FilesKept' /\ LeasesKept' /\ HolderKeeps'
<1>1. TypeInv
  BY DEF MoveInvariant
<1>2. CASE Fail(t)
  BY <1>1, <1>2, FailStays, FilesUntouched
<1>3. QED
  BY <1>2, RollBackSafe, RolledBackSafe, UndoSafe, RestoreSafe, VerifySafe, CleanSafe, RemoveSafe,
     CleanedSafe, UntagSafe, UnmarkSafe, DropSafe, PruneSafe, CleanFailsSafe DEF SettleNext

LEMMA CallSafe ==
  ASSUME MoveInvariant, NEW c \in Windows \X Callers, BeginQuery(c) \/ BeginUpdate(c) \/ CallNext(c)
  PROVE  FilesKept' /\ LeasesKept' /\ HolderKeeps'
<1>1. TypeInv
  BY DEF MoveInvariant
<1>2. CASE BeginQuery(c) \/ TakeMutex(c) \/ Read(c) \/ BeginUpdate(c)
  <2>1. UNCHANGED disk /\ HolderStays /\ leases' = leases
    BY <1>1, <1>2, CallerStays, DiskUntouched
  <2>2. QED
    BY <2>1, FilesUntouched
<1>3. QED
  BY <1>2, TakesControl, OpensSafe, InspectSafe DEF CallNext

LEMMA MoveInvariantStep == MoveInvariant /\ [Next]_vars => MoveInvariant'
<1> SUFFICES ASSUME MoveInvariant, [Next]_vars  PROVE MoveInvariant'
  OBVIOUS
<1>1. TypeInv'
  BY TypesStep DEF MoveInvariant
<1>2. CASE Next
  <2>1. FilesKept' /\ LeasesKept' /\ HolderKeeps'
    <3>1. ASSUME NEW w \in Windows, StartMove(w) \/ MoverNext(w) \/ Abandon(w) \/ Crash(w)
          PROVE  FilesKept' /\ LeasesKept' /\ HolderKeeps'
      BY <3>1, MoveSafe
    <3>2. ASSUME NEW t \in Threads, SettleNext(t) \/ Fail(t) \/ CleanFails(t)
          PROVE  FilesKept' /\ LeasesKept' /\ HolderKeeps'
      BY <3>2, SettleSafe
    <3>3. ASSUME NEW c \in Windows \X Callers, BeginQuery(c) \/ BeginUpdate(c) \/ CallNext(c)
          PROVE  FilesKept' /\ LeasesKept' /\ HolderKeeps'
      BY <3>3, CallSafe
    <3>4. ASSUME NEW w \in Windows, NEW r \in Roots, NEW k \in Keys,
                 Lookup(w, r, k) \/ Release(w, r, k) \/ Publish(w, r, k)
          PROVE  FilesKept' /\ LeasesKept' /\ HolderKeeps'
      BY <3>4, UseSafe
    <3>5. ASSUME NEW w \in Windows, NEW r \in Roots, Reclaim(w, r) \/ ClearInactive(w, r)
          PROVE  FilesKept' /\ LeasesKept' /\ HolderKeeps'
      <4>1. PICK k : k \in Keys
        BY <3>5 DEF Reclaim, ClearInactive, Evictable
      <4>2. QED
        BY <3>5, <4>1, UseSafe
    <3>6. QED
      BY <1>2, <3>1, <3>2, <3>3, <3>4, <3>5 DEF Next
  <2>2. QED
    BY <1>1, <2>1 DEF MoveInvariant
<1>3. CASE UNCHANGED vars
  <2>1. UNCHANGED disk /\ HolderStays /\ leases' = leases
    BY <1>3 DEF vars, locks, window, HolderStays
  <2>2. QED
    BY <1>1, <2>1, FilesUntouched DEF MoveInvariant
<1>4. QED
  BY <1>2, <1>3

LEMMA MoveInvariantAlways == Spec => []MoveInvariant
BY MoveInvariantInit, MoveInvariantStep, PTL DEF Spec

\* Whatever is interrupted, refused or cancelled, and whichever window ends when: every
\* entry of the cache is whole in the root that the saved settings name.  Before the settings
\* are saved nothing of the source is touched and nobody leases from it, so every copy is
\* whole when they are; afterwards only the source loses entries.
THEOREM CacheFollowsSettingAlways == Spec => []CacheFollowsSetting
<1>1. MoveInvariant => CacheFollowsSetting
  BY DEF MoveInvariant, FilesKept
<1>2. QED
  BY <1>1, MoveInvariantAlways, PTL

\* An entry that a window leases keeps its files, whichever window moves the cache: only
\* entries of the selected root are leased, and a move begins to write only when none is.
THEOREM LeasedWholeAlways == Spec => []LeasedWhole
<1>1. MoveInvariant => LeasedWhole
  BY DEF MoveInvariant, LeasesKept
<1>2. QED
  BY <1>1, MoveInvariantAlways, PTL

\* The journal goes last: with it go every mark, tag and staged entry of the move, and the
\* root that the settings name can be opened.
THEOREM SelectedOpensAlways == Spec => []SelectedOpens
<1>1. MoveInvariant => SelectedOpens
  BY DEF MoveInvariant, FilesKept
<1>2. QED
  BY <1>1, MoveInvariantAlways, PTL

=============================================================================
