--------------------------- MODULE DocumentRegistry ---------------------------
(***************************************************************************)
(* The registry of open documents of the backend                           *)
(* (src-tauri/src/platform/session.rs, DocumentRegistry<T>).               *)
(*                                                                         *)
(* The registry mutex guards the path index, the reservations, the open    *)
(* documents and the tombstones of closed ones.  Every document has a      *)
(* mutex of its own for its session, its source and its page cache.  A     *)
(* thread never holds a lock across file I/O, so each operation is a       *)
(* sequence of critical sections; each of them is one action here.  Only   *)
(* `close` takes the registry mutex while it holds a document's mutex, so  *)
(* only that mutex has a variable (docLock).                               *)
(*                                                                         *)
(* Identifiers are numbers counted from 1 as in the code (the text         *)
(* "document-7" is the number 7); None stands for an absent one.           *)
(***************************************************************************)
EXTENDS Integers, Sequences, FiniteSets

CONSTANTS
  Threads,             \* threads that run backend commands
  Paths,               \* canonical keys of files
  Keys,                \* page cache keys (offset, limit, columns)
  MaxDocId,            \* bound on the document ids ever allocated
  MaxSessionId,        \* bound on the session ids ever allocated
  MaxReads,            \* bound on the page reads ever started
  DocumentLimit,       \* DOCUMENT_LIMIT (64)
  PageCacheCapacity,   \* PAGE_CACHE_CAPACITY (8), per document
  TotalCacheCapacity   \* TOTAL_PAGE_CACHE_CAPACITY (64), all documents

ASSUME BoundsAssumption ==
  /\ MaxDocId \in Nat /\ MaxSessionId \in Nat /\ MaxReads \in Nat
  /\ DocumentLimit \in Nat
  /\ PageCacheCapacity \in Nat \ {0}
  /\ TotalCacheCapacity \in Nat \ {0}

VARIABLES
  next_document_id, next_session_id,
  documents,           \* ids in the `documents` map
  entry,               \* the DocumentEntry of each id; it outlives its removal
                       \* from the map while a thread still holds the Arc
  paths,               \* canonical key -> open document
  reservations,        \* canonical key -> reserved document id
  closed_documents,    \* tombstones: document -> sessions known at its close
  docLock,             \* the thread that holds a document's mutex across steps
  access_clock,
  reads,               \* page reads started (for the bound MaxReads)
  issued,              \* sessions ever installed for a document: the ones a
                       \* client can know and send back
  pc, local            \* control point and local variables of each thread

None == 0
DocIds == 1..MaxDocId
SessionIds == 1..MaxSessionId

vars == <<next_document_id, next_session_id, documents, entry, paths,
          reservations, closed_documents, docLock, access_clock, reads, issued,
          pc, local>>
registry == <<next_document_id, next_session_id, documents, paths,
              reservations, closed_documents>>
clocks == <<access_clock, reads>>

-----------------------------------------------------------------------------
(* Types *)

\* A source is named by the session it was installed for, whether or not that
\* installation has happened yet.
Sources == 0..MaxSessionId

CachedPages == [key : Keys, source : Sources, last_access : Nat]

DocumentEntries == [path : Paths \union {None}, session_id : Sources,
                    previous_session_id : Sources, source : Sources,
                    page_cache : Seq(CachedPages)]

NoEntry == [path |-> None, session_id |-> None, previous_session_id |-> None,
            source |-> None, page_cache |-> <<>>]

Ops == {"none", "open", "source", "page", "replace", "close"}

Results == {"none", "Ok", "Closed", "StaleSession", "LimitReached",
            "LoadFailed", "Cancelled"}

ControlPoints == {"idle", "waiting", "reserve", "reserved", "identity",
                  "lock", "load", "alloc", "swap",
                  "close_tomb", "close_lock", "close_remove",
                  "v_entry", "v_lock", "trim_snapshot", "trim", "done"}

\* The locals of a command.  doc/session/path/key are its arguments; got is the
\* source it works with (read from the entry, or freshly allocated by replace);
\* entries, todo, pages and oldest are those of trim_cache.
Locals == [op : Ops, path : Paths \union {None}, doc : 0..MaxDocId,
           session : Sources, key : Keys \union {None}, got : Sources,
           access : Nat, result : Results, entries : SUBSET DocIds,
           todo : SUBSET DocIds, pages : Nat, oldest : Nat,
           oldest_doc : 0..MaxDocId]

NoLocals == [op |-> "none", path |-> None, doc |-> None, session |-> None,
             key |-> None, got |-> None, access |-> 0, result |-> "none",
             entries |-> {}, todo |-> {}, pages |-> 0, oldest |-> 0,
             oldest_doc |-> None]

TypeOK ==
  /\ next_document_id \in 1..(MaxDocId + 1)
  /\ next_session_id \in 1..(MaxSessionId + 1)
  /\ documents \in SUBSET DocIds
  /\ entry \in [DocIds -> DocumentEntries]
  /\ paths \in [Paths -> 0..MaxDocId]
  /\ reservations \in [Paths -> 0..MaxDocId]
  /\ closed_documents \in [DocIds -> SUBSET SessionIds]
  /\ docLock \in [DocIds -> Threads \union {None}]
  /\ access_clock \in Nat
  /\ reads \in 0..MaxReads
  /\ issued \in [DocIds -> SUBSET SessionIds]
  /\ pc \in [Threads -> ControlPoints]
  /\ local \in [Threads -> Locals]

Init ==
  /\ next_document_id = 1
  /\ next_session_id = 1
  /\ documents = {}
  /\ entry = [d \in DocIds |-> NoEntry]
  /\ paths = [p \in Paths |-> None]
  /\ reservations = [p \in Paths |-> None]
  /\ closed_documents = [d \in DocIds |-> {}]
  /\ docLock = [d \in DocIds |-> None]
  /\ access_clock = 0
  /\ reads = 0
  /\ issued = [d \in DocIds |-> {}]
  /\ pc = [t \in Threads |-> "idle"]
  /\ local = [t \in Threads |-> NoLocals]

-----------------------------------------------------------------------------
(* Page cache of one document: a queue, least recently used page first *)

PageAt(cache, key) == CHOOSE i \in DOMAIN cache : cache[i].key = key

HasKey(cache, key) == \E i \in DOMAIN cache : cache[i].key = key

\* VecDeque::remove(index).
Removed(cache, i) == SubSeq(cache, 1, i - 1) \o SubSeq(cache, i + 1, Len(cache))

WithoutKey(cache, key) ==
  IF HasKey(cache, key) THEN Removed(cache, PageAt(cache, key)) ELSE cache

\* PageCache::get_at on a hit: the page moves to the back with a new access.
Touched(cache, key, access) ==
  Append(WithoutKey(cache, key),
         [cache[PageAt(cache, key)] EXCEPT !.last_access = access])

\* PageCache::insert_at: replace, append, drop from the front above capacity.
Inserted(cache, key, source, access) ==
  LET queue == Append(WithoutKey(cache, key),
                      [key |-> key, source |-> source, last_access |-> access])
  IN  IF Len(queue) > PageCacheCapacity THEN Tail(queue) ELSE queue

-----------------------------------------------------------------------------
(* Helpers of the actions *)

Reserved == {p \in Paths : reservations[p] # None}

Goto(t, point) == pc' = [pc EXCEPT ![t] = point]

\* Open and reserved documents count against the limit.
OpenAtLimit == Cardinality(documents) >= DocumentLimit  \* fault: forgets the reservations
AtLimit == Cardinality(documents) + Cardinality(Reserved) >= DocumentLimit

\* Neither open nor reserved.
Free(p) == paths[p] = None /\ reservations[p] = None

\* The command of t ends with this result.
Finish(t, outcome) ==
  /\ Goto(t, "done")
  /\ local' = [local EXCEPT ![t].result = outcome]

\* Fault: nobody is notified.
NotifyNone(t, point) == Goto(t, point)

\* reservation_changed.notify_all(): every waiter competes for the lock again;
\* t itself goes to the given point.
NotifyAll(t, point) ==
  pc' = [u \in Threads |-> IF u = t THEN point
                           ELSE IF pc[u] = "waiting" THEN "reserve" ELSE pc[u]]

Unlocked(d) == docLock[d] = None

\* Identifiers the commands in progress may still allocate: the bounds stop new
\* commands and never one that has begun (the guards on MaxDocId and
\* MaxSessionId where an id is allocated are never what blocks a command).
PendingDocs == {t \in Threads : pc[t] \in {"waiting", "reserve"}}
PendingSessions ==
  {t \in Threads : pc[t] \in {"waiting", "reserve", "reserved", "alloc"}}

MayAllocateDoc == next_document_id + Cardinality(PendingDocs) <= MaxDocId
MayAllocateSession == next_session_id + Cardinality(PendingSessions) <= MaxSessionId

-----------------------------------------------------------------------------
(* reserve_path, cancel_reservation, commit, identity *)

\* One turn of the loop of reserve_path under the registry mutex, for a thread
\* whose locals are l: join the open document, wait, fail, or reserve.
ReserveSection(t, l) ==
  LET p == l.path IN
  \/ /\ paths[p] # None
     /\ local' = [local EXCEPT ![t] = [l EXCEPT !.doc = paths[p]]]
     /\ Goto(t, "identity")
     /\ UNCHANGED <<reservations, next_document_id>>
  \/ /\ paths[p] = None /\ reservations[p] # None
     /\ local' = [local EXCEPT ![t] = l]
     /\ Goto(t, "waiting")
     /\ UNCHANGED <<reservations, next_document_id>>
  \/ /\ Free(p) /\ AtLimit
     /\ local' = [local EXCEPT ![t] = [l EXCEPT !.result = "LimitReached"]]
     /\ Goto(t, "done")
     /\ UNCHANGED <<reservations, next_document_id>>
  \/ /\ Free(p) /\ ~AtLimit
     /\ next_document_id <= MaxDocId
     /\ next_document_id' = next_document_id + 1
     /\ reservations' = [reservations EXCEPT ![p] = next_document_id]
     /\ local' = [local EXCEPT ![t] = [l EXCEPT !.doc = next_document_id]]
     /\ Goto(t, "reserved")

CallOpen(t, p) ==
  /\ pc[t] = "idle"
  /\ MayAllocateDoc /\ MayAllocateSession
  /\ ReserveSection(t, [NoLocals EXCEPT !.op = "open", !.path = p])
  /\ UNCHANGED <<next_session_id, documents, entry, paths, closed_documents,
                 docLock, clocks, issued>>

\* A woken waiter has the registry mutex again and takes another turn.
Reserve(t) ==
  /\ pc[t] = "reserve"
  /\ ReserveSection(t, local[t])
  /\ UNCHANGED <<next_session_id, documents, entry, paths, closed_documents,
                 docLock, clocks, issued>>

\* Condvar::wait may return without a notification.
SpuriousWakeup(t) ==
  /\ pc[t] = "waiting"
  /\ Goto(t, "reserve")
  /\ UNCHANGED <<registry, entry, docLock, clocks, issued, local>>

\* Fault: an error path returns and keeps the reservation.
ForgetReservation(t) ==
  /\ pc[t] = "reserved"
  /\ Finish(t, "Cancelled")
  /\ UNCHANGED <<registry, entry, docLock, clocks, issued>>

\* The preparation of the source failed or was cancelled.
CancelReservation(t) ==
  LET p == local[t].path IN
  /\ pc[t] = "reserved"
  /\ reservations[p] = local[t].doc
  /\ reservations' = [reservations EXCEPT ![p] = None]
  /\ NotifyAll(t, "done")
  /\ local' = [local EXCEPT ![t].result = "Cancelled"]
  /\ UNCHANGED <<next_document_id, next_session_id, documents, entry, paths,
                 closed_documents, docLock, clocks, issued>>

\* The first page of the new source enters the cache with it.  The early return
\* of a lost reservation is never taken (ReservationsOwned).
Commit(t, key) ==
  LET p == local[t].path
      d == local[t].doc
      s == next_session_id
  IN
  /\ pc[t] = "reserved"
  /\ reservations[p] = d
  /\ s <= MaxSessionId
  /\ next_session_id' = s + 1
  /\ access_clock' = access_clock + 1
  /\ entry' = [entry EXCEPT ![d] =
                 [path |-> p, session_id |-> s, previous_session_id |-> None,
                  source |-> s,
                  page_cache |-> Inserted(<<>>, key, s, access_clock + 1)]]
  /\ paths' = [paths EXCEPT ![p] = d]
  /\ documents' = documents \union {d}
  /\ reservations' = [reservations EXCEPT ![p] = None]
  /\ issued' = [issued EXCEPT ![d] = {s}]
  /\ local' = [local EXCEPT ![t].session = s, ![t].got = s]
  /\ NotifyAll(t, "trim_snapshot")
  /\ UNCHANGED <<next_document_id, closed_documents, docLock, reads>>

\* Opening an open path: report the session of the existing document.
Identity(t) ==
  LET d == local[t].doc IN
  /\ pc[t] = "identity"
  /\ Unlocked(d)
  /\ local' = [local EXCEPT ![t].session = entry[d].session_id]
  /\ Goto(t, "v_entry")
  /\ UNCHANGED <<registry, entry, docLock, clocks, issued>>

-----------------------------------------------------------------------------
(* with_source, get_or_load_page *)

\* entry(): the registry lookup that starts an operation on document d.
Lookup(t, call, point) ==
  IF call.doc \in documents
  THEN Goto(t, point) /\ local' = [local EXCEPT ![t] = call]
  ELSE Goto(t, "done") /\ local' = [local EXCEPT ![t] = [call EXCEPT !.result = "Closed"]]

Call(op, d, s) == [NoLocals EXCEPT !.op = op, !.doc = d, !.session = s]

CallSource(t, d, s) ==
  /\ pc[t] = "idle"
  /\ Lookup(t, Call("source", d, s), "lock")
  /\ UNCHANGED <<registry, entry, docLock, clocks, issued>>

\* The access number is drawn here, before any page is loaded.
CallPage(t, d, s, k) ==
  /\ pc[t] = "idle"
  /\ reads < MaxReads
  /\ reads' = reads + 1
  /\ access_clock' = IF d \in documents THEN access_clock + 1 ELSE access_clock
  /\ Lookup(t, [Call("page", d, s) EXCEPT !.key = k, !.access = access_clock'], "lock")
  /\ UNCHANGED <<registry, entry, docLock, issued>>

\* ensure_session under the document's mutex fails: the command ends.
LockStale(t) ==
  LET d == local[t].doc IN
  /\ pc[t] \in {"lock", "load", "swap", "v_lock"}
  /\ Unlocked(d)
  /\ entry[d].session_id # local[t].session
  /\ Finish(t, "StaleSession")
  /\ UNCHANGED <<registry, entry, docLock, clocks, issued>>

\* Fault: the session is not compared.
AnySession(t, point) == pc[t] = point /\ Unlocked(local[t].doc)

\* ensure_session holds in the critical section of t at this control point.
Session(t, point) ==
  /\ pc[t] = point
  /\ Unlocked(local[t].doc)
  /\ entry[local[t].doc].session_id = local[t].session

LockSource(t) ==
  /\ Session(t, "lock") /\ local[t].op = "source"
  /\ local' = [local EXCEPT ![t].got = entry[local[t].doc].source]
  /\ Goto(t, "v_entry")
  /\ UNCHANGED <<registry, entry, docLock, clocks, issued>>

PageHit(t) ==
  LET d == local[t].doc
      k == local[t].key
      cache == entry[d].page_cache
  IN
  /\ Session(t, "lock") /\ local[t].op = "page"
  /\ HasKey(cache, k)
  /\ local' = [local EXCEPT ![t].got = cache[PageAt(cache, k)].source]
  /\ entry' = [entry EXCEPT ![d].page_cache = Touched(cache, k, local[t].access)]
  /\ Goto(t, "v_entry")
  /\ UNCHANGED <<registry, docLock, clocks, issued>>

PageMiss(t) ==
  LET d == local[t].doc IN
  /\ Session(t, "lock") /\ local[t].op = "page"
  /\ ~HasKey(entry[d].page_cache, local[t].key)
  /\ local' = [local EXCEPT ![t].got = entry[d].source]
  /\ Goto(t, "load")
  /\ UNCHANGED <<registry, entry, docLock, clocks, issued>>

\* Fault: the page enters the cache without a second look at the session.
InsertUnchecked(t) ==
  LET d == local[t].doc IN
  /\ pc[t] = "load" /\ Unlocked(d)
  /\ entry' = [entry EXCEPT ![d].page_cache =
                 Inserted(@, local[t].key, local[t].got, local[t].access)]
  /\ Goto(t, "v_entry")
  /\ UNCHANGED <<registry, docLock, clocks, issued, local>>

\* The page was read from the source cloned earlier, with no lock held.
InsertPage(t) ==
  LET d == local[t].doc IN
  /\ Session(t, "load")
  /\ entry' = [entry EXCEPT ![d].page_cache =
                 Inserted(@, local[t].key, local[t].got, local[t].access)]
  /\ Goto(t, "v_entry")
  /\ UNCHANGED <<registry, docLock, clocks, issued, local>>

LoadFails(t) ==
  /\ Session(t, "load")
  /\ local' = [local EXCEPT ![t].result = "LoadFailed"]
  /\ Goto(t, "v_entry")
  /\ UNCHANGED <<registry, entry, docLock, clocks, issued>>

-----------------------------------------------------------------------------
(* validate: a lookup, then a comparison under the document's mutex *)

ValidateEntry(t) ==
  /\ pc[t] = "v_entry"
  /\ IF local[t].doc \in documents
     THEN Goto(t, "v_lock") /\ UNCHANGED local
     ELSE Finish(t, "Closed")
  /\ UNCHANGED <<registry, entry, docLock, clocks, issued>>

\* Only a page read goes on to trim_cache.
ValidateSession(t) ==
  /\ Session(t, "v_lock")
  /\ IF local[t].op = "page"
     THEN Goto(t, "trim_snapshot") /\ UNCHANGED local
     ELSE Finish(t, "Ok")
  /\ UNCHANGED <<registry, entry, docLock, clocks, issued>>

-----------------------------------------------------------------------------
(* replace_source *)

CallReplace(t, d, s) ==
  /\ pc[t] = "idle"
  /\ MayAllocateSession
  /\ Lookup(t, Call("replace", d, s), "alloc")
  /\ UNCHANGED <<registry, entry, docLock, clocks, issued>>

\* Fault: the next id is read and not advanced.
PeekSession(t) ==
  /\ pc[t] = "alloc"
  /\ local' = [local EXCEPT ![t].got = next_session_id]
  /\ Goto(t, "swap")
  /\ UNCHANGED <<registry, entry, docLock, clocks, issued>>

AllocateSession(t) ==
  /\ pc[t] = "alloc"
  /\ next_session_id <= MaxSessionId
  /\ next_session_id' = next_session_id + 1
  /\ local' = [local EXCEPT ![t].got = next_session_id]
  /\ Goto(t, "swap")
  /\ UNCHANGED <<next_document_id, documents, paths, reservations,
                 closed_documents, entry, docLock, clocks, issued>>

\* From here on the command stands for the new generation: validate is called
\* with it.
Swap(t) ==
  LET d == local[t].doc
      new == local[t].got
  IN
  /\ Session(t, "swap")
  /\ entry' = [entry EXCEPT ![d].session_id = new,
                            ![d].previous_session_id = entry[d].session_id,
                            ![d].source = new,
                            ![d].page_cache = <<>>]
  /\ issued' = [issued EXCEPT ![d] = @ \union {new}]
  /\ local' = [local EXCEPT ![t].session = new]
  /\ Goto(t, "v_entry")
  /\ UNCHANGED <<registry, docLock, clocks>>

-----------------------------------------------------------------------------
(* close *)

CallClose(t, d, s) ==
  /\ pc[t] = "idle"
  /\ local' = [local EXCEPT ![t] = Call("close", d, s)]
  /\ Goto(t, IF d \in documents THEN "close_lock" ELSE "close_tomb")
  /\ UNCHANGED <<registry, entry, docLock, clocks, issued>>

\* The document was closed before: the tombstone decides.
CloseTombstone(t) ==
  /\ pc[t] = "close_tomb"
  /\ Finish(t, IF local[t].session \in closed_documents[local[t].doc]
               THEN "Ok" ELSE "StaleSession")
  /\ UNCHANGED <<registry, entry, docLock, clocks, issued>>

\* Fault: an absent previous session counts as one.
AnyKnownSession(d) == {entry[d].session_id, entry[d].previous_session_id}

\* The session may be the current generation or the one before it.
KnownSessions(d) ==
  {entry[d].session_id, entry[d].previous_session_id} \ {None}

CloseLock(t) ==
  LET d == local[t].doc IN
  /\ pc[t] = "close_lock"
  /\ Unlocked(d)
  /\ local[t].session \in KnownSessions(d)
  /\ docLock' = [docLock EXCEPT ![d] = t]
  /\ Goto(t, "close_remove")
  /\ UNCHANGED <<registry, entry, clocks, issued, local>>

CloseStale(t) ==
  LET d == local[t].doc IN
  /\ pc[t] = "close_lock"
  /\ Unlocked(d)
  /\ local[t].session \notin KnownSessions(d)
  /\ Finish(t, "StaleSession")
  /\ UNCHANGED <<registry, entry, docLock, clocks, issued>>

\* Faults: a document that another close removed is removed again; the path goes
\* and the document stays.
CloseAgain(t) ==
  LET d == local[t].doc IN
  /\ pc[t] = "close_remove"
  /\ docLock' = [docLock EXCEPT ![d] = None]
  /\ paths' = [paths EXCEPT ![entry[d].path] = None]
  /\ documents' = documents \ {d}
  /\ closed_documents' = [closed_documents EXCEPT ![d] = KnownSessions(d)]
  /\ Finish(t, "Ok")
  /\ UNCHANGED <<next_document_id, next_session_id, reservations, entry, clocks, issued>>

\* Registry mutex inside the document's mutex.
CloseRemove(t) ==
  LET d == local[t].doc IN
  /\ pc[t] = "close_remove"
  /\ docLock' = [docLock EXCEPT ![d] = None]
  /\ \/ /\ d \notin documents
        /\ Finish(t, "Closed")
        /\ UNCHANGED registry
     \/ /\ d \in documents
        /\ paths' = [paths EXCEPT ![entry[d].path] = None]
        /\ documents' = documents \ {d}
        /\ closed_documents' = [closed_documents EXCEPT ![d] = KnownSessions(d)]
        /\ Finish(t, "Ok")
        /\ UNCHANGED <<next_document_id, next_session_id, reservations>>
  /\ UNCHANGED <<entry, clocks, issued>>

-----------------------------------------------------------------------------
(* trim_cache: one document's mutex at a time, over a snapshot of the map *)

AlmostOverBudget(l) == l.pages > TotalCacheCapacity + 1  \* fault: off by one
OverBudget(l) == l.pages > TotalCacheCapacity

PassStarts(l, entries) ==
  [l EXCEPT !.entries = entries, !.todo = entries, !.pages = 0,
            !.oldest = 0, !.oldest_doc = None]

TrimSnapshot(t) ==
  /\ pc[t] = "trim_snapshot"
  /\ local' = [local EXCEPT ![t] = PassStarts(@, documents)]
  /\ Goto(t, "trim")
  /\ UNCHANGED <<registry, entry, docLock, clocks, issued>>

\* usage() and oldest_access() of one document of the pass, in map order.
TrimCount(t, d) ==
  LET cache == entry[d].page_cache
      l == local[t]
      older == /\ cache # <<>>
               /\ l.oldest_doc = None \/ Head(cache).last_access < l.oldest
  IN
  /\ pc[t] = "trim"
  /\ d \in l.todo
  /\ Unlocked(d)
  /\ local' = [local EXCEPT
       ![t].todo = @ \ {d},
       ![t].pages = @ + Len(cache),
       ![t].oldest = IF older THEN Head(cache).last_access ELSE @,
       ![t].oldest_doc = IF older THEN d ELSE @]
  /\ UNCHANGED <<registry, entry, docLock, clocks, issued, pc>>

\* Too many pages: pop_oldest on the document found, then another pass.
TrimPop(t) ==
  LET d == local[t].oldest_doc IN
  /\ pc[t] = "trim"
  /\ local[t].todo = {} /\ OverBudget(local[t])
  /\ Unlocked(d)
  /\ entry' = [entry EXCEPT ![d].page_cache = IF @ = <<>> THEN @ ELSE Tail(@)]
  /\ local' = [local EXCEPT ![t] = PassStarts(@, local[t].entries)]
  /\ UNCHANGED <<registry, docLock, clocks, issued, pc>>

TrimStop(t) ==
  LET l == PassStarts(local[t], {})
      outcome == IF l.result = "none" THEN "Ok" ELSE l.result
  IN
  /\ pc[t] = "trim"
  /\ local[t].todo = {} /\ ~OverBudget(local[t])
  /\ local' = [local EXCEPT ![t] = [l EXCEPT !.result = outcome]]
  /\ Goto(t, "done")
  /\ UNCHANGED <<registry, entry, docLock, clocks, issued>>

-----------------------------------------------------------------------------

\* The caller takes the result; the locals die with the call.
Return(t) ==
  /\ pc[t] = "done"
  /\ Goto(t, "idle")
  /\ local' = [local EXCEPT ![t] = NoLocals]
  /\ UNCHANGED <<registry, entry, docLock, clocks, issued>>

CallOnDocument(t) ==
  \E d \in DocIds : \E s \in issued[d] :
    \/ CallSource(t, d, s)
    \/ \E k \in Keys : CallPage(t, d, s, k)
    \/ CallReplace(t, d, s)
    \/ CallClose(t, d, s)

CallAny(t) == (\E p \in Paths : CallOpen(t, p)) \/ CallOnDocument(t)

\* The caller decides how the preparation of a reserved source ends; whatever
\* else a command has begun continues by itself.
Settle(t) == CancelReservation(t) \/ \E k \in Keys : Commit(t, k)

Step(t) ==
  \/ Reserve(t) \/ Settle(t) \/ Identity(t)
  \/ LockStale(t) \/ LockSource(t)
  \/ PageHit(t) \/ PageMiss(t) \/ InsertPage(t) \/ LoadFails(t)
  \/ ValidateEntry(t) \/ ValidateSession(t)
  \/ AllocateSession(t) \/ Swap(t)
  \/ CloseTombstone(t) \/ CloseLock(t) \/ CloseStale(t) \/ CloseRemove(t)
  \/ TrimSnapshot(t) \/ (\E d \in DocIds : TrimCount(t, d)) \/ TrimPop(t) \/ TrimStop(t)
  \/ Return(t)

Next == \E t \in Threads : CallAny(t) \/ Step(t) \/ SpuriousWakeup(t)

\* A thread inside a command is scheduled again and a file is read in finite
\* time; nobody has to issue a command.
Fairness == \A t \in Threads : WF_vars(Step(t))

Spec == Init /\ [][Next]_vars
FairSpec == Spec /\ Fairness

-----------------------------------------------------------------------------
(* Properties *)

\* A canonical path leads to at most one document and an open document is
\* reached by its path; a path is never open and reserved at once, and two
\* paths never share a reserved id (reserve_path, commit, close).
OneDocumentPerPath ==
  /\ \A p \in Paths :
       /\ paths[p] # None => paths[p] \in documents /\ entry[paths[p]].path = p
       /\ reservations[p] # None => /\ paths[p] = None
                                    /\ reservations[p] \notin documents
  /\ \A d \in documents : entry[d].path \in Paths /\ paths[entry[d].path] = d
  /\ \A p, q \in Reserved : reservations[p] = reservations[q] => p = q

\* Open and reserved documents together never exceed DOCUMENT_LIMIT, although
\* commands that reserve and commands that commit interleave.
WithinDocumentLimit ==
  Cardinality(documents) + Cardinality(Reserved) <= DocumentLimit

\* A thread between reserve_path and commit owns the reservation of its path:
\* the early return of commit for a lost reservation is never taken.
ReservationsOwned ==
  \A t \in Threads :
    pc[t] = "reserved" => reservations[local[t].path] = local[t].doc

\* Every reservation belongs to a command that will commit or cancel it: no
\* waiter of the condition variable waits for nobody.
ReservationsHeld ==
  \A p \in Reserved :
    \E t \in Threads : pc[t] = "reserved" /\ local[t].path = p

\* A command that waits on the condition variable has somebody to wake it: no
\* notification comes between its look at the reservations and its wait.
NoLostWakeup ==
  \A t \in Threads : pc[t] = "waiting" =>
    \E u \in Threads : pc[u] = "reserved" /\ local[u].path = local[t].path

\* Whatever reads, replacements and closes overlap, a cached page was read from
\* the source the document has now.
CachedPagesCurrent ==
  \A d \in DocIds : \A i \in DOMAIN entry[d].page_cache :
    entry[d].page_cache[i].source = entry[d].source

\* What a read returns comes from the generation the caller asked for.
ResultsMatchRequest ==
  \A t \in Threads :
    pc[t] = "done" /\ local[t].result = "Ok" /\ local[t].op \in {"source", "page"}
      => local[t].got = local[t].session

\* A closed document never comes back: no path or reservation leads to it
\* again and its tombstone keeps the sessions it was closed with.
ClosedForGood ==
  [][\A d \in DocIds : closed_documents[d] # {} =>
       /\ d \notin documents'
       /\ closed_documents'[d] = closed_documents[d]
       /\ \A p \in Paths : paths'[p] # d /\ reservations'[p] # d]_vars

\* So many documents may be open.
Fits(docs) == Cardinality(docs) <= DocumentLimit

\* The registry is one atomic map of open documents: every step of a command is
\* invisible in it, or opens, replaces or closes one document at once (commit,
\* replace_source, close).
Documents == INSTANCE OpenDocuments WITH
  Documents <- DocIds, Sessions <- SessionIds, Files <- Paths,
  Fits <- Fits,
  open <- [d \in documents |->
             [file |-> entry[d].path, session |-> entry[d].session_id]],
  closed <- {d \in DocIds : closed_documents[d] # {}}

Atomic == Documents!Spec

\* Commands between an insertion into a page cache and the end of their trim.
OwesTrim == {t \in Threads : \/ pc[t] \in {"trim_snapshot", "trim"}
                             \/ pc[t] \in {"v_entry", "v_lock"} /\ local[t].op = "page"}

\* The pages cached by all open documents, by document and position.
OpenPages == UNION {{d} \X DOMAIN entry[d].page_cache : d \in documents}

\* Trimming counts one document at a time while others insert, stops early and
\* is skipped when validation fails; still the open documents exceed the total
\* capacity by at most one page per command that has yet to finish its trim.
WithinPageBudget ==
  Cardinality(OpenPages) <= TotalCacheCapacity + Cardinality(OwesTrim)

\* Every command returns: a waiter is woken, a close does not deadlock with the
\* other lock order, trim_cache stops.
CommandsReturn == \A t \in Threads : pc[t] # "idle" ~> pc[t] = "idle"

-----------------------------------------------------------------------------
(* The inductive invariant behind the properties (DocumentRegistryProofs) *)

\* What the locals hold at each control point.
ArgumentsOK ==
  \A t \in Threads :
    /\ pc[t] \in {"waiting", "reserve", "reserved", "identity"} =>
         local[t].op = "open" /\ local[t].path \in Paths
    /\ pc[t] \in {"reserved", "identity", "lock", "load", "alloc", "swap",
                  "close_tomb", "close_lock", "close_remove", "v_entry", "v_lock"}
         => local[t].doc \in DocIds
    /\ pc[t] = "lock" => local[t].op \in {"source", "page"}
    /\ pc[t] = "load" => local[t].op = "page"
    /\ pc[t] \in {"lock", "load"} /\ local[t].op = "page" => local[t].key \in Keys
    /\ pc[t] = "swap" => local[t].got \in SessionIds
    /\ pc[t] \in {"close_tomb", "close_lock", "close_remove"} => local[t].op = "close"

\* Who owns which document id: an id below next_document_id is reserved for one
\* path by one command, or open under one path, or closed, or given up.
IdentifiersOwned ==
  /\ ReservationsOwned
  /\ \A t, u \in Threads :
       /\ t # u /\ pc[t] = "reserved" /\ pc[u] = "reserved"
       => local[t].path # local[u].path
  /\ \A d \in documents : d < next_document_id
  /\ \A p \in Paths : reservations[p] < next_document_id
  /\ \A d \in DocIds : closed_documents[d] # {} =>
       /\ d \notin documents /\ d < next_document_id
       /\ \A p \in Paths : reservations[p] # d
  /\ \A d \in documents : entry[d].session_id \in SessionIds

\* A read holds the source of the session it was asked for, from the moment it
\* compared the session under the document's mutex.
ReadsHoldTheirSource ==
  /\ \A d \in DocIds : entry[d].source = entry[d].session_id
  /\ \A t \in Threads :
       /\ \/ pc[t] = "load"
          \/ /\ pc[t] \in {"v_entry", "v_lock", "trim_snapshot", "trim"}
             /\ local[t].op \in {"source", "page"}
       => local[t].got = local[t].session

RegistryInvariant ==
  TypeOK /\ ArgumentsOK /\ IdentifiersOwned /\ OneDocumentPerPath

PageInvariant ==
  TypeOK /\ ArgumentsOK /\ ReadsHoldTheirSource
  /\ CachedPagesCurrent /\ ResultsMatchRequest

===============================================================================
