------------------------- MODULE DocumentRegistryProofs ------------------------
(***************************************************************************)
(* What TLAPS proves of DocumentRegistry for every set of threads, paths   *)
(* and page keys and every capacity.                                       *)
(***************************************************************************)
EXTENDS DocumentRegistry, FiniteSetTheorems, SequenceTheorems, TLAPS

-----------------------------------------------------------------------------
(* The page cache operations *)

\* Removing one element of a queue leaves the other ones.
LEMMA RemovedType ==
  ASSUME NEW S, NEW cache \in Seq(S), NEW i \in DOMAIN cache
  PROVE  /\ Removed(cache, i) \in Seq(S)
         /\ Len(Removed(cache, i)) = Len(cache) - 1
         /\ \A j \in DOMAIN Removed(cache, i) :
              \E k \in DOMAIN cache : Removed(cache, i)[j] = cache[k]
<1>1. /\ i \in 1..Len(cache) /\ DOMAIN cache = 1..Len(cache)
      /\ Len(cache) \in Nat /\ i \in Int
  OBVIOUS
<1> DEFINE front == SubSeq(cache, 1, i - 1)
           back == SubSeq(cache, i + 1, Len(cache))
<1>2. /\ front \in Seq(S) /\ Len(front) = i - 1
      /\ \A j \in 1..(i - 1) : front[j] = cache[j]
  BY <1>1
<1>3. /\ back \in Seq(S) /\ Len(back) = Len(cache) - i
      /\ \A j \in 1..(Len(cache) - i) : back[j] = cache[i + j]
  BY <1>1
<1> HIDE DEF front, back
<1>4. /\ front \o back \in Seq(S)
      /\ Len(front \o back) = Len(cache) - 1
  <2>1. Len(front \o back) = (i - 1) + (Len(cache) - i)
    BY <1>2, <1>3, ConcatProperties
  <2>2. QED
    BY <1>1, <1>2, <1>3, <2>1, ConcatProperties
<1>5. ASSUME NEW j \in 1..(Len(cache) - 1)
      PROVE  \E k \in DOMAIN cache : (front \o back)[j] = cache[k]
  <2>1. CASE j < i
    <3>1. (front \o back)[j] = front[j]
      BY <2>1, <1>1, <1>2, <1>3
    <3>2. front[j] = cache[j]
      BY <2>1, <1>1, <1>2
    <3>3. QED
      BY <3>1, <3>2
  <2>2. CASE j >= i
    <3>1. (front \o back)[j] = back[j - (i - 1)]
      BY <2>2, <1>1, <1>2, <1>3
    <3>2. back[j - (i - 1)] = cache[i + (j - (i - 1))]
      BY <2>2, <1>1, <1>3
    <3>3. i + (j - (i - 1)) \in DOMAIN cache
      BY <2>2, <1>1
    <3>4. QED
      BY <3>1, <3>2, <3>3
  <2>3. j \in Int
    OBVIOUS
  <2>4. j < i \/ j >= i
    BY <2>3, <1>1
  <2>5. QED
    BY <2>1, <2>2, <2>4
<1>6. Removed(cache, i) = front \o back
  BY DEF Removed, front, back
<1>7. DOMAIN (front \o back) = 1..(Len(cache) - 1)
  BY <1>4
<1>8. QED
  BY <1>4, <1>5, <1>6, <1>7

\* A cached key has a position.
LEMMA PageAtPosition ==
  ASSUME NEW cache, NEW key, HasKey(cache, key)
  PROVE  PageAt(cache, key) \in DOMAIN cache
BY DEF HasKey, PageAt

\* Without a key, the other pages remain as they are.
LEMMA WithoutKeyPages ==
  ASSUME NEW cache \in Seq(CachedPages), NEW key
  PROVE  /\ WithoutKey(cache, key) \in Seq(CachedPages)
         /\ \A j \in DOMAIN WithoutKey(cache, key) :
              \E k \in DOMAIN cache : WithoutKey(cache, key)[j] = cache[k]
<1>1. CASE HasKey(cache, key)
  BY <1>1, PageAtPosition, RemovedType DEF WithoutKey
<1>2. CASE ~HasKey(cache, key)
  BY <1>2 DEF WithoutKey
<1>3. QED
  BY <1>1, <1>2

\* insert_at yields a cache of pages, each the new one or a page it held.
LEMMA InsertedPages ==
  ASSUME NEW cache \in Seq(CachedPages), NEW key \in Keys, NEW source \in Sources,
         NEW access \in Nat
  PROVE  /\ Inserted(cache, key, source, access) \in Seq(CachedPages)
         /\ \A j \in DOMAIN Inserted(cache, key, source, access) :
              \/ Inserted(cache, key, source, access)[j].source = source
              \/ \E k \in DOMAIN cache :
                   Inserted(cache, key, source, access)[j] = cache[k]
<1> DEFINE page == [key |-> key, source |-> source, last_access |-> access]
           rest == WithoutKey(cache, key)
           queue == Append(rest, page)
<1>1. page \in CachedPages /\ page.source = source
  BY DEF CachedPages
<1>2. /\ rest \in Seq(CachedPages)
      /\ \A j \in DOMAIN rest : \E k \in DOMAIN cache : rest[j] = cache[k]
  BY WithoutKeyPages
<1> HIDE DEF page, rest
<1>3. /\ queue \in Seq(CachedPages) /\ Len(queue) = Len(rest) + 1
      /\ \A j \in 1..Len(rest) : queue[j] = rest[j]
      /\ queue[Len(rest) + 1] = page
  BY <1>1, <1>2
<1>4. \A j \in 1..Len(queue) :
        \/ queue[j].source = source
        \/ \E k \in DOMAIN cache : queue[j] = cache[k]
  BY <1>1, <1>2, <1>3
<1> HIDE DEF queue
<1>5. /\ Len(queue) > 0
      /\ Tail(queue) \in Seq(CachedPages)
      /\ Len(Tail(queue)) = Len(queue) - 1
      /\ \A j \in 1..(Len(queue) - 1) : Tail(queue)[j] = queue[j + 1]
  BY <1>2, <1>3
<1>6. /\ Inserted(cache, key, source, access)
           = IF Len(queue) > PageCacheCapacity THEN Tail(queue) ELSE queue
  BY DEF Inserted, queue, rest, page
<1>7. CASE Len(queue) > PageCacheCapacity
  BY <1>3, <1>4, <1>5, <1>6, <1>7
<1>8. CASE ~(Len(queue) > PageCacheCapacity)
  BY <1>3, <1>4, <1>6, <1>8
<1>9. QED
  BY <1>7, <1>8

\* get_at on a hit yields a cache of the same pages.
LEMMA TouchedPages ==
  ASSUME NEW cache \in Seq(CachedPages), NEW key, HasKey(cache, key), NEW access \in Nat
  PROVE  /\ Touched(cache, key, access) \in Seq(CachedPages)
         /\ \A j \in DOMAIN Touched(cache, key, access) :
              \E k \in DOMAIN cache : Touched(cache, key, access)[j].source = cache[k].source
<1> DEFINE hit == cache[PageAt(cache, key)]
           page == [hit EXCEPT !.last_access = access]
           rest == WithoutKey(cache, key)
<1>1. PageAt(cache, key) \in DOMAIN cache
  BY PageAtPosition
<1>2. hit \in CachedPages
  BY <1>1
<1>3. page \in CachedPages /\ page.source = hit.source
  BY <1>2 DEF CachedPages
<1>4. /\ rest \in Seq(CachedPages)
      /\ \A j \in DOMAIN rest : \E k \in DOMAIN cache : rest[j] = cache[k]
  BY WithoutKeyPages
<1>5. Touched(cache, key, access) = Append(rest, page)
  BY DEF Touched
<1>6. \E k \in DOMAIN cache : page.source = cache[k].source
  BY <1>1, <1>3
<1> HIDE DEF rest, page
<1>7. /\ Append(rest, page) \in Seq(CachedPages)
      /\ Len(Append(rest, page)) = Len(rest) + 1
      /\ \A j \in 1..Len(rest) : Append(rest, page)[j] = rest[j]
      /\ Append(rest, page)[Len(rest) + 1] = page
  BY <1>3, <1>4
<1>8. \A j \in 1..(Len(rest) + 1) :
        \E k \in DOMAIN cache : Append(rest, page)[j].source = cache[k].source
  BY <1>4, <1>6, <1>7
<1>9. QED
  BY <1>5, <1>7, <1>8

-----------------------------------------------------------------------------
(* Types *)

\* What every step of a command does to the locals keeps them typed.
LEMMA NoLocalsType == NoLocals \in Locals
<1>1. 0 \in 0..MaxDocId /\ 0 \in 0..MaxSessionId
  BY BoundsAssumption
<1>2. QED
  BY <1>1 DEF NoLocals, Locals, Ops, Results, Sources, None

LEMMA CallType ==
  ASSUME NEW op \in Ops, NEW d \in DocIds, NEW s \in SessionIds
  PROVE  /\ Call(op, d, s) \in Locals
         /\ Call(op, d, s).op = op /\ Call(op, d, s).doc = d
         /\ Call(op, d, s).session = s /\ Call(op, d, s).result = "none"
         /\ Call(op, d, s).got = None
<1>1. d \in 0..MaxDocId /\ s \in Sources
  BY BoundsAssumption DEF DocIds, SessionIds, Sources
<1>2. QED
  BY <1>1, NoLocalsType DEF Call, NoLocals, Locals

\* Assigning one local variable of its type.
LEMMA AssignDoc ==
  ASSUME NEW l \in Locals, NEW d \in 0..MaxDocId
  PROVE  /\ [l EXCEPT !.doc = d] \in Locals
         /\ [l EXCEPT !.doc = d].doc = d
         /\ [l EXCEPT !.doc = d].op = l.op /\ [l EXCEPT !.doc = d].path = l.path
BY DEF Locals

\* A pass of trim_cache starts with typed locals.
LEMMA PassStartsType ==
  ASSUME NEW l \in Locals, NEW entries \in SUBSET DocIds
  PROVE  PassStarts(l, entries) \in Locals
<1>1. 0 \in 0..MaxDocId
  BY BoundsAssumption
<1>2. QED
  BY <1>1 DEF PassStarts, Locals, None

LEMMA AssignResult ==
  ASSUME NEW l \in Locals, NEW r \in Results
  PROVE  /\ [l EXCEPT !.result = r] \in Locals
         /\ [l EXCEPT !.result = r].result = r
         /\ [l EXCEPT !.result = r].op = l.op /\ [l EXCEPT !.result = r].path = l.path
         /\ [l EXCEPT !.result = r].doc = l.doc /\ [l EXCEPT !.result = r].got = l.got
         /\ [l EXCEPT !.result = r].session = l.session
         /\ [l EXCEPT !.result = r].key = l.key
BY DEF Locals

\* A turn of the loop of reserve_path.
LEMMA ReserveSectionTypes ==
  ASSUME TypeOK, NEW t \in Threads, NEW l \in Locals,
         l.op = "open", l.path \in Paths, ReserveSection(t, l)
  PROVE  /\ next_document_id' \in 1..(MaxDocId + 1)
         /\ reservations' \in [Paths -> 0..MaxDocId]
         /\ pc' \in [Threads -> ControlPoints]
         /\ local' \in [Threads -> Locals]
         /\ \A u \in Threads : u # t => pc'[u] = pc[u] /\ local'[u] = local[u]
         /\ pc'[t] \in {"identity", "waiting", "done", "reserved"}
         /\ local'[t].op = "open" /\ local'[t].path \in Paths
         /\ pc'[t] \in {"identity", "reserved"} => local'[t].doc \in DocIds
<1> DEFINE p == l.path
<1> USE DEF Goto
<1>1. /\ paths[p] \in 0..MaxDocId /\ 0 \in 0..MaxDocId
      /\ pc \in [Threads -> ControlPoints] /\ local \in [Threads -> Locals]
      /\ next_document_id \in 1..(MaxDocId + 1)
      /\ reservations \in [Paths -> 0..MaxDocId]
  BY BoundsAssumption DEF TypeOK
<1>2. {"identity", "waiting", "done", "reserved"} \subseteq ControlPoints
  BY DEF ControlPoints
<1>3. CASE /\ paths[p] # None
           /\ local' = [local EXCEPT ![t] = [l EXCEPT !.doc = paths[p]]]
           /\ Goto(t, "identity")
           /\ UNCHANGED <<reservations, next_document_id>>
  <2>1. paths[p] \in DocIds
    BY <1>1, <1>3, BoundsAssumption DEF DocIds, None
  <2>2. QED
    BY <1>1, <1>2, <1>3, <2>1, AssignDoc
<1>4. CASE /\ local' = [local EXCEPT ![t] = l]
           /\ Goto(t, "waiting")
           /\ UNCHANGED <<reservations, next_document_id>>
  BY <1>1, <1>2, <1>4
<1>5. CASE /\ local' = [local EXCEPT ![t] = [l EXCEPT !.result = "LimitReached"]]
           /\ Goto(t, "done")
           /\ UNCHANGED <<reservations, next_document_id>>
  <2>1. "LimitReached" \in Results
    BY DEF Results
  <2>2. QED
    BY <1>1, <1>2, <1>5, <2>1, AssignResult
<1>6. CASE /\ next_document_id <= MaxDocId
           /\ next_document_id' = next_document_id + 1
           /\ reservations' = [reservations EXCEPT ![p] = next_document_id]
           /\ local' = [local EXCEPT ![t] = [l EXCEPT !.doc = next_document_id]]
           /\ Goto(t, "reserved")
  <2>1. /\ next_document_id \in 0..MaxDocId /\ next_document_id \in DocIds
        /\ next_document_id + 1 \in 1..(MaxDocId + 1)
    BY <1>1, <1>6, BoundsAssumption DEF DocIds
  <2>2. QED
    BY <1>1, <1>2, <1>6, <2>1, AssignDoc
<1>7. QED
  BY <1>3, <1>4, <1>5, <1>6 DEF ReserveSection, Free

-----------------------------------------------------------------------------
(* Type correctness *)

\* Every step of a thread keeps every variable typed and leaves at the next
\* control point the locals that point needs.
LEMMA CallTypes ==
  ASSUME TypeOK, ArgumentsOK, NEW t \in Threads, CallAny(t)
  PROVE  TypeOK' /\ ArgumentsOK'
<1>1. ASSUME NEW p \in Paths, CallOpen(t, p)
      PROVE  TypeOK' /\ ArgumentsOK'
  <2> DEFINE l == [NoLocals EXCEPT !.op = "open", !.path = p]
  <2>1. l \in Locals /\ l.op = "open" /\ l.path = p
    BY NoLocalsType DEF NoLocals, Locals, Ops
  <2>2. ReserveSection(t, l)
    BY <1>1 DEF CallOpen
  <2> HIDE DEF l
  <2>3. TypeOK'
    BY <1>1, <2>1, <2>2, ReserveSectionTypes DEF CallOpen, TypeOK, clocks
  <2>4. ArgumentsOK'
    BY <2>1, <2>2, ReserveSectionTypes DEF ArgumentsOK
  <2>5. QED
    BY <2>3, <2>4
<1>2. ASSUME NEW d \in DocIds, NEW s \in issued[d], CallSource(t, d, s)
      PROVE  TypeOK' /\ ArgumentsOK'
  <2>1. s \in SessionIds
    BY DEF TypeOK
  <2>2. Call("source", d, s) \in Locals /\ "source" \in Ops
    BY <2>1, CallType DEF Ops
  <2>3. [Call("source", d, s) EXCEPT !.result = "Closed"] \in Locals
    BY <2>2, AssignResult DEF Results
  <2>4. TypeOK'
    BY <1>2, <2>2, <2>3 DEF CallSource, Lookup, Goto, TypeOK, registry, clocks, ControlPoints
  <2>5. ArgumentsOK'
    BY <1>2, <2>1, <2>2, CallType DEF CallSource, Lookup, Goto, TypeOK, ArgumentsOK
  <2>6. QED
    BY <2>4, <2>5
<1>3. ASSUME NEW d \in DocIds, NEW s \in issued[d], NEW k \in Keys, CallPage(t, d, s, k)
      PROVE  TypeOK' /\ ArgumentsOK'
  <2> DEFINE l == [Call("page", d, s) EXCEPT !.key = k, !.access = access_clock']
  <2>1. s \in SessionIds /\ "page" \in Ops /\ access_clock' \in Nat
    BY <1>3 DEF TypeOK, Ops, CallPage
  <2>2. Call("page", d, s) \in Locals /\ Call("page", d, s).op = "page"
        /\ Call("page", d, s).doc = d
    BY <2>1, CallType
  <2>3. l \in Locals /\ l.op = "page" /\ l.doc = d /\ l.key = k
    BY <2>1, <2>2 DEF Locals
  <2>4. [l EXCEPT !.result = "Closed"] \in Locals
    BY <2>3, AssignResult DEF Results
  <2>5. /\ pc[t] = "idle" /\ Lookup(t, l, "lock")
        /\ UNCHANGED <<registry, entry, docLock, issued>>
        /\ reads < MaxReads /\ reads' = reads + 1
    BY <1>3 DEF CallPage
  <2> HIDE DEF l
  <2>6. reads' \in 0..MaxReads
    BY <2>5, BoundsAssumption DEF TypeOK
  <2>7. TypeOK'
    BY <2>1, <2>3, <2>4, <2>5, <2>6 DEF Lookup, Goto, TypeOK, registry, ControlPoints
  <2>8. ArgumentsOK'
    BY <2>3, <2>5 DEF Lookup, Goto, TypeOK, ArgumentsOK
  <2>9. QED
    BY <2>7, <2>8
<1>4. ASSUME NEW d \in DocIds, NEW s \in issued[d], CallReplace(t, d, s)
      PROVE  TypeOK' /\ ArgumentsOK'
  <2>1. s \in SessionIds
    BY DEF TypeOK
  <2>2. Call("replace", d, s) \in Locals /\ "replace" \in Ops
    BY <2>1, CallType DEF Ops
  <2>3. [Call("replace", d, s) EXCEPT !.result = "Closed"] \in Locals
    BY <2>2, AssignResult DEF Results
  <2>4. TypeOK'
    BY <1>4, <2>2, <2>3 DEF CallReplace, Lookup, Goto, TypeOK, registry, clocks, ControlPoints
  <2>5. ArgumentsOK'
    BY <1>4, <2>1, <2>2, CallType DEF CallReplace, Lookup, Goto, TypeOK, ArgumentsOK
  <2>6. QED
    BY <2>4, <2>5
<1>5. ASSUME NEW d \in DocIds, NEW s \in issued[d], CallClose(t, d, s)
      PROVE  TypeOK' /\ ArgumentsOK'
  <2>1. s \in SessionIds
    BY DEF TypeOK
  <2>2. Call("close", d, s) \in Locals /\ "close" \in Ops
    BY <2>1, CallType DEF Ops
  <2>3. TypeOK'
    BY <1>5, <2>2 DEF CallClose, Goto, TypeOK, registry, clocks, ControlPoints
  <2>4. ArgumentsOK'
    BY <1>5, <2>1, <2>2, CallType DEF CallClose, Goto, TypeOK, ArgumentsOK
  <2>5. QED
    BY <2>3, <2>4
<1>6. QED
  BY <1>1, <1>2, <1>3, <1>4, <1>5 DEF CallAny, CallOnDocument

LEMMA StepTypes ==
  ASSUME TypeOK, ArgumentsOK, NEW t \in Threads, Step(t)
  PROVE  TypeOK' /\ ArgumentsOK'
<1> USE DEF Goto, Finish, registry, clocks
<1>a. local[t] \in Locals /\ pc[t] \in ControlPoints
  BY DEF TypeOK
<1>1. CASE Reserve(t)
  <2>1. /\ pc[t] = "reserve" /\ ReserveSection(t, local[t])
        /\ local[t].op = "open" /\ local[t].path \in Paths
    BY <1>1 DEF Reserve, ArgumentsOK
  <2>2. TypeOK'
    BY <1>1, <1>a, <2>1, ReserveSectionTypes DEF Reserve, TypeOK
  <2>3. ArgumentsOK'
    BY <1>a, <2>1, ReserveSectionTypes DEF ArgumentsOK
  <2>4. QED
    BY <2>2, <2>3
<1>2. CASE CancelReservation(t)
  <2>1. [local[t] EXCEPT !.result = "Cancelled"] \in Locals
    BY <1>a, AssignResult DEF Results
  <2>2. TypeOK'
    <3>1. 0 \in 0..MaxDocId
      BY BoundsAssumption
    <3>2. pc' \in [Threads -> ControlPoints]
      BY <1>2 DEF CancelReservation, NotifyAll, TypeOK, ControlPoints
    <3>3. QED
      BY <1>2, <2>1, <3>1, <3>2 DEF CancelReservation, TypeOK, None
  <2>3. ArgumentsOK'
    BY <1>2, <1>a DEF CancelReservation, NotifyAll, TypeOK, ArgumentsOK, Locals
  <2>4. QED
    BY <2>2, <2>3
<1>3. ASSUME NEW k \in Keys, Commit(t, k)
      PROVE  TypeOK' /\ ArgumentsOK'
  <2> DEFINE d == local[t].doc
             s == next_session_id
             p == local[t].path
             page == [key |-> k, source |-> s, last_access |-> access_clock + 1]
             cache == Inserted(<<>>, k, s, access_clock + 1)
             new == [path |-> p, session_id |-> s, previous_session_id |-> None,
                     source |-> s, page_cache |-> cache]
  <2>1. pc[t] = "reserved" /\ p \in Paths /\ d \in DocIds
    BY <1>3 DEF Commit, ArgumentsOK
  <2>2. s \in SessionIds /\ s \in Sources /\ s + 1 \in 1..(MaxSessionId + 1)
        /\ access_clock + 1 \in Nat /\ 0 \in Sources
    BY <1>3, BoundsAssumption DEF Commit, TypeOK, SessionIds, Sources
  <2>3. cache \in Seq(CachedPages)
    BY <2>2, InsertedPages, EmptySeq
  <2> HIDE DEF cache
  <2>4. new \in DocumentEntries
    BY <2>1, <2>2, <2>3 DEF DocumentEntries, None
  <2>5. [local[t] EXCEPT !.session = s, !.got = s] \in Locals
    BY <1>a, <2>2 DEF Locals
  <2>6. d \in 0..MaxDocId /\ 0 \in 0..MaxDocId
    BY <2>1, BoundsAssumption DEF DocIds
  <2> HIDE DEF new
  <2>7. /\ next_session_id' = s + 1
        /\ access_clock' = access_clock + 1
        /\ entry' = [entry EXCEPT ![d] = new]
        /\ paths' = [paths EXCEPT ![p] = d]
        /\ documents' = documents \union {d}
        /\ reservations' = [reservations EXCEPT ![p] = None]
        /\ issued' = [issued EXCEPT ![d] = {s}]
        /\ local' = [local EXCEPT ![t].session = s, ![t].got = s]
        /\ NotifyAll(t, "trim_snapshot")
        /\ UNCHANGED <<next_document_id, closed_documents, docLock, reads>>
    BY <1>3 DEF Commit, new, cache
  <2>8. TypeOK'
    BY <2>1, <2>2, <2>4, <2>5, <2>6, <2>7 DEF NotifyAll, TypeOK, ControlPoints, None
  <2>9. ArgumentsOK'
    BY <2>1, <2>7, <1>a DEF NotifyAll, TypeOK, ArgumentsOK, Locals
  <2>10. QED
    BY <2>8, <2>9
<1>4. CASE Identity(t)
  <2>1. [local[t] EXCEPT !.session = entry[local[t].doc].session_id] \in Locals
    BY <1>4, <1>a DEF Identity, ArgumentsOK, TypeOK, DocumentEntries, Locals
  <2>2. TypeOK'
    BY <1>4, <2>1 DEF Identity, Session, TypeOK, ControlPoints
  <2>3. ArgumentsOK'
    BY <1>4, <1>a DEF Identity, Session, TypeOK, ArgumentsOK, Locals
  <2>4. QED
    BY <2>2, <2>3
<1>5. CASE LockStale(t)
  <2>1. [local[t] EXCEPT !.result = "StaleSession"] \in Locals
    BY <1>a, AssignResult DEF Results
  <2>2. TypeOK'
    BY <1>5, <2>1 DEF LockStale, Session, TypeOK, ControlPoints
  <2>3. ArgumentsOK'
    BY <1>5, <1>a DEF LockStale, Session, TypeOK, ArgumentsOK, Locals
  <2>4. QED
    BY <2>2, <2>3
<1>6. CASE LockSource(t)
  <2>1. [local[t] EXCEPT !.got = entry[local[t].doc].source] \in Locals
    BY <1>6, <1>a DEF LockSource, Session, ArgumentsOK, TypeOK, DocumentEntries, Locals
  <2>2. TypeOK'
    BY <1>6, <2>1 DEF LockSource, Session, TypeOK, ControlPoints
  <2>3. ArgumentsOK'
    BY <1>6, <1>a DEF LockSource, Session, TypeOK, ArgumentsOK, Locals
  <2>4. QED
    BY <2>2, <2>3
<1>7. CASE PageHit(t)
  <2> DEFINE d == local[t].doc
             cache == Touched(entry[d].page_cache, local[t].key, local[t].access)
  <2>1. d \in DocIds /\ entry[d] \in DocumentEntries
    BY <1>7 DEF PageHit, Session, ArgumentsOK, TypeOK
  <2>2. cache \in Seq(CachedPages)
    BY <1>7, <1>a, <2>1, TouchedPages DEF PageHit, Locals, DocumentEntries
  <2>3. [local[t] EXCEPT !.got = entry[d].page_cache[PageAt(entry[d].page_cache, local[t].key)].source] \in Locals
    <3>1. PageAt(entry[d].page_cache, local[t].key) \in DOMAIN entry[d].page_cache
      BY <1>7, PageAtPosition DEF PageHit
    <3>2. entry[d].page_cache \in Seq(CachedPages)
      BY <2>1 DEF DocumentEntries
    <3>3. entry[d].page_cache[PageAt(entry[d].page_cache, local[t].key)] \in CachedPages
      BY <3>1, <3>2
    <3>4. entry[d].page_cache[PageAt(entry[d].page_cache, local[t].key)].source \in Sources
      BY <3>3 DEF CachedPages
    <3>5. QED
      BY <1>a, <3>4 DEF Locals
  <2> HIDE DEF cache
  <2>4. [entry[d] EXCEPT !.page_cache = cache] \in DocumentEntries
    BY <2>1, <2>2 DEF DocumentEntries
  <2>5. /\ local' = [local EXCEPT ![t].got =
                       entry[d].page_cache[PageAt(entry[d].page_cache, local[t].key)].source]
        /\ entry' = [entry EXCEPT ![d].page_cache = cache]
        /\ UNCHANGED <<registry, docLock, clocks, issued>>
    BY <1>7 DEF PageHit, cache
  <2>6. TypeOK'
    BY <1>7, <2>1, <2>3, <2>4, <2>5 DEF PageHit, Session, TypeOK, ControlPoints
  <2>7. ArgumentsOK'
    BY <1>7, <1>a, <2>5 DEF PageHit, Session, TypeOK, ArgumentsOK, Locals
  <2>8. QED
    BY <2>6, <2>7
<1>8. CASE PageMiss(t)
  <2>1. [local[t] EXCEPT !.got = entry[local[t].doc].source] \in Locals
    BY <1>8, <1>a DEF PageMiss, Session, ArgumentsOK, TypeOK, DocumentEntries, Locals
  <2>2. TypeOK'
    BY <1>8, <2>1 DEF PageMiss, Session, TypeOK, ControlPoints
  <2>3. ArgumentsOK'
    BY <1>8, <1>a DEF PageMiss, Session, TypeOK, ArgumentsOK, Locals
  <2>4. QED
    BY <2>2, <2>3
<1>9. CASE InsertPage(t)
  <2> DEFINE d == local[t].doc
             cache == Inserted(entry[d].page_cache, local[t].key, local[t].got, local[t].access)
  <2>1. d \in DocIds /\ entry[d] \in DocumentEntries
    BY <1>9 DEF InsertPage, Session, ArgumentsOK, TypeOK
  <2>2. cache \in Seq(CachedPages)
    BY <1>9, <1>a, <2>1, InsertedPages DEF InsertPage, Session, ArgumentsOK, Locals, DocumentEntries
  <2>3. local[t] \in Locals
    BY <1>a
  <2> HIDE DEF cache
  <2>4. [entry[d] EXCEPT !.page_cache = cache] \in DocumentEntries
    BY <2>1, <2>2 DEF DocumentEntries
  <2>5. /\ UNCHANGED local
        /\ entry' = [entry EXCEPT ![d].page_cache = cache]
        /\ UNCHANGED <<registry, docLock, clocks, issued>>
    BY <1>9 DEF InsertPage, cache
  <2>6. TypeOK'
    BY <1>9, <2>1, <2>3, <2>4, <2>5 DEF InsertPage, Session, TypeOK, ControlPoints
  <2>7. ArgumentsOK'
    BY <1>9, <1>a, <2>5 DEF InsertPage, Session, TypeOK, ArgumentsOK, Locals
  <2>8. QED
    BY <2>6, <2>7
<1>10. CASE LoadFails(t)
  <2>1. [local[t] EXCEPT !.result = "LoadFailed"] \in Locals
    BY <1>a, AssignResult DEF Results
  <2>2. TypeOK'
    BY <1>10, <2>1 DEF LoadFails, Session, TypeOK, ControlPoints
  <2>3. ArgumentsOK'
    BY <1>10, <1>a DEF LoadFails, Session, TypeOK, ArgumentsOK, Locals
  <2>4. QED
    BY <2>2, <2>3
<1>11. CASE ValidateEntry(t)
  <2>1. [local[t] EXCEPT !.result = "Closed"] \in Locals
    BY <1>a, AssignResult DEF Results
  <2>2. TypeOK'
    BY <1>11, <2>1 DEF ValidateEntry, Session, TypeOK, ControlPoints
  <2>3. ArgumentsOK'
    BY <1>11, <1>a DEF ValidateEntry, Session, TypeOK, ArgumentsOK, Locals
  <2>4. QED
    BY <2>2, <2>3
<1>12. CASE ValidateSession(t)
  <2>1. [local[t] EXCEPT !.result = "Ok"] \in Locals
    BY <1>a, AssignResult DEF Results
  <2>2. TypeOK'
    BY <1>12, <2>1 DEF ValidateSession, Session, TypeOK, ControlPoints
  <2>3. ArgumentsOK'
    BY <1>12, <1>a DEF ValidateSession, Session, TypeOK, ArgumentsOK, Locals
  <2>4. QED
    BY <2>2, <2>3
<1>13. CASE AllocateSession(t)
  <2>1. /\ next_session_id \in SessionIds /\ next_session_id \in Sources
        /\ next_session_id + 1 \in 1..(MaxSessionId + 1)
    BY <1>13, BoundsAssumption DEF AllocateSession, TypeOK, SessionIds, Sources
  <2>2. [local[t] EXCEPT !.got = next_session_id] \in Locals
    BY <1>a, <2>1 DEF Locals
  <2>3. TypeOK'
    BY <1>13, <2>1, <2>2 DEF AllocateSession, TypeOK, ControlPoints
  <2>4. ArgumentsOK'
    BY <1>13, <1>a, <2>1 DEF AllocateSession, TypeOK, ArgumentsOK, Locals
  <2>5. QED
    BY <2>3, <2>4
<1>14. CASE Swap(t)
  <2> DEFINE d == local[t].doc
             new == local[t].got
             swapped == [entry[d] EXCEPT !.session_id = new,
                           !.previous_session_id = entry[d].session_id,
                           !.source = new, !.page_cache = <<>>]
  <2>1. d \in DocIds /\ entry[d] \in DocumentEntries /\ new \in SessionIds /\ new \in Sources
    BY <1>14 DEF Swap, Session, ArgumentsOK, TypeOK, SessionIds, Sources
  <2>2. swapped \in DocumentEntries
    <3>1. <<>> \in Seq(CachedPages)
      BY EmptySeq
    <3>2. QED
      BY <2>1, <3>1 DEF DocumentEntries
  <2>3. [local[t] EXCEPT !.session = new] \in Locals
    BY <1>a, <2>1 DEF Locals
  <2>4. TypeOK'
    BY <1>14, <2>1, <2>2, <2>3 DEF Swap, Session, TypeOK, ControlPoints
  <2>5. ArgumentsOK'
    BY <1>14, <1>a DEF Swap, Session, TypeOK, ArgumentsOK, Locals
  <2>6. QED
    BY <2>4, <2>5
<1>15. CASE CloseTombstone(t)
  <2>1. /\ [local[t] EXCEPT !.result = "Ok"] \in Locals
        /\ [local[t] EXCEPT !.result = "StaleSession"] \in Locals
    BY <1>a, AssignResult DEF Results
  <2>2. TypeOK'
    BY <1>15, <2>1 DEF CloseTombstone, TypeOK, ControlPoints
  <2>3. ArgumentsOK'
    BY <1>15, <1>a DEF CloseTombstone, TypeOK, ArgumentsOK, Locals
  <2>4. QED
    BY <2>2, <2>3
<1>16. CASE CloseLock(t)
  <2>1. TypeOK'
    BY <1>16 DEF CloseLock, TypeOK, ControlPoints
  <2>2. ArgumentsOK'
    BY <1>16, <1>a DEF CloseLock, TypeOK, ArgumentsOK, Locals
  <2>3. QED
    BY <2>1, <2>2
<1>17. CASE CloseStale(t)
  <2>1. [local[t] EXCEPT !.result = "StaleSession"] \in Locals
    BY <1>a, AssignResult DEF Results
  <2>2. TypeOK'
    BY <1>17, <2>1 DEF CloseStale, Session, TypeOK, ControlPoints
  <2>3. ArgumentsOK'
    BY <1>17, <1>a DEF CloseStale, Session, TypeOK, ArgumentsOK, Locals
  <2>4. QED
    BY <2>2, <2>3
<1>18. CASE CloseRemove(t)
  <2> DEFINE d == local[t].doc
  <2>1. /\ [local[t] EXCEPT !.result = "Ok"] \in Locals
        /\ [local[t] EXCEPT !.result = "Closed"] \in Locals
    BY <1>a, AssignResult DEF Results
  <2>2. d \in DocIds /\ entry[d] \in DocumentEntries
    BY <1>18 DEF CloseRemove, ArgumentsOK, TypeOK
  <2>3. KnownSessions(d) \in SUBSET SessionIds /\ 0 \in 0..MaxDocId
    BY <2>2, BoundsAssumption DEF KnownSessions, DocumentEntries, Sources, SessionIds, None
  <2>4. TypeOK'
    BY <1>18, <2>1, <2>2, <2>3 DEF CloseRemove, TypeOK, ControlPoints, None
  <2>5. ArgumentsOK'
    BY <1>18, <1>a DEF CloseRemove, TypeOK, ArgumentsOK, Locals
  <2>6. QED
    BY <2>4, <2>5
<1>19. CASE TrimSnapshot(t)
  <2>1. PassStarts(local[t], documents) \in Locals
    BY <1>a, PassStartsType DEF TypeOK
  <2>2. TypeOK'
    BY <1>19, <2>1 DEF TrimSnapshot, Session, TypeOK, ControlPoints, PassStarts
  <2>3. ArgumentsOK'
    BY <1>19, <1>a DEF TrimSnapshot, Session, TypeOK, ArgumentsOK, Locals, PassStarts
  <2>4. QED
    BY <2>2, <2>3
<1>20. ASSUME NEW d \in DocIds, TrimCount(t, d)
      PROVE  TypeOK' /\ ArgumentsOK'
  <2>1. /\ d \in DocIds /\ d \in 0..MaxDocId /\ entry[d].page_cache \in Seq(CachedPages)
        /\ Len(entry[d].page_cache) \in Nat
        /\ entry[d].page_cache # <<>> => Head(entry[d].page_cache).last_access \in Nat
    <3>1. d \in DocIds /\ d \in 0..MaxDocId /\ entry[d] \in DocumentEntries
      BY BoundsAssumption DEF TypeOK, DocIds
    <3>2. entry[d].page_cache \in Seq(CachedPages)
      BY <3>1 DEF DocumentEntries
    <3>3. Len(entry[d].page_cache) \in Nat
          /\ entry[d].page_cache # <<>> => Head(entry[d].page_cache) \in CachedPages
      BY <3>2
    <3>4. QED
      BY <3>1, <3>2, <3>3 DEF CachedPages
  <2>2. local'[t] \in Locals /\ local' = [local EXCEPT ![t] = local'[t]]
    <3> DEFINE l == local[t]
               cache == entry[d].page_cache
               older == /\ cache # <<>>
                        /\ l.oldest_doc = None \/ Head(cache).last_access < l.oldest
               counted == [l EXCEPT !.todo = @ \ {d}, !.pages = @ + Len(cache),
                             !.oldest = IF older THEN Head(cache).last_access ELSE @,
                             !.oldest_doc = IF older THEN d ELSE @]
    <3>1. /\ (IF older THEN Head(cache).last_access ELSE l.oldest) \in Nat
          /\ (IF older THEN d ELSE l.oldest_doc) \in 0..MaxDocId
          /\ l.pages + Len(cache) \in Nat
          /\ l.todo \ {d} \in SUBSET DocIds
      <4>1. /\ l.oldest \in Nat /\ l.oldest_doc \in 0..MaxDocId
            /\ l.pages \in Nat /\ l.todo \in SUBSET DocIds
        BY <1>a DEF Locals
      <4>2. older => Head(cache).last_access \in Nat
        BY <2>1
      <4> HIDE DEF older
      <4>3. QED
        BY <4>1, <4>2, <2>1
    <3>2. local' = [local EXCEPT ![t] = counted]
      BY <1>20 DEF TrimCount
    <3> HIDE DEF older
    <3>3. counted \in Locals
      BY <1>a, <3>1 DEF Locals
    <3>4. QED
      BY <3>2, <3>3 DEF TypeOK
  <2>3. TypeOK'
    BY <1>20, <2>2 DEF TrimCount, TypeOK
  <2>4. ArgumentsOK'
    BY <1>20, <1>a DEF TrimCount, TypeOK, ArgumentsOK, Locals
  <2>5. QED
    BY <2>3, <2>4
<1>21. CASE TrimPop(t)
  <2> DEFINE d == local[t].oldest_doc
             cache == entry[d].page_cache
  <2>1. PassStarts(local[t], local[t].entries) \in Locals
    BY <1>a, PassStartsType DEF Locals
  <2>2. ASSUME d \in DocIds
        PROVE  entry' \in [DocIds -> DocumentEntries]
    <3>1. entry[d] \in DocumentEntries /\ cache \in Seq(CachedPages)
      BY <2>2 DEF TypeOK, DocumentEntries
    <3>2. (IF cache = <<>> THEN cache ELSE Tail(cache)) \in Seq(CachedPages)
      BY <3>1
    <3>3. [entry[d] EXCEPT !.page_cache = IF @ = <<>> THEN @ ELSE Tail(@)] \in DocumentEntries
      BY <3>1, <3>2 DEF DocumentEntries
    <3>4. entry' \in [DocIds -> DocumentEntries]
      BY <1>21, <2>2, <3>3 DEF TrimPop, TypeOK
    <3>5. QED
      BY <3>4
  <2>3. ASSUME d \notin DocIds
        PROVE  entry' \in [DocIds -> DocumentEntries]
    <3>1. entry' = entry
      BY <1>21, <2>3 DEF TrimPop, TypeOK
    <3>2. QED
      BY <3>1 DEF TypeOK
  <2>4. entry' \in [DocIds -> DocumentEntries]
    BY <2>2, <2>3
  <2>5. TypeOK'
    BY <1>21, <2>1, <2>4 DEF TrimPop, TypeOK
  <2>6. ArgumentsOK'
    BY <1>21, <1>a DEF TrimPop, TypeOK, ArgumentsOK, Locals, PassStarts
  <2>7. QED
    BY <2>5, <2>6
<1>22. CASE TrimStop(t)
  <2> DEFINE l == PassStarts(local[t], {})
             outcome == IF l.result = "none" THEN "Ok" ELSE l.result
  <2>1. l \in Locals
    BY <1>a, PassStartsType
  <2>2. [l EXCEPT !.result = outcome] \in Locals
    BY <2>1 DEF Locals, Results
  <2>3. TypeOK'
    BY <1>22, <2>2 DEF TrimStop, TypeOK, ControlPoints
  <2>4. ArgumentsOK'
    BY <1>22, <1>a DEF TrimStop, TypeOK, ArgumentsOK, Locals, PassStarts
  <2>5. QED
    BY <2>3, <2>4
<1>23. CASE Return(t)
  <2>1. TypeOK'
    BY <1>23, NoLocalsType DEF Return, TypeOK, ControlPoints
  <2>2. ArgumentsOK'
    BY <1>23 DEF Return, TypeOK, ArgumentsOK
  <2>3. QED
    BY <2>1, <2>2
<1>24. QED
  BY <1>1, <1>2, <1>3, <1>4, <1>5, <1>6, <1>7, <1>8, <1>9, <1>10, <1>11, <1>12, <1>13, <1>14, <1>15, <1>16, <1>17, <1>18, <1>19, <1>20, <1>21, <1>22, <1>23 DEF Step, Settle

LEMMA InitTypes == Init => TypeOK /\ ArgumentsOK
<1>1. 0 \in 0..MaxDocId /\ 0 \in 0..MaxSessionId /\ 1 \in 1..(MaxDocId + 1)
      /\ 1 \in 1..(MaxSessionId + 1) /\ 0 \in 0..MaxReads
  BY BoundsAssumption
<1>2. NoEntry \in DocumentEntries
  BY <1>1 DEF NoEntry, DocumentEntries, Sources, None
<1>3. Init => TypeOK
  BY <1>1, <1>2, NoLocalsType DEF Init, TypeOK, ControlPoints, None
<1>4. Init => ArgumentsOK
  BY DEF Init, ArgumentsOK
<1>5. QED
  BY <1>3, <1>4

LEMMA NextTypes ==
  ASSUME TypeOK, ArgumentsOK, [Next]_vars
  PROVE  TypeOK' /\ ArgumentsOK'
<1>1. ASSUME NEW t \in Threads, CallAny(t)
      PROVE  TypeOK' /\ ArgumentsOK'
  BY <1>1, CallTypes
<1>2. ASSUME NEW t \in Threads, Step(t)
      PROVE  TypeOK' /\ ArgumentsOK'
  BY <1>2, StepTypes
<1>3. ASSUME NEW t \in Threads, SpuriousWakeup(t)
      PROVE  TypeOK' /\ ArgumentsOK'
  <2>1. TypeOK'
    BY <1>3 DEF SpuriousWakeup, Goto, registry, clocks, TypeOK, ControlPoints
  <2>2. ArgumentsOK'
    BY <1>3 DEF SpuriousWakeup, Goto, TypeOK, ArgumentsOK
  <2>3. QED
    BY <2>1, <2>2
<1>4. CASE UNCHANGED vars
  <2>1. TypeOK'
    BY <1>4 DEF vars, TypeOK
  <2>2. ArgumentsOK'
    BY <1>4 DEF vars, ArgumentsOK
  <2>3. QED
    BY <2>1, <2>2
<1>5. QED
  BY <1>1, <1>2, <1>3, <1>4 DEF Next

\* Every variable, local variables of commands included, keeps its type, and a
\* command finds at each control point the arguments it needs there.
THEOREM TypeCorrect == Spec => [](TypeOK /\ ArgumentsOK)
<1>1. Init => TypeOK /\ ArgumentsOK
  BY InitTypes
<1>2. (TypeOK /\ ArgumentsOK) /\ [Next]_vars => (TypeOK /\ ArgumentsOK)'
  BY NextTypes
<1>3. QED
  BY <1>1, <1>2, PTL DEF Spec

-----------------------------------------------------------------------------
(* Documents, paths and reservations *)

Owned == IdentifiersOwned /\ OneDocumentPerPath

\* A step that leaves the maps of the registry alone and brings no command to
\* hold a reservation keeps the ownership of ids.
LEMMA QuietStep ==
  ASSUME TypeOK, Owned,
         UNCHANGED <<next_document_id, documents, paths, reservations, closed_documents>>,
         \A d \in DocIds : /\ entry'[d].path = entry[d].path
                           /\ entry[d].session_id \in SessionIds
                                => entry'[d].session_id \in SessionIds,
         \A t \in Threads : pc'[t] = "reserved" =>
            /\ pc[t] = "reserved"
            /\ local'[t].path = local[t].path /\ local'[t].doc = local[t].doc
  PROVE  Owned'
<1>1. documents \subseteq DocIds
  BY DEF TypeOK
<1>2. \A p \in Paths : paths[p] # None => paths[p] \in documents
  BY DEF Owned, OneDocumentPerPath
<1>3. IdentifiersOwned'
  BY <1>1 DEF Owned, IdentifiersOwned, ReservationsOwned
<1>4. OneDocumentPerPath'
  BY <1>1, <1>2 DEF Owned, OneDocumentPerPath, Reserved
<1>5. QED
  BY <1>3, <1>4 DEF Owned

\* One turn of the loop of reserve_path, taken by a command that holds no
\* reservation yet.
LEMMA ReserveOwned ==
  ASSUME TypeOK, ArgumentsOK, Owned, NEW t \in Threads, NEW l \in Locals,
         l.op = "open", l.path \in Paths, ReserveSection(t, l), pc[t] # "reserved",
         UNCHANGED <<documents, paths, closed_documents, entry>>
  PROVE  Owned'
<1> DEFINE p == l.path
<1>1. /\ pc \in [Threads -> ControlPoints] /\ local \in [Threads -> Locals]
      /\ documents \subseteq DocIds
  BY DEF TypeOK
<1>2. CASE /\ UNCHANGED <<reservations, next_document_id>>
           /\ \A u \in Threads : u # t => pc'[u] = pc[u] /\ local'[u] = local[u]
           /\ pc'[t] # "reserved"
  BY <1>2, QuietStep
<1>3. CASE /\ paths[p] = None /\ reservations[p] = None
           /\ next_document_id <= MaxDocId
           /\ next_document_id' = next_document_id + 1
           /\ reservations' = [reservations EXCEPT ![p] = next_document_id]
           /\ local' = [local EXCEPT ![t] = [l EXCEPT !.doc = next_document_id]]
           /\ Goto(t, "reserved")
  <2> DEFINE n == next_document_id
  <2>1. /\ n \in DocIds /\ n \in 0..MaxDocId /\ n # None /\ n \in Nat
        /\ \A q \in Paths : reservations[q] \in Nat
    BY <1>3, BoundsAssumption DEF TypeOK, DocIds, None
  <2>2. /\ local'[t].path = p /\ local'[t].doc = n /\ pc'[t] = "reserved"
        /\ \A u \in Threads : u # t => pc'[u] = pc[u] /\ local'[u] = local[u]
    BY <1>1, <1>3, <2>1, AssignDoc DEF Goto
  <2>3. /\ reservations'[p] = n
        /\ \A q \in Paths : q # p => reservations'[q] = reservations[q]
    BY <1>3 DEF TypeOK
  <2>4. /\ n \notin documents
        /\ \A q \in Paths : reservations[q] < n
        /\ \A d \in DocIds : closed_documents[d] # {} => d # n
        /\ closed_documents[n] = {}
    BY <2>1 DEF Owned, IdentifiersOwned, TypeOK, DocIds
  <2>5. \A u \in Threads : pc[u] = "reserved" => local[u].path # p /\ local[u].doc # None
    <3>1. ASSUME NEW u \in Threads, pc[u] = "reserved"
          PROVE  local[u].doc # None
      BY <3>1 DEF ArgumentsOK, DocIds, None
    <3>2. QED
      BY <3>1, <1>3 DEF Owned, IdentifiersOwned, ReservationsOwned
  <2>6. ReservationsOwned'
    <3>1. ASSUME NEW u \in Threads, pc'[u] = "reserved", u # t
          PROVE  reservations'[local'[u].path] = local'[u].doc
      <4>1. /\ pc[u] = "reserved" /\ local'[u] = local[u]
            /\ local[u].path \in Paths /\ local[u].path # p
        BY <2>2, <2>5, <3>1 DEF ArgumentsOK
      <4>2. QED
        BY <4>1, <2>3 DEF Owned, IdentifiersOwned, ReservationsOwned
    <3>2. reservations'[local'[t].path] = local'[t].doc
      BY <2>2, <2>3
    <3>3. QED
      BY <3>1, <3>2 DEF ReservationsOwned
  <2>7. IdentifiersOwned'
    <3>1. \A u, v \in Threads :
            u # v /\ pc'[u] = "reserved" /\ pc'[v] = "reserved"
            => local'[u].path # local'[v].path
      BY <2>2, <2>5 DEF Owned, IdentifiersOwned
    <3>2. \A d \in documents' : d < next_document_id'
      BY <1>1, <1>3, <2>1 DEF Owned, IdentifiersOwned, DocIds
    <3>3. \A q \in Paths : reservations'[q] < next_document_id'
      BY <1>3, <2>1, <2>3, <2>4
    <3>4. \A d \in DocIds : closed_documents'[d] # {} =>
            /\ d \notin documents' /\ d < next_document_id'
            /\ \A q \in Paths : reservations'[q] # d
      BY <1>3, <2>1, <2>3, <2>4 DEF Owned, IdentifiersOwned, DocIds
    <3>5. \A d \in documents' : entry'[d].session_id \in SessionIds
      BY DEF Owned, IdentifiersOwned
    <3>6. QED
      BY <2>6, <3>1, <3>2, <3>3, <3>4, <3>5 DEF IdentifiersOwned
  <2>8. OneDocumentPerPath'
    <3>1. \A q \in Paths :
            /\ paths[q] # None => paths[q] \in documents /\ entry[paths[q]].path = q
            /\ reservations'[q] # None => /\ paths[q] = None
                                          /\ reservations'[q] \notin documents
      BY <1>3, <2>3, <2>4 DEF Owned, OneDocumentPerPath
    <3>2. \A q, r \in Paths :
            reservations'[q] # None /\ reservations'[q] = reservations'[r] => q = r
      <4>1. \A q \in Paths : q # p => reservations'[q] # n
        BY <2>1, <2>3, <2>4
      <4>2. QED
        BY <4>1, <2>3 DEF Owned, OneDocumentPerPath, Reserved
    <3>3. \A d \in documents : entry[d].path \in Paths /\ paths[entry[d].path] = d
      BY DEF Owned, OneDocumentPerPath
    <3>4. QED
      BY <3>1, <3>2, <3>3 DEF OneDocumentPerPath, Reserved
  <2>9. QED
    BY <2>7, <2>8 DEF Owned
<1>4. QED
  <2>1. CASE /\ local' = [local EXCEPT ![t] = [l EXCEPT !.doc = paths[p]]]
             /\ Goto(t, "identity")
             /\ UNCHANGED <<reservations, next_document_id>>
    BY <2>1, <1>1, <1>2 DEF Goto
  <2>2. CASE /\ local' = [local EXCEPT ![t] = l]
             /\ Goto(t, "waiting")
             /\ UNCHANGED <<reservations, next_document_id>>
    BY <2>2, <1>1, <1>2 DEF Goto
  <2>3. CASE /\ local' = [local EXCEPT ![t] = [l EXCEPT !.result = "LimitReached"]]
             /\ Goto(t, "done")
             /\ UNCHANGED <<reservations, next_document_id>>
    BY <2>3, <1>1, <1>2 DEF Goto
  <2>4. QED
    BY <1>3, <2>1, <2>2, <2>3 DEF ReserveSection, Free

\* A reservation is given back.
LEMMA CancelOwned ==
  ASSUME TypeOK, ArgumentsOK, Owned, NEW t \in Threads, CancelReservation(t)
  PROVE  Owned'
<1> DEFINE p == local[t].path
<1>1. /\ p \in Paths /\ pc[t] = "reserved" /\ reservations[p] = local[t].doc
      /\ reservations \in [Paths -> 0..MaxDocId] /\ documents \subseteq DocIds
  BY DEF CancelReservation, ArgumentsOK, TypeOK
<1>2. /\ reservations'[p] = None
      /\ \A q \in Paths : q # p => reservations'[q] = reservations[q]
  BY <1>1 DEF CancelReservation
<1>3. \A u \in Threads : pc'[u] = "reserved" =>
        u # t /\ pc[u] = "reserved" /\ local'[u] = local[u] /\ local[u].path # p
  BY <1>1 DEF CancelReservation, NotifyAll, TypeOK, Owned, IdentifiersOwned
<1>4. UNCHANGED <<next_document_id, documents, paths, closed_documents, entry>>
  BY DEF CancelReservation
<1>5. next_document_id > 0 /\ None < next_document_id
  BY BoundsAssumption DEF TypeOK, None
<1>6. IdentifiersOwned'
  <2>1. ReservationsOwned'
    BY <1>2, <1>3, ArgumentsOK DEF ArgumentsOK, Owned, IdentifiersOwned, ReservationsOwned
  <2>2. \A d \in DocIds : d # None
    BY DEF DocIds, None
  <2>3. QED
    BY <1>2, <1>3, <1>4, <1>5, <2>1, <2>2 DEF Owned, IdentifiersOwned
<1>7. OneDocumentPerPath'
  BY <1>1, <1>2, <1>4 DEF Owned, OneDocumentPerPath, Reserved
<1>8. QED
  BY <1>6, <1>7 DEF Owned

\* The reserved document opens under the reserved path.
LEMMA CommitOwned ==
  ASSUME TypeOK, ArgumentsOK, Owned, NEW t \in Threads, NEW k \in Keys, Commit(t, k)
  PROVE  Owned'
<1> DEFINE p == local[t].path
           d == local[t].doc
<1>1. /\ p \in Paths /\ d \in DocIds /\ pc[t] = "reserved" /\ reservations[p] = d
      /\ reservations \in [Paths -> 0..MaxDocId] /\ documents \subseteq DocIds
      /\ paths \in [Paths -> 0..MaxDocId] /\ d # None
  BY DEF Commit, ArgumentsOK, TypeOK, DocIds, None
<1>2. /\ reservations'[p] = None
      /\ \A q \in Paths : q # p => reservations'[q] = reservations[q]
      /\ paths'[p] = d /\ \A q \in Paths : q # p => paths'[q] = paths[q]
      /\ documents' = documents \union {d}
      /\ UNCHANGED <<next_document_id, closed_documents>>
  BY <1>1 DEF Commit
<1>3. \A u \in Threads : pc'[u] = "reserved" =>
        u # t /\ pc[u] = "reserved" /\ local'[u] = local[u] /\ local[u].path # p
  BY <1>1 DEF Commit, NotifyAll, TypeOK, Owned, IdentifiersOwned
<1>4. next_document_id > 0 /\ None < next_document_id
  BY BoundsAssumption DEF TypeOK, None
<1>5. next_session_id \in SessionIds
  BY BoundsAssumption DEF Commit, TypeOK, SessionIds
<1>6. /\ entry'[d].path = p /\ entry'[d].session_id = next_session_id
      /\ \A e \in DocIds : e # d => entry'[e] = entry[e]
  BY <1>1 DEF Commit, TypeOK
<1>7. /\ d \notin documents /\ paths[p] = None /\ d < next_document_id
      /\ \A q \in Paths : q # p => reservations[q] # d
      /\ closed_documents[d] = {}
  BY <1>1 DEF Owned, OneDocumentPerPath, IdentifiersOwned, Reserved
<1>8. IdentifiersOwned'
  <2>1. ReservationsOwned'
    BY <1>2, <1>3, ArgumentsOK DEF ArgumentsOK, Owned, IdentifiersOwned, ReservationsOwned
  <2>2. \A e \in DocIds : e # None
    BY DEF DocIds, None
  <2>3. \A e \in documents' : e < next_document_id' /\ entry'[e].session_id \in SessionIds
    BY <1>1, <1>2, <1>5, <1>6, <1>7 DEF Owned, IdentifiersOwned
  <2>4. \A q \in Paths : reservations'[q] < next_document_id'
    BY <1>2, <1>4 DEF Owned, IdentifiersOwned
  <2>5. \A e \in DocIds : closed_documents'[e] # {} =>
          /\ e \notin documents' /\ e < next_document_id'
          /\ \A q \in Paths : reservations'[q] # e
    BY <1>2, <1>7, <2>2 DEF Owned, IdentifiersOwned
  <2>6. QED
    BY <1>3, <2>1, <2>3, <2>4, <2>5 DEF Owned, IdentifiersOwned
<1>9. OneDocumentPerPath'
  <2>1. \A q \in Paths : paths'[q] # None =>
          paths'[q] \in documents' /\ entry'[paths'[q]].path = q
    BY <1>1, <1>2, <1>6, <1>7 DEF Owned, OneDocumentPerPath
  <2>2. \A q \in Paths : reservations'[q] # None =>
          paths'[q] = None /\ reservations'[q] \notin documents'
    BY <1>2, <1>7 DEF Owned, OneDocumentPerPath
  <2>3. \A e \in documents' : entry'[e].path \in Paths /\ paths'[entry'[e].path] = e
    <3>1. ASSUME NEW e \in documents
          PROVE  entry'[e].path \in Paths /\ paths'[entry'[e].path] = e
      <4>1. e \in DocIds /\ e # d /\ e # None
        BY <1>1, <1>7 DEF DocIds, None
      <4>2. entry[e].path \in Paths /\ paths[entry[e].path] = e
        BY DEF Owned, OneDocumentPerPath
      <4>3. QED
        BY <4>1, <4>2, <1>2, <1>6, <1>7
    <3>2. entry'[d].path \in Paths /\ paths'[entry'[d].path] = d
      BY <1>1, <1>2, <1>6
    <3>3. QED
      BY <3>1, <3>2, <1>2
  <2>4. \A q, r \in Paths :
          reservations'[q] # None /\ reservations'[q] = reservations'[r]
          /\ reservations'[r] # None => q = r
    BY <1>2 DEF Owned, OneDocumentPerPath, Reserved
  <2>5. QED
    BY <2>1, <2>2, <2>3, <2>4 DEF OneDocumentPerPath, Reserved
<1>10. QED
  BY <1>8, <1>9 DEF Owned

\* The document leaves the registry and its tombstone stays.
LEMMA CloseOwned ==
  ASSUME TypeOK, ArgumentsOK, Owned, NEW t \in Threads, CloseRemove(t)
  PROVE  Owned'
<1> DEFINE d == local[t].doc
<1>1. /\ d \in DocIds /\ pc[t] = "close_remove" /\ documents \subseteq DocIds
      /\ paths \in [Paths -> 0..MaxDocId] /\ closed_documents \in [DocIds -> SUBSET SessionIds]
      /\ UNCHANGED entry
      /\ pc \in [Threads -> ControlPoints] /\ local \in [Threads -> Locals]
  BY DEF CloseRemove, ArgumentsOK, TypeOK
<1>2. \A u \in Threads : pc'[u] = "reserved" =>
        pc[u] = "reserved" /\ local'[u] = local[u]
  BY <1>1 DEF CloseRemove, Finish, Goto
<1>3. CASE UNCHANGED registry
  BY <1>1, <1>2, <1>3, QuietStep DEF registry
<1>4. CASE /\ d \in documents
           /\ paths' = [paths EXCEPT ![entry[d].path] = None]
           /\ documents' = documents \ {d}
           /\ closed_documents' = [closed_documents EXCEPT ![d] = KnownSessions(d)]
           /\ UNCHANGED <<next_document_id, next_session_id, reservations>>
  <2>1. entry[d].path \in Paths /\ paths[entry[d].path] = d
    BY <1>4 DEF Owned, OneDocumentPerPath
  <2>2. /\ paths'[entry[d].path] = None
        /\ \A q \in Paths : q # entry[d].path => paths'[q] = paths[q]
    BY <1>1, <1>4, <2>1
  <2>3. \A q \in Paths : paths[q] = d => q = entry[d].path
    BY <1>1 DEF Owned, OneDocumentPerPath, DocIds, None
  <2>4. IdentifiersOwned'
    <3>1. ReservationsOwned'
      BY <1>2, <1>4 DEF Owned, IdentifiersOwned, ReservationsOwned
    <3>2. d < next_document_id /\ \A q \in Paths : reservations[q] # d
      BY <1>1, <1>4 DEF Owned, IdentifiersOwned, OneDocumentPerPath, DocIds, None
    <3>3. \A e \in DocIds : closed_documents'[e] # {} =>
            /\ e \notin documents' /\ e < next_document_id'
            /\ \A q \in Paths : reservations'[q] # e
      BY <1>1, <1>4, <3>2 DEF Owned, IdentifiersOwned
    <3>4. QED
      BY <1>1, <1>2, <1>4, <3>1, <3>3 DEF Owned, IdentifiersOwned
  <2>5. OneDocumentPerPath'
    <3>1. \A q \in Paths : paths'[q] # None =>
            paths'[q] \in documents' /\ entry'[paths'[q]].path = q
      BY <1>1, <1>4, <2>2, <2>3 DEF Owned, OneDocumentPerPath
    <3>2. \A q \in Paths : reservations'[q] # None =>
            paths'[q] = None /\ reservations'[q] \notin documents'
      BY <1>4, <2>2 DEF Owned, OneDocumentPerPath
    <3>3. \A e \in documents' : entry'[e].path \in Paths /\ paths'[entry'[e].path] = e
      BY <1>1, <1>4, <2>1, <2>2 DEF Owned, OneDocumentPerPath
    <3>4. QED
      BY <1>4, <3>1, <3>2, <3>3 DEF Owned, OneDocumentPerPath, Reserved
  <2>6. QED
    BY <2>4, <2>5 DEF Owned
<1>5. QED
  BY <1>3, <1>4 DEF CloseRemove

LEMMA CallOwned ==
  ASSUME TypeOK, ArgumentsOK, Owned, NEW t \in Threads, CallAny(t)
  PROVE  Owned'
<1>a. pc \in [Threads -> ControlPoints] /\ local \in [Threads -> Locals]
  BY DEF TypeOK
<1> USE DEF Goto, registry
<1>1. ASSUME NEW p \in Paths, CallOpen(t, p)
      PROVE  Owned'
  <2> DEFINE l == [NoLocals EXCEPT !.op = "open", !.path = p]
  <2>1. l \in Locals /\ l.op = "open" /\ l.path = p
    BY NoLocalsType DEF NoLocals, Locals, Ops
  <2>2. /\ ReserveSection(t, l) /\ pc[t] # "reserved"
        /\ UNCHANGED <<documents, paths, closed_documents, entry>>
    BY <1>1 DEF CallOpen
  <2> HIDE DEF l
  <2>3. QED
    BY <2>1, <2>2, ReserveOwned
<1>2. ASSUME NEW d \in DocIds, NEW s \in issued[d], CallSource(t, d, s)
      PROVE  Owned'
  BY <1>2, <1>a, QuietStep DEF CallSource, Lookup
<1>3. ASSUME NEW d \in DocIds, NEW s \in issued[d], NEW k \in Keys, CallPage(t, d, s, k)
      PROVE  Owned'
  BY <1>3, <1>a, QuietStep DEF CallPage, Lookup
<1>4. ASSUME NEW d \in DocIds, NEW s \in issued[d], CallReplace(t, d, s)
      PROVE  Owned'
  BY <1>4, <1>a, QuietStep DEF CallReplace, Lookup
<1>5. ASSUME NEW d \in DocIds, NEW s \in issued[d], CallClose(t, d, s)
      PROVE  Owned'
  BY <1>5, <1>a, QuietStep DEF CallClose, Lookup
<1>6. QED
  BY <1>1, <1>2, <1>3, <1>4, <1>5 DEF CallAny, CallOnDocument

LEMMA StepOwned ==
  ASSUME TypeOK, ArgumentsOK, Owned, NEW t \in Threads, Step(t)
  PROVE  Owned'
<1>a. /\ pc \in [Threads -> ControlPoints] /\ local \in [Threads -> Locals]
      /\ entry \in [DocIds -> DocumentEntries]
  BY DEF TypeOK
<1> USE DEF Goto, Finish, registry
<1>1. CASE Reserve(t)
  <2>1. /\ ReserveSection(t, local[t]) /\ pc[t] # "reserved"
        /\ local[t].op = "open" /\ local[t].path \in Paths
        /\ UNCHANGED <<documents, paths, closed_documents, entry>>
    BY <1>1 DEF Reserve, ArgumentsOK
  <2>2. QED
    BY <1>a, <2>1, ReserveOwned
<1>2. CASE CancelReservation(t)
  BY <1>2, CancelOwned
<1>3. ASSUME NEW k \in Keys, Commit(t, k)
      PROVE  Owned'
  BY <1>3, CommitOwned
<1>4. CASE Identity(t)
  BY <1>4, <1>a, QuietStep DEF Identity, Session
<1>5. CASE LockStale(t)
  BY <1>5, <1>a, QuietStep DEF LockStale, Session
<1>6. CASE LockSource(t)
  BY <1>6, <1>a, QuietStep DEF LockSource, Session
<1>7. CASE PageHit(t)
  <2>1. \A d \in DocIds : /\ entry'[d].path = entry[d].path
                          /\ entry'[d].session_id = entry[d].session_id
    BY <1>7, <1>a DEF PageHit, DocumentEntries
  <2>2. QED
    BY <1>7, <1>a, <2>1, QuietStep DEF PageHit, Session
<1>8. CASE PageMiss(t)
  BY <1>8, <1>a, QuietStep DEF PageMiss, Session
<1>9. CASE InsertPage(t)
  <2>1. \A d \in DocIds : /\ entry'[d].path = entry[d].path
                          /\ entry'[d].session_id = entry[d].session_id
    BY <1>9, <1>a DEF InsertPage, DocumentEntries
  <2>2. QED
    BY <1>9, <1>a, <2>1, QuietStep DEF InsertPage, Session
<1>10. CASE LoadFails(t)
  BY <1>10, <1>a, QuietStep DEF LoadFails, Session
<1>11. CASE ValidateEntry(t)
  BY <1>11, <1>a, QuietStep DEF ValidateEntry, Session
<1>12. CASE ValidateSession(t)
  BY <1>12, <1>a, QuietStep DEF ValidateSession, Session
<1>13. CASE AllocateSession(t)
  BY <1>13, <1>a, QuietStep DEF AllocateSession, Session
<1>14. CASE Swap(t)
  <2>1. local[t].got \in SessionIds
    BY <1>14 DEF Swap, Session, ArgumentsOK
  <2>2. \A d \in DocIds : /\ entry'[d].path = entry[d].path
                          /\ entry[d].session_id \in SessionIds
                               => entry'[d].session_id \in SessionIds
    BY <1>14, <1>a, <2>1 DEF Swap, DocumentEntries
  <2>3. QED
    BY <1>14, <1>a, <2>2, QuietStep DEF Swap, Session
<1>15. CASE CloseTombstone(t)
  BY <1>15, <1>a, QuietStep DEF CloseTombstone, Session
<1>16. CASE CloseLock(t)
  BY <1>16, <1>a, QuietStep DEF CloseLock, Session
<1>17. CASE CloseStale(t)
  BY <1>17, <1>a, QuietStep DEF CloseStale, Session
<1>18. CASE CloseRemove(t)
  BY <1>18, CloseOwned
<1>19. CASE TrimSnapshot(t)
  BY <1>19, <1>a, QuietStep DEF TrimSnapshot, Session
<1>20. ASSUME NEW d \in DocIds, TrimCount(t, d)
      PROVE  Owned'
  BY <1>20, <1>a, QuietStep DEF TrimCount
<1>21. CASE TrimPop(t)
  <2>1. \A d \in DocIds : /\ entry'[d].path = entry[d].path
                          /\ entry'[d].session_id = entry[d].session_id
    BY <1>21, <1>a DEF TrimPop, DocumentEntries
  <2>2. QED
    BY <1>21, <1>a, <2>1, QuietStep DEF TrimPop, Session
<1>22. CASE TrimStop(t)
  BY <1>22, <1>a, QuietStep DEF TrimStop, Session
<1>23. CASE Return(t)
  BY <1>23, <1>a, QuietStep DEF Return
<1>24. QED
  BY <1>1, <1>2, <1>3, <1>4, <1>5, <1>6, <1>7, <1>8, <1>9, <1>10, <1>11, <1>12, <1>13, <1>14, <1>15, <1>16, <1>17, <1>18, <1>19, <1>20, <1>21, <1>22, <1>23 DEF Step, Settle

\* One canonical path leads to one open document and one only, every
\* reservation belongs to one command, ids and sessions of closed documents
\* stay closed: the registry's maps agree in every reachable state.
THEOREM RegistryConsistent == Spec => []RegistryInvariant
<1>1. Init => RegistryInvariant
  <2>1. Init => IdentifiersOwned
    BY DEF Init, IdentifiersOwned, ReservationsOwned, None
  <2>2. Init => OneDocumentPerPath
    BY DEF Init, OneDocumentPerPath, Reserved
  <2>3. QED
    BY <2>1, <2>2, InitTypes DEF RegistryInvariant
<1>2. RegistryInvariant /\ [Next]_vars => RegistryInvariant'
  <2> SUFFICES ASSUME TypeOK, ArgumentsOK, Owned, [Next]_vars
               PROVE  RegistryInvariant'
    BY DEF RegistryInvariant, Owned
  <2>1. TypeOK' /\ ArgumentsOK'
    BY NextTypes
  <2>2. ASSUME NEW t \in Threads, SpuriousWakeup(t)
        PROVE  Owned'
    <3>1. pc \in [Threads -> ControlPoints]
      BY DEF TypeOK
    <3>2. QED
      BY <2>2, <3>1, QuietStep DEF SpuriousWakeup, Goto, registry
  <2>3. ASSUME UNCHANGED vars
        PROVE  Owned'
    BY <2>3, QuietStep DEF vars
  <2>4. Owned'
    <3>1. ASSUME NEW t \in Threads, CallAny(t)
          PROVE  Owned'
      BY <3>1, CallOwned
    <3>2. ASSUME NEW t \in Threads, Step(t)
          PROVE  Owned'
      BY <3>2, StepOwned
    <3>3. QED
      BY <2>2, <2>3, <3>1, <3>2 DEF Next
  <2>5. QED
    BY <2>1, <2>4 DEF RegistryInvariant, Owned
<1>3. QED
  BY <1>1, <1>2, PTL DEF Spec

\* The conjuncts of RegistryInvariant that the runs check on small instances.
THEOREM OneDocumentPerPathAlways == Spec => []OneDocumentPerPath
<1>1. RegistryInvariant => OneDocumentPerPath
  BY DEF RegistryInvariant
<1>2. QED
  BY <1>1, RegistryConsistent, PTL

\* The early return of commit for a lost reservation is dead code.
THEOREM ReservationsOwnedAlways == Spec => []ReservationsOwned
<1>1. RegistryInvariant => ReservationsOwned
  BY DEF RegistryInvariant, IdentifiersOwned
<1>2. QED
  BY <1>1, RegistryConsistent, PTL

-----------------------------------------------------------------------------
(* Sources, cached pages and what reads return *)

\* The conjuncts of PageInvariant that speak of one thread and of one document.
ReadOK(t) ==
  /\ \/ pc[t] = "load"
     \/ /\ pc[t] \in {"v_entry", "v_lock", "trim_snapshot", "trim"}
        /\ local[t].op \in {"source", "page"}
     \/ /\ pc[t] = "done" /\ local[t].result = "Ok"
        /\ local[t].op \in {"source", "page"}
  => local[t].got = local[t].session

CacheOK(d) ==
  /\ entry[d].source = entry[d].session_id
  /\ \A i \in DOMAIN entry[d].page_cache :
       entry[d].page_cache[i].source = entry[d].source

Pages == (\A t \in Threads : ReadOK(t)) /\ (\A d \in DocIds : CacheOK(d))

LEMMA PagesMeaning ==
  PageInvariant <=> TypeOK /\ ArgumentsOK /\ Pages
BY DEF PageInvariant, Pages, ReadOK, CacheOK, ReadsHoldTheirSource,
       CachedPagesCurrent, ResultsMatchRequest

\* A step of one thread on at most one document.
LEMMA OneThreadOneDocument ==
  ASSUME Pages, NEW t \in Threads, NEW d,
         \A u \in Threads : u # t =>
           local'[u] = local[u] /\ (pc'[u] = pc[u] \/ pc'[u] = "reserve"),
         \A e \in DocIds : e # d => entry'[e] = entry[e],
         ReadOK(t)', d \in DocIds => CacheOK(d)'
  PROVE  Pages'
<1>1. ASSUME NEW u \in Threads
      PROVE  ReadOK(u)'
  BY DEF Pages, ReadOK
<1>2. ASSUME NEW e \in DocIds
      PROVE  CacheOK(e)'
  BY DEF Pages, CacheOK
<1>3. QED
  BY <1>1, <1>2 DEF Pages

LEMMA OneThread ==
  ASSUME Pages, NEW t \in Threads, UNCHANGED entry,
         \A u \in Threads : u # t =>
           local'[u] = local[u] /\ (pc'[u] = pc[u] \/ pc'[u] = "reserve"),
         ReadOK(t)'
  PROVE  Pages'
<1>1. ASSUME NEW e \in DocIds
      PROVE  CacheOK(e)'
  BY DEF Pages, CacheOK
<1>2. ASSUME NEW u \in Threads
      PROVE  ReadOK(u)'
  BY DEF Pages, ReadOK
<1>3. QED
  BY <1>1, <1>2 DEF Pages

\* Calls start with no source and no result.
LEMMA CallPages ==
  ASSUME TypeOK, ArgumentsOK, Pages, NEW t \in Threads, CallAny(t)
  PROVE  Pages'
<1>a. pc \in [Threads -> ControlPoints] /\ local \in [Threads -> Locals]
  BY DEF TypeOK
<1>1. ASSUME NEW p \in Paths, CallOpen(t, p)
      PROVE  Pages'
  <2> DEFINE l == [NoLocals EXCEPT !.op = "open", !.path = p]
  <2>1. l \in Locals /\ l.op = "open" /\ l.path = p
    BY NoLocalsType DEF NoLocals, Locals, Ops
  <2>2. ReserveSection(t, l) /\ UNCHANGED entry
    BY <1>1 DEF CallOpen
  <2> HIDE DEF l
  <2>3. /\ \A u \in Threads : u # t => pc'[u] = pc[u] /\ local'[u] = local[u]
        /\ local'[t].op = "open" /\ pc'[t] # "load"
    BY <2>1, <2>2, ReserveSectionTypes
  <2>4. ReadOK(t)'
    BY <2>3 DEF ReadOK
  <2>5. QED
    BY <2>2, <2>3, <2>4, OneThread
<1>2. ASSUME NEW d \in DocIds, NEW s \in issued[d], CallSource(t, d, s)
      PROVE  Pages'
  <2>1. s \in SessionIds /\ "source" \in Ops
    BY DEF TypeOK, Ops
  <2>2. Call("source", d, s).result = "none" /\ Call("source", d, s) \in Locals
    BY <2>1, CallType
  <2>3. [Call("source", d, s) EXCEPT !.result = "Closed"].result = "Closed"
    BY <2>2, AssignResult DEF Results
  <2>4. ReadOK(t)'
    BY <1>2, <1>a, <2>3 DEF CallSource, Lookup, Goto, ReadOK
  <2>5. QED
    BY <1>2, <1>a, <2>4, OneThread DEF CallSource, Lookup, Goto
<1>3. ASSUME NEW d \in DocIds, NEW s \in issued[d], NEW k \in Keys, CallPage(t, d, s, k)
      PROVE  Pages'
  <2> DEFINE l == [Call("page", d, s) EXCEPT !.key = k, !.access = access_clock']
  <2>1. s \in SessionIds /\ "page" \in Ops /\ access_clock' \in Nat
    BY <1>3 DEF TypeOK, Ops, CallPage
  <2>2. Call("page", d, s) \in Locals
    BY <2>1, CallType
  <2>3. l \in Locals
    BY <2>1, <2>2 DEF Locals
  <2>4. [l EXCEPT !.result = "Closed"].result = "Closed"
    BY <2>3, AssignResult DEF Results
  <2>5. Lookup(t, l, "lock") /\ UNCHANGED entry
    BY <1>3 DEF CallPage
  <2> HIDE DEF l
  <2>6. ReadOK(t)'
    BY <1>a, <2>4, <2>5 DEF Lookup, Goto, ReadOK
  <2>7. QED
    BY <1>a, <2>5, <2>6, OneThread DEF Lookup, Goto
<1>4. ASSUME NEW d \in DocIds, NEW s \in issued[d], CallReplace(t, d, s)
      PROVE  Pages'
  <2>1. s \in SessionIds /\ "replace" \in Ops
    BY DEF TypeOK, Ops
  <2>2. Call("replace", d, s) \in Locals
    BY <2>1, CallType
  <2>3. [Call("replace", d, s) EXCEPT !.result = "Closed"].result = "Closed"
    BY <2>2, AssignResult DEF Results
  <2>4. ReadOK(t)'
    BY <1>4, <1>a, <2>3 DEF CallReplace, Lookup, Goto, ReadOK
  <2>5. QED
    BY <1>4, <1>a, <2>4, OneThread DEF CallReplace, Lookup, Goto
<1>5. ASSUME NEW d \in DocIds, NEW s \in issued[d], CallClose(t, d, s)
      PROVE  Pages'
  <2>1. ReadOK(t)'
    BY <1>5, <1>a DEF CallClose, Goto, ReadOK
  <2>2. QED
    BY <1>5, <1>a, <2>1, OneThread DEF CallClose, Goto
<1>6. QED
  BY <1>1, <1>2, <1>3, <1>4, <1>5 DEF CallAny, CallOnDocument

LEMMA StepPages ==
  ASSUME TypeOK, ArgumentsOK, Pages, NEW t \in Threads, Step(t)
  PROVE  Pages'
<1>a. /\ pc \in [Threads -> ControlPoints] /\ local \in [Threads -> Locals]
      /\ entry \in [DocIds -> DocumentEntries] /\ local[t] \in Locals
  BY DEF TypeOK
<1>b. \A d \in DocIds : entry[d].page_cache \in Seq(CachedPages)
  BY <1>a DEF DocumentEntries
<1>c. /\ ReadOK(t)
      /\ \A d \in DocIds : CacheOK(d)
  BY DEF Pages
<1> USE DEF Goto, Finish
<1>1. CASE Reserve(t)
  <2>1. /\ ReserveSection(t, local[t]) /\ UNCHANGED entry
        /\ local[t].op = "open" /\ local[t].path \in Paths
    BY <1>1 DEF Reserve, ArgumentsOK
  <2>2. /\ \A u \in Threads : u # t => pc'[u] = pc[u] /\ local'[u] = local[u]
        /\ local'[t].op = "open" /\ pc'[t] # "load"
    BY <1>a, <2>1, ReserveSectionTypes
  <2>3. ReadOK(t)'
    BY <2>2 DEF ReadOK
  <2>4. QED
    BY <2>1, <2>2, <2>3, OneThread
<1>2. CASE CancelReservation(t)
  <2>1. ReadOK(t)'
    BY <1>2, <1>a, AssignResult DEF CancelReservation, NotifyAll, ReadOK, Results, Locals
  <2>2. QED
    BY <1>2, <1>a, <2>1, OneThread DEF CancelReservation, NotifyAll
<1>3. ASSUME NEW k \in Keys, Commit(t, k)
      PROVE  Pages'
  <2>0. local[t].doc \in DocIds
    BY <1>3 DEF Commit, ArgumentsOK
  <2> PICK d \in DocIds : d = local[t].doc
    BY <2>0
  <2> DEFINE s == next_session_id
             cache == Inserted(<<>>, k, s, access_clock + 1)
  <2>1. d \in DocIds /\ s \in Sources /\ access_clock + 1 \in Nat
    BY <1>3, BoundsAssumption DEF Commit, TypeOK, Sources
  <2>2. \A i \in DOMAIN cache : cache[i].source = s
    <3>1. <<>> \in Seq(CachedPages) /\ DOMAIN <<>> = {}
      BY EmptySeq
    <3>2. QED
      BY <2>1, <3>1, InsertedPages
  <2> HIDE DEF cache
  <2>3. /\ entry'[d].source = s /\ entry'[d].session_id = s
        /\ entry'[d].page_cache = cache
        /\ \A e \in DocIds : e # d => entry'[e] = entry[e]
    BY <1>3, <1>a, <2>1 DEF Commit, cache
  <2>4. CacheOK(d)'
    BY <2>2, <2>3 DEF CacheOK
  <2>5. ReadOK(t)'
    BY <1>3, <1>a DEF Commit, NotifyAll, ReadOK, ArgumentsOK, Locals
  <2>6. QED
    BY <1>3, <1>a, <2>3, <2>4, <2>5, OneThreadOneDocument DEF Commit, NotifyAll
<1>4. CASE Identity(t)
  <2>1. ReadOK(t)'
    BY <1>4, <1>a DEF Identity, ReadOK, ArgumentsOK, Locals
  <2>2. QED
    BY <1>4, <1>a, <2>1, OneThread DEF Identity
<1>5. CASE LockStale(t)
  <2>1. ReadOK(t)'
    BY <1>5, <1>a DEF LockStale, ReadOK, Locals
  <2>2. QED
    BY <1>5, <1>a, <2>1, OneThread DEF LockStale
<1>6. CASE LockSource(t)
  <2>1. local[t].doc \in DocIds
    BY <1>6 DEF LockSource, Session, ArgumentsOK
  <2>2. ReadOK(t)'
    BY <1>6, <1>a, <1>c, <2>1 DEF LockSource, Session, ReadOK, CacheOK, Locals
  <2>3. QED
    BY <1>6, <1>a, <2>2, OneThread DEF LockSource
<1>7. CASE PageHit(t)
  <2>0. local[t].doc \in DocIds
    BY <1>7 DEF PageHit, Session, ArgumentsOK
  <2> PICK d \in DocIds : d = local[t].doc
    BY <2>0
  <2> DEFINE k == local[t].key
             cache == entry[d].page_cache
             new == Touched(cache, k, local[t].access)
  <2>1. d \in DocIds /\ cache \in Seq(CachedPages) /\ local[t].access \in Nat
    BY <1>7, <1>a, <1>b DEF Locals
  <2>a. HasKey(cache, k)
    BY <1>7 DEF PageHit
  <2>2. \A j \in DOMAIN new : \E i \in DOMAIN cache : new[j].source = cache[i].source
    <3> DEFINE access == local[t].access
    <3>1. access \in Nat
      BY <2>1
    <3> HIDE DEF cache, k, access
    <3>2. \A j \in DOMAIN Touched(cache, k, access) :
            \E i \in DOMAIN cache : Touched(cache, k, access)[j].source = cache[i].source
      BY <2>1, <2>a, <3>1, TouchedPages
    <3>3. QED
      BY <3>2 DEF access
  <2>3. \A i \in DOMAIN cache : cache[i].source = entry[d].source
    BY <1>c, <2>1 DEF CacheOK
  <2>4. PageAt(cache, k) \in DOMAIN cache
    BY <2>a, PageAtPosition
  <2>5. local'[t].got = local[t].session /\ local'[t].session = local[t].session
    BY <1>7, <1>a, <1>c, <2>1, <2>3, <2>4 DEF PageHit, Session, CacheOK, Locals
  <2>6. entry' = [entry EXCEPT ![d].page_cache = new]
    BY <1>7 DEF PageHit
  <2> HIDE DEF new
  <2>7. /\ entry'[d].page_cache = new /\ entry'[d].source = entry[d].source
        /\ entry'[d].session_id = entry[d].session_id
        /\ \A e \in DocIds : e # d => entry'[e] = entry[e]
    BY <1>a, <2>1, <2>6 DEF DocumentEntries
  <2>8. CacheOK(d)'
    BY <1>c, <2>1, <2>2, <2>3, <2>7 DEF CacheOK
  <2>9. ReadOK(t)'
    BY <2>5 DEF ReadOK
  <2>10. \A u \in Threads : u # t => local'[u] = local[u] /\ pc'[u] = pc[u]
    BY <1>7, <1>a DEF PageHit
  <2>11. QED
    BY <2>7, <2>8, <2>9, <2>10, OneThreadOneDocument
<1>8. CASE PageMiss(t)
  <2>1. local[t].doc \in DocIds
    BY <1>8 DEF PageMiss, Session, ArgumentsOK
  <2>2. ReadOK(t)'
    BY <1>8, <1>a, <1>c, <2>1 DEF PageMiss, Session, ReadOK, CacheOK, Locals
  <2>3. QED
    BY <1>8, <1>a, <2>2, OneThread DEF PageMiss
<1>9. CASE InsertPage(t)
  <2>0. local[t].doc \in DocIds
    BY <1>9 DEF InsertPage, Session, ArgumentsOK
  <2> PICK d \in DocIds : d = local[t].doc
    BY <2>0
  <2> DEFINE got == local[t].got
             cache == entry[d].page_cache
             new == Inserted(cache, local[t].key, got, local[t].access)
  <2>1. /\ d \in DocIds /\ cache \in Seq(CachedPages) /\ local[t].access \in Nat
        /\ local[t].key \in Keys /\ got \in Sources
    BY <1>9, <1>a, <1>b DEF InsertPage, Session, ArgumentsOK, Locals
  <2>2. \A j \in DOMAIN new :
          new[j].source = got \/ \E i \in DOMAIN cache : new[j] = cache[i]
    BY <2>1, InsertedPages
  <2>3. \A i \in DOMAIN cache : cache[i].source = entry[d].source
    BY <1>c, <2>1 DEF CacheOK
  <2>4. got = local[t].session /\ got = entry[d].source
    BY <1>9, <1>c, <2>1 DEF InsertPage, Session, ReadOK, CacheOK
  <2>5. entry' = [entry EXCEPT ![d].page_cache = new]
    BY <1>9 DEF InsertPage
  <2> HIDE DEF new
  <2>6. /\ entry'[d].page_cache = new /\ entry'[d].source = entry[d].source
        /\ entry'[d].session_id = entry[d].session_id
        /\ \A e \in DocIds : e # d => entry'[e] = entry[e]
    BY <1>a, <2>1, <2>5 DEF DocumentEntries
  <2>7. CacheOK(d)'
    BY <1>c, <2>1, <2>2, <2>3, <2>4, <2>6 DEF CacheOK
  <2>8. ReadOK(t)'
    BY <1>9, <2>4 DEF InsertPage, ReadOK
  <2>9. \A u \in Threads : u # t => local'[u] = local[u] /\ pc'[u] = pc[u]
    BY <1>9, <1>a DEF InsertPage
  <2>10. QED
    BY <2>6, <2>7, <2>8, <2>9, OneThreadOneDocument
<1>10. CASE LoadFails(t)
  <2>1. ReadOK(t)'
    BY <1>10, <1>a, <1>c DEF LoadFails, Session, ReadOK, Locals
  <2>2. QED
    BY <1>10, <1>a, <2>1, OneThread DEF LoadFails
<1>11. CASE ValidateEntry(t)
  <2>1. ReadOK(t)'
    BY <1>11, <1>a, <1>c DEF ValidateEntry, ReadOK, Locals
  <2>2. QED
    BY <1>11, <1>a, <2>1, OneThread DEF ValidateEntry
<1>12. CASE ValidateSession(t)
  <2>1. ReadOK(t)'
    BY <1>12, <1>a, <1>c DEF ValidateSession, Session, ReadOK, Locals
  <2>2. QED
    BY <1>12, <1>a, <2>1, OneThread DEF ValidateSession
<1>13. CASE AllocateSession(t)
  <2>1. ReadOK(t)'
    BY <1>13, <1>a DEF AllocateSession, ReadOK
  <2>2. QED
    BY <1>13, <1>a, <2>1, OneThread DEF AllocateSession
<1>14. CASE Swap(t)
  <2>1. local[t].doc \in DocIds
    BY <1>14 DEF Swap, Session, ArgumentsOK
  <2> PICK d \in DocIds : d = local[t].doc
    BY <2>1
  <2> DEFINE new == local[t].got
  <2>2. /\ entry'[d].page_cache = <<>> /\ entry'[d].source = new
        /\ entry'[d].session_id = new
        /\ \A e \in DocIds : e # d => entry'[e] = entry[e]
    BY <1>14, <1>a, <2>1 DEF Swap, DocumentEntries
  <2>3. CacheOK(d)'
    BY <2>2 DEF CacheOK
  <2>4. ReadOK(t)'
    BY <1>14, <1>a DEF Swap, ReadOK, Locals
  <2>5. \A u \in Threads : u # t => local'[u] = local[u] /\ pc'[u] = pc[u]
    BY <1>14, <1>a DEF Swap
  <2>6. QED
    BY <2>2, <2>3, <2>4, <2>5, OneThreadOneDocument
<1>15. CASE CloseTombstone(t)
  <2>1. ReadOK(t)'
    BY <1>15, <1>a DEF CloseTombstone, ReadOK, ArgumentsOK, Locals
  <2>2. QED
    BY <1>15, <1>a, <2>1, OneThread DEF CloseTombstone
<1>16. CASE CloseLock(t)
  <2>1. ReadOK(t)'
    BY <1>16, <1>a DEF CloseLock, ReadOK
  <2>2. QED
    BY <1>16, <1>a, <2>1, OneThread DEF CloseLock
<1>17. CASE CloseStale(t)
  <2>1. ReadOK(t)'
    BY <1>17, <1>a DEF CloseStale, ReadOK, ArgumentsOK, Locals
  <2>2. QED
    BY <1>17, <1>a, <2>1, OneThread DEF CloseStale
<1>18. CASE CloseRemove(t)
  <2>1. ReadOK(t)'
    BY <1>18, <1>a DEF CloseRemove, ReadOK, ArgumentsOK, Locals
  <2>2. QED
    BY <1>18, <1>a, <2>1, OneThread DEF CloseRemove
<1>19. CASE TrimSnapshot(t)
  <2>1. /\ local'[t].op = local[t].op /\ local'[t].got = local[t].got
        /\ local'[t].session = local[t].session
    BY <1>19, <1>a DEF TrimSnapshot, PassStarts, Locals
  <2>2. ReadOK(t)'
    BY <1>19, <1>a, <1>c, <2>1 DEF TrimSnapshot, ReadOK
  <2>3. QED
    BY <1>19, <1>a, <2>2, OneThread DEF TrimSnapshot
<1>20. ASSUME NEW e \in DocIds, TrimCount(t, e)
      PROVE  Pages'
  <2>1. /\ local'[t].op = local[t].op /\ local'[t].got = local[t].got
        /\ local'[t].session = local[t].session
    BY <1>20, <1>a DEF TrimCount, Locals
  <2>2. ReadOK(t)'
    BY <1>20, <1>a, <1>c, <2>1 DEF TrimCount, ReadOK
  <2>3. QED
    BY <1>20, <1>a, <2>2, OneThread DEF TrimCount
<1>21. CASE TrimPop(t)
  <2> PICK d \in 0..MaxDocId : d = local[t].oldest_doc
    BY <1>a DEF Locals
  <2> DEFINE cache == entry[d].page_cache
  <2>1. /\ local'[t].op = local[t].op /\ local'[t].got = local[t].got
        /\ local'[t].session = local[t].session
    BY <1>21, <1>a DEF TrimPop, PassStarts, Locals
  <2>2. ReadOK(t)'
    BY <1>21, <1>a, <1>c, <2>1 DEF TrimPop, ReadOK
  <2>3. \A e \in DocIds : e # d => entry'[e] = entry[e]
    BY <1>21, <1>a DEF TrimPop
  <2>4. ASSUME d \in DocIds
        PROVE  CacheOK(d)'
    <3>1. /\ entry'[d].page_cache = (IF cache = <<>> THEN cache ELSE Tail(cache))
          /\ entry'[d].source = entry[d].source
          /\ entry'[d].session_id = entry[d].session_id
      BY <1>21, <1>a, <2>4 DEF TrimPop, DocumentEntries
    <3>2. CASE cache = <<>>
      BY <1>c, <2>4, <3>1, <3>2 DEF CacheOK
    <3>3. CASE cache # <<>>
      <4>1. \A i \in DOMAIN Tail(cache) : i + 1 \in DOMAIN cache /\ Tail(cache)[i] = cache[i + 1]
        BY <1>b, <2>4, <3>3
      <4>2. QED
        BY <1>c, <2>4, <3>1, <3>3, <4>1 DEF CacheOK
    <3>4. QED
      BY <3>2, <3>3
  <2>5. \A u \in Threads : u # t => local'[u] = local[u] /\ pc'[u] = pc[u]
    BY <1>21, <1>a DEF TrimPop
  <2>6. QED
    BY <2>2, <2>3, <2>4, <2>5, OneThreadOneDocument
<1>22. CASE TrimStop(t)
  <2>1. /\ local'[t].op = local[t].op /\ local'[t].got = local[t].got
        /\ local'[t].session = local[t].session
    BY <1>22, <1>a DEF TrimStop, PassStarts, Locals
  <2>2. ReadOK(t)'
    BY <1>22, <1>a, <1>c, <2>1 DEF TrimStop, ReadOK
  <2>3. QED
    BY <1>22, <1>a, <2>2, OneThread DEF TrimStop
<1>23. CASE Return(t)
  <2>1. ReadOK(t)'
    BY <1>23, <1>a DEF Return, ReadOK
  <2>2. QED
    BY <1>23, <1>a, <2>1, OneThread DEF Return
<1>24. QED
  BY <1>1, <1>2, <1>3, <1>4, <1>5, <1>6, <1>7, <1>8, <1>9, <1>10, <1>11, <1>12, <1>13, <1>14, <1>15, <1>16, <1>17, <1>18, <1>19, <1>20, <1>21, <1>22, <1>23 DEF Step, Settle

\* A read that began under one generation of the source neither fills the cache
\* of the next one nor is returned for it, however reads, replacements and
\* closes overlap.
THEOREM PagesCorrect == Spec => []PageInvariant
<1>1. Init => PageInvariant
  <2>1. Init => Pages
    BY DEF Init, Pages, ReadOK, CacheOK, NoEntry
  <2>2. QED
    BY <2>1, InitTypes, PagesMeaning
<1>2. PageInvariant /\ [Next]_vars => PageInvariant'
  <2> SUFFICES ASSUME TypeOK, ArgumentsOK, Pages, [Next]_vars
               PROVE  TypeOK' /\ ArgumentsOK' /\ Pages'
    BY PagesMeaning DEF PageInvariant, Pages, ReadOK, CacheOK, ReadsHoldTheirSource,
                        CachedPagesCurrent, ResultsMatchRequest
  <2>1. TypeOK' /\ ArgumentsOK'
    BY NextTypes
  <2>2. ASSUME NEW t \in Threads, SpuriousWakeup(t)
        PROVE  Pages'
    <3>1. pc \in [Threads -> ControlPoints]
      BY DEF TypeOK
    <3>2. ReadOK(t)'
      BY <2>2, <3>1 DEF SpuriousWakeup, Goto, ReadOK
    <3>3. QED
      BY <2>2, <3>1, <3>2, OneThread DEF SpuriousWakeup, Goto
  <2>3. ASSUME UNCHANGED vars
        PROVE  Pages'
    BY <2>3 DEF vars, Pages, ReadOK, CacheOK
  <2>4. ASSUME NEW t \in Threads, CallAny(t)
        PROVE  Pages'
    BY <2>4, CallPages
  <2>5. ASSUME NEW t \in Threads, Step(t)
        PROVE  Pages'
    BY <2>5, StepPages
  <2>6. QED
    BY <2>1, <2>2, <2>3, <2>4, <2>5 DEF Next
<1>3. QED
  BY <1>1, <1>2, PTL DEF Spec

\* A cached page was read from the source the document has now.
THEOREM CachedPagesCurrentAlways == Spec => []CachedPagesCurrent
<1>1. PageInvariant => CachedPagesCurrent
  BY DEF PageInvariant
<1>2. QED
  BY <1>1, PagesCorrect, PTL

\* A read returns the generation it was asked for.
THEOREM ResultsMatchRequestAlways == Spec => []ResultsMatchRequest
<1>1. PageInvariant => ResultsMatchRequest
  BY DEF PageInvariant
<1>2. QED
  BY <1>1, PagesCorrect, PTL

-----------------------------------------------------------------------------
(* The steps that matter here, and all the other ones *)

\* The other threads keep their locals and wait or do not wait any more.
OthersKeep(t) ==
  \A u \in Threads : u # t =>
    /\ local'[u] = local[u]
    /\ pc'[u] = pc[u] \/ (pc[u] = "waiting" /\ pc'[u] = "reserve")

\* The open documents, as OpenDocuments sees them, stay.
DocumentsKeep ==
  /\ UNCHANGED <<documents, closed_documents>>
  /\ \A d \in DocIds : /\ entry'[d].path = entry[d].path
                       /\ entry'[d].session_id = entry[d].session_id

\* A step that nothing here depends on.
Quiet(t) ==
  /\ DocumentsKeep /\ OthersKeep(t)
  /\ UNCHANGED <<reservations, next_session_id, issued>>
  /\ pc[t] # "reserved" /\ pc'[t] \notin {"alloc", "swap"}
  /\ pc'[t] = "waiting" => local'[t].path \in Reserved

\* A step that reserves a path.
Reserves(t) ==
  /\ DocumentsKeep /\ OthersKeep(t)
  /\ UNCHANGED <<next_session_id, issued>>
  /\ pc[t] # "reserved" /\ pc'[t] = "reserved"
  /\ \E p \in Paths : /\ Free(p) /\ ~AtLimit
                      /\ local'[t].path = p
                      /\ reservations' = [reservations EXCEPT ![p] = next_document_id]

LEMMA ReserveKind ==
  ASSUME TypeOK, NEW t \in Threads, NEW l \in Locals, l.path \in Paths,
         ReserveSection(t, l), pc[t] # "reserved",
         UNCHANGED <<documents, closed_documents, entry, next_session_id, issued>>
  PROVE  Quiet(t) \/ Reserves(t)
<1>1. pc \in [Threads -> ControlPoints] /\ local \in [Threads -> Locals]
  BY DEF TypeOK
<1>2. DocumentsKeep
  BY DEF DocumentsKeep
<1>3. OthersKeep(t)
  BY <1>1 DEF ReserveSection, Goto, OthersKeep
<1>4. CASE /\ UNCHANGED reservations /\ pc'[t] \notin {"alloc", "swap"}
           /\ pc'[t] = "waiting" => local'[t].path \in Reserved
  BY <1>2, <1>3, <1>4 DEF Quiet
<1>5. CASE /\ Free(l.path) /\ ~AtLimit /\ pc'[t] = "reserved" /\ local'[t].path = l.path
           /\ reservations' = [reservations EXCEPT ![l.path] = next_document_id]
  BY <1>2, <1>3, <1>5 DEF Reserves
<1>6. CASE /\ paths[l.path] = None /\ reservations[l.path] # None
           /\ local' = [local EXCEPT ![t] = l]
           /\ Goto(t, "waiting") /\ UNCHANGED reservations
  BY <1>1, <1>4, <1>6 DEF Goto, Reserved
<1>7. CASE /\ Free(l.path) /\ ~AtLimit
           /\ reservations' = [reservations EXCEPT ![l.path] = next_document_id]
           /\ local' = [local EXCEPT ![t] = [l EXCEPT !.doc = next_document_id]]
           /\ Goto(t, "reserved")
  <2>1. [l EXCEPT !.doc = next_document_id].path = l.path
    BY DEF Locals
  <2>2. QED
    BY <1>1, <1>5, <1>7, <2>1 DEF Goto
<1>8. CASE UNCHANGED reservations /\ (Goto(t, "identity") \/ Goto(t, "done"))
  BY <1>1, <1>4, <1>8 DEF Goto
<1>9. QED
  BY <1>6, <1>7, <1>8 DEF ReserveSection

LEMMA CallKind ==
  ASSUME TypeOK, NEW t \in Threads, CallAny(t)
  PROVE  \/ Quiet(t) \/ Reserves(t)
         \/ \E d \in DocIds : \E s \in issued[d] : CallReplace(t, d, s)
<1>a. pc \in [Threads -> ControlPoints] /\ local \in [Threads -> Locals]
  BY DEF TypeOK
<1> USE DEF Goto, registry, Quiet, DocumentsKeep, OthersKeep
<1>1. ASSUME NEW p \in Paths, CallOpen(t, p)
      PROVE  Quiet(t) \/ Reserves(t)
  <2> DEFINE l == [NoLocals EXCEPT !.op = "open", !.path = p]
  <2>1. l \in Locals /\ l.path = p
    BY NoLocalsType DEF NoLocals, Locals, Ops
  <2>2. /\ ReserveSection(t, l) /\ pc[t] # "reserved"
        /\ UNCHANGED <<documents, closed_documents, entry, next_session_id, issued>>
    BY <1>1 DEF CallOpen
  <2> HIDE DEF l
  <2>3. QED
    BY <2>1, <2>2, ReserveKind
<1>2. ASSUME NEW d \in DocIds, NEW s \in issued[d], CallSource(t, d, s)
      PROVE  Quiet(t)
  BY <1>2, <1>a DEF CallSource, Lookup
<1>3. ASSUME NEW d \in DocIds, NEW s \in issued[d], NEW k \in Keys, CallPage(t, d, s, k)
      PROVE  Quiet(t)
  BY <1>3, <1>a DEF CallPage, Lookup
<1>4. ASSUME NEW d \in DocIds, NEW s \in issued[d], CallClose(t, d, s)
      PROVE  Quiet(t)
  BY <1>4, <1>a DEF CallClose, Lookup
<1>5. QED
  BY <1>1, <1>2, <1>3, <1>4 DEF CallAny, CallOnDocument

LEMMA StepKind ==
  ASSUME TypeOK, ArgumentsOK, NEW t \in Threads, Step(t)
  PROVE  \/ Quiet(t) \/ Reserves(t) \/ CancelReservation(t)
         \/ \E k \in Keys : Commit(t, k)
         \/ AllocateSession(t) \/ Swap(t) \/ CloseRemove(t)
<1>a. /\ pc \in [Threads -> ControlPoints] /\ local \in [Threads -> Locals]
      /\ entry \in [DocIds -> DocumentEntries]
  BY DEF TypeOK
<1>1. CASE Reserve(t)
  <2>1. /\ ReserveSection(t, local[t]) /\ pc[t] # "reserved"
        /\ local[t] \in Locals /\ local[t].path \in Paths
        /\ UNCHANGED <<documents, closed_documents, entry, next_session_id, issued>>
    BY <1>1, <1>a DEF Reserve, ArgumentsOK
  <2>2. QED
    BY <2>1, ReserveKind
<1> USE DEF Goto, Finish, registry, Quiet, OthersKeep
<1>b. ASSUME UNCHANGED <<documents, closed_documents, entry>>
      PROVE  DocumentsKeep
  BY <1>b DEF DocumentsKeep
<1>2. CASE Identity(t)
  BY <1>2, <1>a, <1>b DEF Identity
<1>3. CASE LockStale(t)
  BY <1>3, <1>a, <1>b DEF LockStale
<1>4. CASE LockSource(t)
  BY <1>4, <1>a, <1>b DEF LockSource, Session
<1>5. CASE PageHit(t)
  <2>1. DocumentsKeep
    BY <1>5, <1>a DEF PageHit, DocumentEntries, DocumentsKeep
  <2>2. QED
    BY <1>5, <1>a, <2>1 DEF PageHit, Session
<1>6. CASE PageMiss(t)
  BY <1>6, <1>a, <1>b DEF PageMiss, Session
<1>7. CASE InsertPage(t)
  <2>1. DocumentsKeep
    BY <1>7, <1>a DEF InsertPage, DocumentEntries, DocumentsKeep
  <2>2. QED
    BY <1>7, <1>a, <2>1 DEF InsertPage, Session
<1>8. CASE LoadFails(t)
  BY <1>8, <1>a, <1>b DEF LoadFails, Session
<1>9. CASE ValidateEntry(t)
  BY <1>9, <1>a, <1>b DEF ValidateEntry
<1>10. CASE ValidateSession(t)
  BY <1>10, <1>a, <1>b DEF ValidateSession, Session
<1>11. CASE CloseTombstone(t)
  BY <1>11, <1>a, <1>b DEF CloseTombstone
<1>12. CASE CloseLock(t)
  BY <1>12, <1>a, <1>b DEF CloseLock
<1>13. CASE CloseStale(t)
  BY <1>13, <1>a, <1>b DEF CloseStale
<1>14. CASE TrimSnapshot(t)
  BY <1>14, <1>a, <1>b DEF TrimSnapshot
<1>15. ASSUME NEW d \in DocIds, TrimCount(t, d)
       PROVE  Quiet(t)
  <2>1. DocumentsKeep /\ pc' = pc /\ pc[t] = "trim"
    BY <1>15, <1>b DEF TrimCount
  <2>2. QED
    BY <1>15, <1>a, <2>1 DEF TrimCount
<1>16. CASE TrimPop(t)
  <2>1. DocumentsKeep
    BY <1>16, <1>a DEF TrimPop, DocumentEntries, DocumentsKeep
  <2>2. QED
    BY <1>16, <1>a, <2>1 DEF TrimPop
<1>17. CASE TrimStop(t)
  BY <1>17, <1>a, <1>b DEF TrimStop
<1>18. CASE Return(t)
  BY <1>18, <1>a, <1>b DEF Return
<1>19. QED
  BY <1>1, <1>2, <1>3, <1>4, <1>5, <1>6, <1>7, <1>8, <1>9, <1>10, <1>11, <1>12, <1>13, <1>14, <1>15, <1>16, <1>17, <1>18 DEF Step, Settle

LEMMA SpuriousKind ==
  ASSUME TypeOK, NEW t \in Threads, SpuriousWakeup(t)
  PROVE  Quiet(t)
BY DEF SpuriousWakeup, TypeOK, Goto, registry, Quiet, DocumentsKeep, OthersKeep

-----------------------------------------------------------------------------
(* The document limit *)

Limited == IsFiniteSet(documents) /\ IsFiniteSet(Reserved) /\ WithinDocumentLimit

\* A path that is given up leaves the reserved paths, and no other path does.
LEMMA PathReleased ==
  ASSUME TypeOK, Limited, NEW p \in Paths, reservations[p] # None,
         reservations' = [reservations EXCEPT ![p] = None]
  PROVE  /\ IsFiniteSet(Reserved') /\ Cardinality(Reserved') \in Nat
         /\ Cardinality(Reserved') = Cardinality(Reserved) - 1
<1>1. Reserved' = Reserved \ {p} /\ p \in Reserved
  BY DEF TypeOK, Reserved
<1>2. QED
  BY <1>1, FS_RemoveElement, FS_CardinalityType DEF Limited

LEMMA InitLimited == Init => Limited
<1>1. ASSUME Init
      PROVE  Reserved = {} /\ documents = {}
  BY <1>1 DEF Init, Reserved
<1>2. QED
  BY <1>1, FS_EmptySet, BoundsAssumption DEF Limited, WithinDocumentLimit

LEMMA LimitedStep ==
  ASSUME RegistryInvariant, Limited, [Next]_vars
  PROVE  Limited'
<1>a. /\ TypeOK /\ ArgumentsOK /\ Owned /\ DocumentLimit \in Nat
  BY BoundsAssumption DEF RegistryInvariant, Owned
<1>b. /\ Cardinality(documents) \in Nat /\ Cardinality(Reserved) \in Nat
      /\ Cardinality(documents) + Cardinality(Reserved) <= DocumentLimit
  BY FS_CardinalityType DEF Limited, WithinDocumentLimit
<1>1. ASSUME UNCHANGED <<documents, reservations>>
      PROVE  Limited'
  BY <1>1 DEF Limited, Reserved, WithinDocumentLimit
<1>2. ASSUME NEW t \in Threads, Reserves(t)
      PROVE  Limited'
  <2>1. PICK p \in Paths :
          /\ Free(p) /\ ~AtLimit
          /\ reservations' = [reservations EXCEPT ![p] = next_document_id]
    BY <1>2 DEF Reserves
  <2>2. next_document_id # None /\ reservations[p] = None
    BY <1>a, <2>1, BoundsAssumption DEF TypeOK, None, Free
  <2>3. Reserved' = Reserved \union {p} /\ p \notin Reserved
    BY <1>a, <2>1, <2>2 DEF TypeOK, Reserved
  <2>4. /\ IsFiniteSet(Reserved')
        /\ Cardinality(Reserved') = Cardinality(Reserved) + 1
    BY <2>3, FS_AddElement DEF Limited
  <2>5. UNCHANGED documents
    BY <1>2 DEF Reserves, DocumentsKeep
  <2>6. Cardinality(documents) + Cardinality(Reserved) < DocumentLimit
    BY <1>a, <1>b, <2>1 DEF AtLimit
  <2>7. QED
    BY <1>a, <1>b, <2>4, <2>5, <2>6 DEF Limited, WithinDocumentLimit
<1>3. ASSUME NEW t \in Threads, CancelReservation(t)
      PROVE  Limited'
  <2> DEFINE p == local[t].path
  <2>1. /\ p \in Paths /\ reservations[p] # None /\ UNCHANGED documents
        /\ reservations' = [reservations EXCEPT ![p] = None]
    BY <1>3, <1>a DEF CancelReservation, ArgumentsOK, DocIds, None
  <2> HIDE DEF p
  <2>2. /\ IsFiniteSet(Reserved') /\ Cardinality(Reserved') \in Nat
        /\ Cardinality(Reserved') = Cardinality(Reserved) - 1
    BY <2>1, <1>a, PathReleased
  <2>3. QED
    BY <1>a, <1>b, <2>1, <2>2 DEF Limited, WithinDocumentLimit
<1>4. ASSUME NEW t \in Threads, NEW k \in Keys, Commit(t, k)
      PROVE  Limited'
  <2> DEFINE p == local[t].path
             d == local[t].doc
  <2>1. /\ p \in Paths /\ reservations[p] # None
        /\ reservations' = [reservations EXCEPT ![p] = None]
        /\ documents' = documents \union {d}
    BY <1>4, <1>a DEF Commit, ArgumentsOK, DocIds, None
  <2> HIDE DEF p, d
  <2>2. /\ IsFiniteSet(Reserved') /\ Cardinality(Reserved') \in Nat
        /\ Cardinality(Reserved') = Cardinality(Reserved) - 1
    BY <2>1, <1>a, PathReleased
  <2>3. /\ IsFiniteSet(documents') /\ Cardinality(documents') \in Nat
        /\ Cardinality(documents') <= Cardinality(documents) + 1
    <3>1. /\ IsFiniteSet(documents \union {d})
          /\ Cardinality(documents \union {d}) =
               IF d \in documents THEN Cardinality(documents) ELSE Cardinality(documents) + 1
      BY FS_AddElement DEF Limited
    <3>2. QED
      BY <1>b, <2>1, <3>1
  <2>4. QED
    BY <1>a, <1>b, <2>2, <2>3 DEF Limited, WithinDocumentLimit
<1>5. ASSUME NEW t \in Threads, CloseRemove(t)
      PROVE  Limited'
  <2>1. UNCHANGED reservations /\ documents' \subseteq documents
    BY <1>5 DEF CloseRemove, registry
  <2>2. IsFiniteSet(documents') /\ Cardinality(documents') <= Cardinality(documents)
    BY <2>1, FS_Subset DEF Limited
  <2>3. Cardinality(documents') \in Nat /\ Reserved' = Reserved
    BY <2>1, <2>2, FS_CardinalityType DEF Reserved
  <2>4. QED
    BY <1>a, <1>b, <2>2, <2>3 DEF Limited, WithinDocumentLimit
<1>6. ASSUME NEW t \in Threads, NEW d \in DocIds, NEW s \in issued[d], CallReplace(t, d, s)
      PROVE  Limited'
  BY <1>6, <1>1 DEF CallReplace, registry
<1>7. ASSUME NEW t \in Threads, AllocateSession(t)
      PROVE  Limited'
  BY <1>7, <1>1 DEF AllocateSession
<1>8. ASSUME NEW t \in Threads, Swap(t)
      PROVE  Limited'
  BY <1>8, <1>1 DEF Swap, registry
<1>9. ASSUME NEW t \in Threads, Quiet(t)
      PROVE  Limited'
  BY <1>9, <1>1 DEF Quiet, DocumentsKeep
<1>10. ASSUME NEW t \in Threads, CallAny(t) \/ Step(t) \/ SpuriousWakeup(t)
       PROVE  Limited'
  BY <1>a, <1>2, <1>3, <1>4, <1>5, <1>6, <1>7, <1>8, <1>9, <1>10, CallKind, StepKind, SpuriousKind
<1>11. CASE UNCHANGED vars
  BY <1>11, <1>1 DEF vars
<1>12. QED
  BY <1>10, <1>11 DEF Next

\* Open and reserved documents never exceed the limit, although the decision of
\* reserve_path and the commit it allows are different critical sections.
THEOREM WithinDocumentLimitAlways == Spec => []WithinDocumentLimit
<1>1. Init => Limited
  BY InitLimited
<1>2. RegistryInvariant /\ Limited /\ [Next]_vars => Limited'
  BY LimitedStep
<1>3. Limited => WithinDocumentLimit
  BY DEF Limited
<1>4. QED
  BY <1>1, <1>2, <1>3, RegistryConsistent, PTL DEF Spec

-----------------------------------------------------------------------------
(* The condition variable of the reservations *)

\* A command waits only for a path that is reserved.
WaitersWait ==
  \A t \in Threads : pc[t] = "waiting" => local[t].path \in Reserved

Held == ReservationsHeld /\ WaitersWait

LEMMA HeldStep ==
  ASSUME RegistryInvariant, Held, [Next]_vars
  PROVE  Held'
<1>a. /\ TypeOK /\ ArgumentsOK /\ IdentifiersOwned
      /\ pc \in [Threads -> ControlPoints]
  BY DEF RegistryInvariant, TypeOK
<1>1. ASSUME UNCHANGED <<reservations, pc, local>>
      PROVE  Held'
  BY <1>1 DEF Held, ReservationsHeld, WaitersWait, Reserved
<1>2. ASSUME NEW t \in Threads, UNCHANGED reservations, OthersKeep(t),
             pc[t] # "reserved", pc'[t] = "waiting" => local'[t].path \in Reserved
      PROVE  Held'
  <2>1. Reserved' = Reserved
    BY <1>2 DEF Reserved
  <2>2. ReservationsHeld'
    BY <1>2, <2>1 DEF Held, ReservationsHeld, OthersKeep
  <2>3. WaitersWait'
    BY <1>2, <2>1 DEF Held, WaitersWait, OthersKeep
  <2>4. QED
    BY <2>2, <2>3 DEF Held
<1>3. ASSUME NEW t \in Threads, Quiet(t)
      PROVE  Held'
  BY <1>2, <1>3 DEF Quiet
<1>4. ASSUME NEW t \in Threads, Reserves(t)
      PROVE  Held'
  <2>1. PICK p \in Paths :
          /\ Free(p) /\ local'[t].path = p /\ pc'[t] = "reserved"
          /\ reservations' = [reservations EXCEPT ![p] = next_document_id]
    BY <1>4 DEF Reserves
  <2>2. next_document_id # None
    BY <1>a, BoundsAssumption DEF TypeOK, None
  <2>3. Reserved' = Reserved \union {p}
    BY <1>a, <2>1, <2>2 DEF TypeOK, Reserved
  <2>4. OthersKeep(t)
    BY <1>4 DEF Reserves
  <2>5. ASSUME NEW q \in Reserved
        PROVE  \E u \in Threads : pc'[u] = "reserved" /\ local'[u].path = q
    <3>1. PICK u \in Threads : pc[u] = "reserved" /\ local[u].path = q
      BY DEF Held, ReservationsHeld
    <3>2. u # t
      BY <1>4, <3>1 DEF Reserves
    <3>3. QED
      BY <2>4, <3>1, <3>2 DEF OthersKeep
  <2>6. ReservationsHeld'
    BY <2>1, <2>3, <2>5 DEF ReservationsHeld
  <2>7. WaitersWait'
    BY <2>1, <2>3, <2>4 DEF Held, WaitersWait, OthersKeep
  <2>8. QED
    BY <2>6, <2>7 DEF Held
<1>5. ASSUME NEW t \in Threads, CancelReservation(t) \/ \E k \in Keys : Commit(t, k)
      PROVE  Held'
  <2>1. PICK p \in Paths :
          /\ p = local[t].path /\ pc[t] = "reserved"
          /\ reservations' = [reservations EXCEPT ![p] = None]
          /\ NotifyAll(t, "done") \/ NotifyAll(t, "trim_snapshot")
          /\ \A u \in Threads : u # t => local'[u] = local[u]
    BY <1>5, <1>a DEF CancelReservation, Commit, ArgumentsOK, TypeOK
  <2>2. Reserved' = Reserved \ {p}
    BY <1>a, <2>1 DEF TypeOK, Reserved
  <2>3. \A u \in Threads : pc'[u] # "waiting"
    BY <1>a, <2>1 DEF NotifyAll
  <2>4. ASSUME NEW q \in Reserved'
        PROVE  \E u \in Threads : pc'[u] = "reserved" /\ local'[u].path = q
    <3>1. PICK u \in Threads : pc[u] = "reserved" /\ local[u].path = q
      BY <2>2 DEF Held, ReservationsHeld
    <3>2. u # t
      BY <2>1, <2>2, <3>1
    <3>3. pc'[u] = pc[u]
      BY <1>a, <2>1, <3>1, <3>2 DEF NotifyAll
    <3>4. QED
      BY <2>1, <3>1, <3>2, <3>3
  <2>5. QED
    BY <2>3, <2>4 DEF Held, ReservationsHeld, WaitersWait
<1>6. ASSUME NEW t \in Threads,
             \/ AllocateSession(t) \/ Swap(t) \/ CloseRemove(t)
             \/ \E d \in DocIds : \E s \in issued[d] : CallReplace(t, d, s)
      PROVE  Held'
  <2>1. /\ UNCHANGED reservations /\ OthersKeep(t)
        /\ pc[t] # "reserved" /\ pc'[t] # "waiting"
    BY <1>6, <1>a
       DEF AllocateSession, Swap, CloseRemove, CallReplace, Lookup, Session, Finish, Goto,
           OthersKeep, registry, TypeOK
  <2>2. QED
    BY <1>2, <2>1
<1>7. ASSUME NEW t \in Threads, CallAny(t) \/ Step(t) \/ SpuriousWakeup(t)
      PROVE  Held'
  BY <1>a, <1>3, <1>4, <1>5, <1>6, <1>7, CallKind, StepKind, SpuriousKind
<1>8. CASE UNCHANGED vars
  BY <1>1, <1>8 DEF vars
<1>9. QED
  BY <1>7, <1>8 DEF Next

LEMMA HeldAlways == Spec => []Held
<1>1. Init => Held
  BY DEF Init, Held, ReservationsHeld, WaitersWait, Reserved
<1>2. RegistryInvariant /\ Held /\ [Next]_vars => Held'
  BY HeldStep
<1>3. QED
  BY <1>1, <1>2, RegistryConsistent, PTL DEF Spec

\* Every reservation of reserve_path is in the hands of a command that will commit
\* or cancel it, for any number of commands.
THEOREM ReservationsHeldAlways == Spec => []ReservationsHeld
<1>1. Held => ReservationsHeld
  BY DEF Held
<1>2. QED
  BY <1>1, HeldAlways, PTL

\* No wakeup of the condition variable is lost: a command that waits for a path
\* always waits for a command that holds it and will notify.
THEOREM NoLostWakeupAlways == Spec => []NoLostWakeup
<1>1. Held => NoLostWakeup
  BY DEF Held, ReservationsHeld, WaitersWait, NoLostWakeup
<1>2. QED
  BY <1>1, HeldAlways, PTL

-----------------------------------------------------------------------------
(* Closed documents *)

LEMMA ClosedStays ==
  ASSUME RegistryInvariant, [Next]_vars,
         NEW d \in DocIds, closed_documents[d] # {}
  PROVE  d \notin documents' /\ closed_documents'[d] = closed_documents[d]
<1>a. TypeOK /\ ArgumentsOK /\ IdentifiersOwned
  BY DEF RegistryInvariant
<1>b. /\ d \notin documents /\ \A p \in Paths : reservations[p] # d
      /\ closed_documents \in [DocIds -> SUBSET SessionIds]
  BY <1>a DEF IdentifiersOwned, TypeOK
<1>1. ASSUME UNCHANGED <<documents, closed_documents>>
      PROVE  d \notin documents' /\ closed_documents'[d] = closed_documents[d]
  BY <1>b, <1>1
<1>2. ASSUME NEW t \in Threads, NEW k \in Keys, Commit(t, k)
      PROVE  d \notin documents' /\ closed_documents'[d] = closed_documents[d]
  <2>1. local[t].doc # d
    BY <1>2, <1>a, <1>b DEF Commit, ArgumentsOK
  <2>2. QED
    BY <1>2, <1>b, <2>1 DEF Commit
<1>3. ASSUME NEW t \in Threads, CloseRemove(t)
      PROVE  d \notin documents' /\ closed_documents'[d] = closed_documents[d]
  BY <1>3, <1>b DEF CloseRemove, registry
<1>4. ASSUME NEW t \in Threads, CallAny(t) \/ Step(t) \/ SpuriousWakeup(t)
      PROVE  d \notin documents' /\ closed_documents'[d] = closed_documents[d]
  <2>1. CASE Quiet(t) \/ Reserves(t)
    BY <1>1, <2>1 DEF Quiet, Reserves, DocumentsKeep
  <2>2. CASE \/ CancelReservation(t) \/ AllocateSession(t) \/ Swap(t)
             \/ \E e \in DocIds : \E s \in issued[e] : CallReplace(t, e, s)
    BY <1>1, <2>2 DEF CancelReservation, AllocateSession, Swap, CallReplace, registry
  <2>3. QED
    BY <1>a, <1>2, <1>3, <1>4, <2>1, <2>2, CallKind, StepKind, SpuriousKind
<1>5. CASE UNCHANGED vars
  BY <1>1, <1>5 DEF vars
<1>6. QED
  BY <1>4, <1>5 DEF Next

\* Nothing opens a closed document again or leads to it: not a late commit, nor
\* a second close, nor a reservation made since.
THEOREM ClosedForGoodAlways == Spec => ClosedForGood
<1>1. ASSUME RegistryInvariant, RegistryInvariant', [Next]_vars
      PROVE  \A d \in DocIds : closed_documents[d] # {} =>
               /\ d \notin documents'
               /\ closed_documents'[d] = closed_documents[d]
               /\ \A p \in Paths : paths'[p] # d /\ reservations'[p] # d
  <2>1. ASSUME NEW d \in DocIds, closed_documents[d] # {}
        PROVE  /\ d \notin documents'
               /\ closed_documents'[d] = closed_documents[d]
               /\ \A p \in Paths : paths'[p] # d /\ reservations'[p] # d
    <3>1. d \notin documents' /\ closed_documents'[d] = closed_documents[d]
      BY <1>1, <2>1, ClosedStays
    <3>2. \A p \in Paths : paths'[p] # d
      BY <1>1, <3>1 DEF RegistryInvariant, OneDocumentPerPath, DocIds, None
    <3>3. \A p \in Paths : reservations'[p] # d
      BY <1>1, <2>1, <3>1 DEF RegistryInvariant, IdentifiersOwned
    <3>4. QED
      BY <3>1, <3>2, <3>3
  <2>2. QED
    BY <2>1
<1>2. QED
  BY <1>1, RegistryConsistent, PTL DEF Spec, ClosedForGood

-----------------------------------------------------------------------------
(* Generations *)

\* A session id that was allocated for a replacement and not installed yet.
FreshFor(t) ==
  /\ local[t].got < next_session_id /\ local[t].got > local[t].session
  /\ \A d \in DocIds : entry[d].session_id # local[t].got
  /\ \A u \in Threads : u # t /\ pc[u] = "swap" => local[u].got # local[t].got

\* Every session id in use was allocated, and the one a replacement is about to
\* install is in no other use.
Generations ==
  /\ \A d \in DocIds : entry[d].session_id < next_session_id
  /\ \A d \in DocIds : \A s \in issued[d] : s < next_session_id
  /\ \A t \in Threads : pc[t] = "alloc" => local[t].session < next_session_id
  /\ \A t \in Threads : pc[t] = "swap" => FreshFor(t)

\* A step that installs no session and brings its command to no replacement.
LEMMA QuietGenerations ==
  ASSUME TypeOK, Generations, NEW t \in Threads, OthersKeep(t),
         pc'[t] \notin {"alloc", "swap"}, UNCHANGED issued,
         UNCHANGED next_session_id,
         \A d \in DocIds : entry'[d].session_id = entry[d].session_id
  PROVE  Generations'
<1>1. \A u \in Threads : pc'[u] \in {"alloc", "swap"} =>
        u # t /\ pc'[u] = pc[u] /\ local'[u] = local[u]
  BY DEF OthersKeep
<1>2. ASSUME NEW u \in Threads, pc'[u] = "swap"
      PROVE  FreshFor(u)'
  BY <1>1, <1>2 DEF Generations, FreshFor
<1>3. QED
  BY <1>1, <1>2 DEF Generations

LEMMA CommitGenerations ==
  ASSUME TypeOK, ArgumentsOK, Generations, NEW t \in Threads, NEW k \in Keys, Commit(t, k)
  PROVE  Generations'
<1> DEFINE s == next_session_id
           d == local[t].doc
<1>1. /\ s \in Nat /\ s' = s + 1 /\ d \in DocIds
      /\ pc \in [Threads -> ControlPoints] /\ local \in [Threads -> Locals]
      /\ entry \in [DocIds -> DocumentEntries] /\ issued \in [DocIds -> SUBSET SessionIds]
  BY BoundsAssumption DEF Commit, TypeOK, ArgumentsOK
<1>2. /\ entry'[d].session_id = s
      /\ \A e \in DocIds : e # d => entry'[e] = entry[e]
      /\ issued'[d] = {s} /\ \A e \in DocIds : e # d => issued'[e] = issued[e]
  BY <1>1 DEF Commit
<1>3. \A u \in Threads : pc'[u] \in {"alloc", "swap"} =>
        u # t /\ pc'[u] = pc[u] /\ local'[u] = local[u]
  BY <1>1 DEF Commit, NotifyAll
<1>4. /\ \A e \in DocIds : entry[e].session_id \in Int
      /\ \A e \in DocIds : \A x \in issued[e] : x \in Int
      /\ \A u \in Threads : local[u].session \in Int /\ local[u].got \in Int
  BY <1>1, BoundsAssumption DEF DocumentEntries, SessionIds, Locals, Sources
<1> HIDE DEF s, d
<1>5. ASSUME NEW u \in Threads, pc'[u] = "swap"
      PROVE  FreshFor(u)'
  <2>1. FreshFor(u) /\ pc[u] = "swap" /\ local'[u] = local[u]
    BY <1>3, <1>5 DEF Generations
  <2>2. local[u].got # s /\ local[u].got < s'
    BY <1>1, <1>4, <2>1 DEF FreshFor, s
  <2>3. QED
    BY <1>2, <1>3, <2>1, <2>2 DEF FreshFor, s
<1>6. \A e \in DocIds : entry'[e].session_id < s'
  BY <1>1, <1>2, <1>4 DEF Generations, s
<1>7. \A e \in DocIds : \A x \in issued'[e] : x < s'
  BY <1>1, <1>2, <1>4 DEF Generations, s
<1>8. \A u \in Threads : pc'[u] = "alloc" => local'[u].session < s'
  BY <1>1, <1>3, <1>4 DEF Generations, s
<1>9. QED
  BY <1>5, <1>6, <1>7, <1>8 DEF Generations, s

LEMMA AllocateGenerations ==
  ASSUME TypeOK, Generations, NEW t \in Threads, AllocateSession(t)
  PROVE  Generations'
<1> DEFINE s == next_session_id
<1>1. /\ s \in Nat /\ s' = s + 1 /\ UNCHANGED <<entry, issued>> /\ pc[t] = "alloc"
      /\ pc \in [Threads -> ControlPoints] /\ local \in [Threads -> Locals]
  BY BoundsAssumption DEF AllocateSession, TypeOK
<1>2. /\ \A u \in Threads : u # t => pc'[u] = pc[u] /\ local'[u] = local[u]
      /\ pc'[t] = "swap" /\ local'[t].got = s /\ local'[t].session = local[t].session
  BY <1>1 DEF AllocateSession, Goto, Locals
<1>3. /\ \A e \in DocIds : entry[e].session_id \in Int
      /\ \A e \in DocIds : \A x \in issued[e] : x \in Int
      /\ \A u \in Threads : local[u].session \in Int /\ local[u].got \in Int
  <2>1. /\ entry \in [DocIds -> DocumentEntries] /\ issued \in [DocIds -> SUBSET SessionIds]
    BY DEF TypeOK
  <2>2. QED
    BY <1>1, <2>1, BoundsAssumption DEF DocumentEntries, SessionIds, Locals, Sources
<1>4. /\ \A e \in DocIds : entry[e].session_id < s
      /\ \A e \in DocIds : \A x \in issued[e] : x < s
      /\ local[t].session < s
      /\ \A u \in Threads : pc[u] = "swap" => FreshFor(u) /\ local[u].got < s
  BY <1>1 DEF Generations, FreshFor
<1> HIDE DEF s
<1>5. FreshFor(t)'
  <2>1. \A u \in Threads : u # t /\ pc'[u] = "swap" => local'[u].got # local'[t].got
    BY <1>1, <1>2, <1>3, <1>4
  <2>2. QED
    BY <1>1, <1>2, <1>3, <1>4, <2>1 DEF FreshFor, s
<1>6. ASSUME NEW u \in Threads, u # t, pc'[u] = "swap"
      PROVE  FreshFor(u)'
  <2>1. FreshFor(u) /\ local[u].got < s /\ local'[u] = local[u]
    BY <1>2, <1>4, <1>6
  <2>2. local'[t].got # local'[u].got
    BY <1>1, <1>2, <1>3, <2>1
  <2>3. local'[u].got < s'
    BY <1>1, <1>3, <2>1
  <2>4. QED
    BY <1>1, <1>2, <2>1, <2>2, <2>3 DEF FreshFor, s
<1>7. /\ \A e \in DocIds : entry'[e].session_id < s'
      /\ \A e \in DocIds : \A x \in issued'[e] : x < s'
  BY <1>1, <1>3, <1>4
<1>8. \A u \in Threads : pc'[u] = "alloc" => local'[u].session < s'
  BY <1>1, <1>2, <1>3 DEF Generations, s
<1>9. QED
  BY <1>5, <1>6, <1>7, <1>8 DEF Generations, s

LEMMA SwapGenerations ==
  ASSUME TypeOK, ArgumentsOK, Generations, NEW t \in Threads, Swap(t)
  PROVE  Generations'
<1> DEFINE new == local[t].got
           d == local[t].doc
<1>1. /\ d \in DocIds /\ pc[t] = "swap" /\ UNCHANGED next_session_id /\ FreshFor(t)
      /\ pc \in [Threads -> ControlPoints] /\ local \in [Threads -> Locals]
      /\ entry \in [DocIds -> DocumentEntries] /\ issued \in [DocIds -> SUBSET SessionIds]
  BY DEF Swap, Session, registry, TypeOK, ArgumentsOK, Generations
<1>2. /\ entry'[d].session_id = new
      /\ \A e \in DocIds : e # d => entry'[e] = entry[e]
      /\ \A e \in DocIds : issued'[e] \subseteq issued[e] \union {new}
  BY <1>1 DEF Swap, DocumentEntries
<1>3. \A u \in Threads : pc'[u] \in {"alloc", "swap"} =>
        u # t /\ pc'[u] = pc[u] /\ local'[u] = local[u]
  BY <1>1 DEF Swap, Goto
<1>4. new < next_session_id
  BY <1>1 DEF FreshFor
<1> HIDE DEF new, d
<1>5. ASSUME NEW u \in Threads, pc'[u] = "swap"
      PROVE  FreshFor(u)'
  <2>1. /\ FreshFor(u) /\ pc[u] = "swap" /\ local'[u] = local[u] /\ u # t
    BY <1>3, <1>5 DEF Generations
  <2>2. local[u].got # new
    BY <1>1, <2>1 DEF FreshFor, new
  <2>3. QED
    BY <1>1, <1>2, <1>3, <2>1, <2>2 DEF FreshFor
<1>6. QED
  BY <1>1, <1>2, <1>3, <1>4, <1>5 DEF Generations

LEMMA GenerationsStep ==
  ASSUME TypeOK, ArgumentsOK, Generations, [Next]_vars
  PROVE  Generations'
<1>a. pc \in [Threads -> ControlPoints] /\ local \in [Threads -> Locals]
  BY DEF TypeOK
<1>1. ASSUME NEW t \in Threads, Quiet(t) \/ Reserves(t)
      PROVE  Generations'
  BY <1>1, QuietGenerations DEF Quiet, Reserves, DocumentsKeep
<1>2. ASSUME NEW t \in Threads, CancelReservation(t)
      PROVE  Generations'
  BY <1>2, <1>a, QuietGenerations DEF CancelReservation, NotifyAll, OthersKeep
<1>3. ASSUME NEW t \in Threads, CloseRemove(t)
      PROVE  Generations'
  BY <1>3, <1>a, QuietGenerations DEF CloseRemove, Finish, Goto, registry, OthersKeep
<1>4. ASSUME NEW t \in Threads, NEW d \in DocIds, NEW s \in issued[d], CallReplace(t, d, s)
      PROVE  Generations'
  <2>1. /\ UNCHANGED <<next_session_id, entry, issued>>
        /\ \A u \in Threads : u # t => pc'[u] = pc[u] /\ local'[u] = local[u]
        /\ pc'[t] # "swap"
        /\ pc'[t] = "alloc" => local'[t].session = s
    BY <1>4, <1>a, NoLocalsType DEF CallReplace, Lookup, Goto, registry, Call, Locals
  <2>2. s < next_session_id
    BY DEF Generations
  <2>3. ASSUME NEW u \in Threads, pc'[u] = "swap"
        PROVE  FreshFor(u)'
    BY <2>1, <2>3 DEF Generations, FreshFor
  <2>4. \A u \in Threads : pc'[u] = "alloc" => local'[u].session < next_session_id'
    BY <2>1, <2>2 DEF Generations
  <2>5. QED
    BY <2>1, <2>3, <2>4 DEF Generations
<1>5. ASSUME NEW t \in Threads, CallAny(t) \/ Step(t) \/ SpuriousWakeup(t)
      PROVE  Generations'
  BY <1>1, <1>2, <1>3, <1>4, <1>5, CallKind, StepKind, SpuriousKind,
     CommitGenerations, AllocateGenerations, SwapGenerations
<1>6. CASE UNCHANGED vars
  BY <1>6 DEF vars, Generations, FreshFor
<1>7. QED
  BY <1>5, <1>6 DEF Next

-----------------------------------------------------------------------------
(* DocumentRegistry implements OpenDocuments *)

\* The refinement mapping.
OpenView == [d \in documents |->
               [file |-> entry[d].path, session |-> entry[d].session_id]]
ClosedView == {d \in DocIds : closed_documents[d] # {}}

\* A step that keeps the documents changes nothing a caller sees.
LEMMA DocumentsKeepStutters ==
  ASSUME TypeOK, DocumentsKeep
  PROVE  UNCHANGED <<OpenView, ClosedView>>
<1>1. documents' = documents /\ documents \subseteq DocIds
  BY DEF DocumentsKeep, TypeOK
<1>2. OpenView' = OpenView
  BY <1>1 DEF OpenView, DocumentsKeep
<1>3. ClosedView' = ClosedView
  BY DEF ClosedView, DocumentsKeep
<1>4. QED
  BY <1>2, <1>3

LEMMA CommitOpens ==
  ASSUME RegistryInvariant, Limited, Generations,
         NEW t \in Threads, NEW k \in Keys, Commit(t, k)
  PROVE  Documents!Next
<1> DEFINE d == local[t].doc
           p == local[t].path
           s == next_session_id
<1>1. /\ TypeOK /\ ArgumentsOK /\ IdentifiersOwned /\ OneDocumentPerPath
  BY DEF RegistryInvariant
<1>2. /\ d \in DocIds /\ p \in Paths /\ s \in SessionIds /\ reservations[p] = d
      /\ entry \in [DocIds -> DocumentEntries] /\ documents \subseteq DocIds
  BY <1>1, BoundsAssumption DEF Commit, TypeOK, ArgumentsOK, SessionIds
<1>3. /\ entry'[d].path = p /\ entry'[d].session_id = s
      /\ \A e \in DocIds : e # d => entry'[e] = entry[e]
      /\ documents' = documents \union {d} /\ UNCHANGED closed_documents
  BY <1>2 DEF Commit
<1>4. d # None /\ d \notin documents /\ paths[p] = None /\ closed_documents[d] = {}
  BY <1>1, <1>2 DEF OneDocumentPerPath, IdentifiersOwned, DocIds, None
<1>5. \A e \in documents : entry[e].path # p /\ entry[e].session_id # s
  <2>1. ASSUME NEW e \in documents
        PROVE  entry[e].path # p
    BY <1>1, <1>2, <1>4 DEF OneDocumentPerPath, DocIds, None
  <2>2. ASSUME NEW e \in documents
        PROVE  entry[e].session_id # s
    BY <1>2, BoundsAssumption DEF Generations, DocumentEntries, Sources, SessionIds
  <2>3. QED
    BY <2>1, <2>2
<1>6. Fits(documents \union {d})
  <2>1. p \in Reserved
    BY <1>2, <1>4 DEF Reserved
  <2>2. Cardinality(Reserved) \in Nat /\ Cardinality(Reserved) # 0
    BY <2>1, FS_CardinalityType, FS_EmptySet DEF Limited
  <2>3. Cardinality(documents) \in Nat
    BY FS_CardinalityType DEF Limited
  <2>4. Cardinality(documents) + 1 <= DocumentLimit
    BY <2>2, <2>3, BoundsAssumption DEF Limited, WithinDocumentLimit
  <2>5. Cardinality(documents \union {d}) = Cardinality(documents) + 1
    BY <1>4, FS_AddElement DEF Limited
  <2>6. QED
    BY <2>4, <2>5 DEF Fits
<1> HIDE DEF d, p, s
<1>7. DOMAIN OpenView = documents
  BY DEF OpenView
<1>8. \A e \in documents : OpenView[e].file # p /\ OpenView[e].session # s
  BY <1>5 DEF OpenView
<1>9. OpenView' = [e \in documents \union {d} |->
                     IF e = d THEN [file |-> p, session |-> s] ELSE OpenView[e]]
  BY <1>2, <1>3 DEF OpenView
<1>10. ClosedView' = ClosedView /\ d \notin ClosedView
  BY <1>3, <1>4 DEF ClosedView
<1>11. PICK e \in DocIds, f \in Paths, x \in SessionIds : e = d /\ f = p /\ x = s
  BY <1>2
<1>12. /\ e \notin DOMAIN OpenView \union ClosedView
       /\ \A o \in DOMAIN OpenView : OpenView[o].file # f /\ OpenView[o].session # x
       /\ Fits(DOMAIN OpenView \union {e})
       /\ OpenView' = [o \in DOMAIN OpenView \union {e} |->
                         IF o = e THEN [file |-> f, session |-> x] ELSE OpenView[o]]
       /\ ClosedView' = ClosedView
  BY <1>4, <1>6, <1>7, <1>8, <1>9, <1>10, <1>11
<1>13. QED
  BY <1>12 DEF Documents!Next, Documents!Open, OpenView, ClosedView

LEMMA SwapReplaces ==
  ASSUME RegistryInvariant, Generations, NEW t \in Threads, Swap(t)
  PROVE  Documents!Next \/ UNCHANGED <<OpenView, ClosedView>>
<1> DEFINE d == local[t].doc
           new == local[t].got
<1>1. TypeOK /\ ArgumentsOK
  BY DEF RegistryInvariant
<1>2. /\ d \in DocIds /\ new \in SessionIds /\ entry[d].session_id = local[t].session
      /\ entry \in [DocIds -> DocumentEntries] /\ documents \subseteq DocIds
      /\ FreshFor(t)
  BY <1>1 DEF Swap, Session, TypeOK, ArgumentsOK, Generations
<1>3. /\ entry'[d].path = entry[d].path /\ entry'[d].session_id = new
      /\ \A e \in DocIds : e # d => entry'[e] = entry[e]
      /\ UNCHANGED <<documents, closed_documents>>
  BY <1>2 DEF Swap, registry, DocumentEntries
<1>4. new > entry[d].session_id /\ \A e \in DocIds : entry[e].session_id # new
  BY <1>2 DEF FreshFor
<1> HIDE DEF d, new
<1>5. ClosedView' = ClosedView
  BY <1>3 DEF ClosedView
<1>6. CASE d \in documents
  <2>1. /\ DOMAIN OpenView = documents
        /\ OpenView[d].session = entry[d].session_id
        /\ \A e \in documents : OpenView[e].session # new
    BY <1>2, <1>4, <1>6 DEF OpenView
  <2>2. OpenView' = [OpenView EXCEPT ![d].session = new]
    BY <1>2, <1>3, <1>6 DEF OpenView
  <2>3. /\ d \in DOMAIN OpenView /\ new > OpenView[d].session
        /\ \A e \in DOMAIN OpenView : OpenView[e].session # new
        /\ OpenView' = [OpenView EXCEPT ![d].session = new] /\ ClosedView' = ClosedView
    BY <1>4, <1>5, <1>6, <2>1, <2>2
  <2>4. QED
    BY <1>2, <2>3 DEF Documents!Next, Documents!Replace, OpenView, ClosedView
<1>7. CASE d \notin documents
  <2>1. OpenView' = OpenView
    BY <1>2, <1>3, <1>7 DEF OpenView
  <2>2. QED
    BY <1>5, <2>1
<1>8. QED
  BY <1>6, <1>7

LEMMA CloseCloses ==
  ASSUME RegistryInvariant, NEW t \in Threads, CloseRemove(t)
  PROVE  Documents!Next \/ UNCHANGED <<OpenView, ClosedView>>
<1> DEFINE d == local[t].doc
<1>1. TypeOK /\ ArgumentsOK /\ IdentifiersOwned
  BY DEF RegistryInvariant
<1>2. d \in DocIds /\ UNCHANGED entry
  BY <1>1 DEF CloseRemove, ArgumentsOK
<1>3. CASE d \notin documents
  <2>1. UNCHANGED <<documents, closed_documents>>
    BY <1>3 DEF CloseRemove, registry
  <2>2. QED
    BY <1>1, <1>2, <2>1, DocumentsKeepStutters DEF DocumentsKeep
<1>4. CASE d \in documents
  <2>1. /\ documents' = documents \ {d}
        /\ closed_documents' = [closed_documents EXCEPT ![d] = KnownSessions(d)]
    BY <1>4 DEF CloseRemove
  <2>2. entry[d].session_id \in KnownSessions(d)
    BY <1>1, <1>4 DEF KnownSessions, IdentifiersOwned, SessionIds, None
  <2>3. closed_documents \in [DocIds -> SUBSET SessionIds]
    BY <1>1 DEF TypeOK
  <2> HIDE DEF d
  <2>4. ClosedView' = ClosedView \union {d}
    BY <1>2, <2>1, <2>2, <2>3 DEF ClosedView
  <2>5. DOMAIN OpenView = documents /\ OpenView' = [e \in documents \ {d} |-> OpenView[e]]
    BY <1>2, <2>1 DEF OpenView
  <2>6. /\ d \in DOMAIN OpenView
        /\ OpenView' = [e \in DOMAIN OpenView \ {d} |-> OpenView[e]]
        /\ ClosedView' = ClosedView \union {d}
    BY <1>4, <2>4, <2>5
  <2>7. QED
    BY <1>2, <2>6 DEF Documents!Next, Documents!Close, OpenView, ClosedView
<1>5. QED
  BY <1>3, <1>4

\* Whatever commands overlap, their callers see one atomic map of documents:
\* commit opens, replace_source installs and close removes at one instant, and
\* no other step is visible.
THEOREM ImplementsOpenDocuments == Spec => Atomic
<1>1. Init => Limited
  BY InitLimited
<1>2. Init => Generations
  BY DEF Init, Generations, NoEntry, None
<1>3. RegistryInvariant /\ Limited /\ Generations /\ [Next]_vars
        => Limited' /\ Generations'
  BY LimitedStep, GenerationsStep DEF RegistryInvariant
<1>4. Init => Documents!Init
  BY DEF Init, Documents!Init
<1>5. ASSUME RegistryInvariant, Limited, Generations, [Next]_vars
      PROVE  [Documents!Next]_<<OpenView, ClosedView>>
  <2>1. TypeOK /\ ArgumentsOK
    BY <1>5 DEF RegistryInvariant
  <2>2. ASSUME DocumentsKeep
        PROVE  UNCHANGED <<OpenView, ClosedView>>
    BY <2>1, <2>2, DocumentsKeepStutters
  <2>3. ASSUME UNCHANGED <<documents, closed_documents, entry>>
        PROVE  UNCHANGED <<OpenView, ClosedView>>
    BY <2>2, <2>3 DEF DocumentsKeep
  <2>4. ASSUME NEW t \in Threads, CallAny(t) \/ Step(t) \/ SpuriousWakeup(t)
        PROVE  Documents!Next \/ UNCHANGED <<OpenView, ClosedView>>
    <3>1. CASE Quiet(t) \/ Reserves(t)
      BY <2>2, <3>1 DEF Quiet, Reserves
    <3>2. CASE CancelReservation(t)
      BY <2>3, <3>2 DEF CancelReservation
    <3>3. ASSUME NEW d \in DocIds, NEW s \in issued[d], CallReplace(t, d, s)
          PROVE  UNCHANGED <<OpenView, ClosedView>>
      BY <2>3, <3>3 DEF CallReplace, registry
    <3>4. CASE AllocateSession(t)
      BY <2>3, <3>4 DEF AllocateSession
    <3>5. ASSUME NEW k \in Keys, Commit(t, k)
          PROVE  Documents!Next
      BY <1>5, <3>5, CommitOpens
    <3>6. CASE Swap(t)
      BY <1>5, <3>6, SwapReplaces
    <3>7. CASE CloseRemove(t)
      BY <1>5, <3>7, CloseCloses
    <3>8. QED
      BY <2>1, <2>4, <3>1, <3>2, <3>3, <3>4, <3>5, <3>6, <3>7, CallKind, StepKind, SpuriousKind
  <2>5. CASE UNCHANGED vars
    BY <2>3, <2>5 DEF vars
  <2>6. QED
    BY <1>5, <2>4, <2>5 DEF Next
<1>6. RegistryInvariant /\ Limited /\ Generations /\ [Next]_vars
        => [Documents!Next]_<<OpenView, ClosedView>>
  BY <1>5
<1>7. QED
  BY <1>1, <1>2, <1>3, <1>4, <1>6, RegistryConsistent, PTL
     DEF Spec, Atomic, Documents!Spec, OpenView, ClosedView

-----------------------------------------------------------------------------
(* The page budget *)

\* No two pages of a cache have the same key.
Once(cache) ==
  \A i, j \in DOMAIN cache : cache[i].key = cache[j].key => i = j

\* Removing an element moves the later ones one place forward.
LEMMA RemovedAt ==
  ASSUME NEW S, NEW cache \in Seq(S), NEW i \in DOMAIN cache
  PROVE  /\ DOMAIN Removed(cache, i) = 1..(Len(cache) - 1)
         /\ \A j \in 1..(Len(cache) - 1) :
              Removed(cache, i)[j] = IF j < i THEN cache[j] ELSE cache[j + 1]
<1>1. /\ i \in 1..Len(cache) /\ DOMAIN cache = 1..Len(cache)
      /\ Len(cache) \in Nat /\ i \in Int
  OBVIOUS
<1> DEFINE front == SubSeq(cache, 1, i - 1)
           back == SubSeq(cache, i + 1, Len(cache))
<1>2. /\ front \in Seq(S) /\ Len(front) = i - 1
      /\ \A j \in 1..(i - 1) : front[j] = cache[j]
  BY <1>1
<1>3. /\ back \in Seq(S) /\ Len(back) = Len(cache) - i
      /\ \A j \in 1..(Len(cache) - i) : back[j] = cache[i + j]
  BY <1>1
<1>4. Removed(cache, i) = front \o back
  BY DEF Removed
<1> HIDE DEF front, back
<1>5. front \o back \in Seq(S) /\ Len(front \o back) = Len(cache) - 1
  <2>1. Len(front \o back) = (i - 1) + (Len(cache) - i)
    BY <1>2, <1>3, ConcatProperties
  <2>2. QED
    BY <1>1, <1>2, <1>3, <2>1, ConcatProperties
<1>6. ASSUME NEW j \in 1..(Len(cache) - 1), j < i
      PROVE  (front \o back)[j] = cache[j]
  <2>1. (front \o back)[j] = front[j]
    BY <1>1, <1>2, <1>3, <1>6
  <2>2. QED
    BY <1>1, <1>2, <1>6, <2>1
<1>7. ASSUME NEW j \in 1..(Len(cache) - 1), j >= i
      PROVE  (front \o back)[j] = cache[j + 1]
  <2>1. (front \o back)[j] = back[j - (i - 1)]
    BY <1>1, <1>2, <1>3, <1>7
  <2>2. back[j - (i - 1)] = cache[i + (j - (i - 1))]
    BY <1>1, <1>3, <1>7
  <2>3. i + (j - (i - 1)) = j + 1
    BY <1>1
  <2>4. QED
    BY <2>1, <2>2, <2>3
<1>8. \A j \in 1..(Len(cache) - 1) : j < i \/ j >= i
  BY <1>1
<1>9. DOMAIN (front \o back) = 1..(Len(cache) - 1)
  BY <1>5
<1>10. ASSUME NEW j \in 1..(Len(cache) - 1)
       PROVE  (front \o back)[j] = IF j < i THEN cache[j] ELSE cache[j + 1]
  BY <1>6, <1>7, <1>8
<1>11. QED
  BY <1>4, <1>9, <1>10

\* Without a key, a cache keeps every other key once.
LEMMA WithoutKeyOnce ==
  ASSUME NEW cache \in Seq(CachedPages), Once(cache), NEW key
  PROVE  /\ Once(WithoutKey(cache, key))
         /\ \A j \in DOMAIN WithoutKey(cache, key) :
              WithoutKey(cache, key)[j].key # key
<1>1. CASE HasKey(cache, key)
  <2> DEFINE at == PageAt(cache, key)
  <2>1. at \in DOMAIN cache /\ cache[at].key = key
    BY <1>1 DEF HasKey, PageAt
  <2>2. WithoutKey(cache, key) = Removed(cache, at)
    BY <1>1 DEF WithoutKey
  <2> HIDE DEF at
  <2>3. /\ DOMAIN Removed(cache, at) = 1..(Len(cache) - 1)
        /\ \A j \in 1..(Len(cache) - 1) :
             Removed(cache, at)[j] = IF j < at THEN cache[j] ELSE cache[j + 1]
    BY <2>1, RemovedAt
  <2>4. /\ DOMAIN cache = 1..Len(cache) /\ Len(cache) \in Nat /\ at \in 1..Len(cache)
    BY <2>1
  <2>5. ASSUME NEW j \in 1..(Len(cache) - 1)
        PROVE  Removed(cache, at)[j].key # key
    <3>1. CASE j < at
      BY <2>1, <2>3, <2>4, <3>1 DEF Once
    <3>2. CASE ~(j < at)
      <4>1. Removed(cache, at)[j] = cache[j + 1] /\ j + 1 \in DOMAIN cache /\ j + 1 # at
        BY <2>3, <2>4, <3>2
      <4>2. QED
        BY <2>1, <4>1 DEF Once
    <3>3. QED
      BY <3>1, <3>2
  <2>6. ASSUME NEW i \in 1..(Len(cache) - 1), NEW j \in 1..(Len(cache) - 1),
               Removed(cache, at)[i].key = Removed(cache, at)[j].key
        PROVE  i = j
    <3> DEFINE p == IF i < at THEN i ELSE i + 1
               q == IF j < at THEN j ELSE j + 1
    <3>1. p \in DOMAIN cache /\ q \in DOMAIN cache
      BY <2>4
    <3>2. Removed(cache, at)[i] = cache[p] /\ Removed(cache, at)[j] = cache[q]
      BY <2>3
    <3>3. p = q
      BY <2>6, <3>1, <3>2 DEF Once
    <3>4. QED
      BY <2>4, <3>3
  <2>7. QED
    BY <2>2, <2>3, <2>5, <2>6 DEF Once
<1>2. CASE ~HasKey(cache, key)
  BY <1>2 DEF WithoutKey, HasKey
<1>3. QED
  BY <1>1, <1>2

\* A page with a new key at the end, and a page dropped from the front.
LEMMA AppendedOnce ==
  ASSUME NEW cache \in Seq(CachedPages), Once(cache), NEW page \in CachedPages,
         \A j \in DOMAIN cache : cache[j].key # page.key
  PROVE  Once(Append(cache, page))
<1>1. /\ Len(Append(cache, page)) = Len(cache) + 1
      /\ \A j \in 1..Len(cache) : Append(cache, page)[j] = cache[j]
      /\ Append(cache, page)[Len(cache) + 1] = page
      /\ DOMAIN cache = 1..Len(cache) /\ Len(cache) \in Nat
      /\ Append(cache, page) \in Seq(CachedPages)
  OBVIOUS
<1>a. DOMAIN Append(cache, page) = 1..(Len(cache) + 1)
  BY <1>1
<1>2. SUFFICES ASSUME NEW i \in 1..(Len(cache) + 1), NEW j \in 1..(Len(cache) + 1),
                      Append(cache, page)[i].key = Append(cache, page)[j].key
               PROVE  i = j
  BY <1>1, <1>a DEF Once
<1>3. CASE i \in 1..Len(cache) /\ j \in 1..Len(cache)
  BY <1>1, <1>2, <1>3 DEF Once
<1>4. CASE i = Len(cache) + 1 /\ j \in 1..Len(cache)
  BY <1>1, <1>2, <1>4
<1>5. CASE i \in 1..Len(cache) /\ j = Len(cache) + 1
  BY <1>1, <1>2, <1>5
<1>6. QED
  BY <1>1, <1>3, <1>4, <1>5

LEMMA TailPages ==
  ASSUME NEW cache \in Seq(CachedPages), cache # <<>>
  PROVE  /\ Tail(cache) \in Seq(CachedPages)
         /\ Once(cache) => Once(Tail(cache))
         /\ \A j \in DOMAIN Tail(cache) : \E k \in DOMAIN cache : Tail(cache)[j] = cache[k]
<1>1. /\ Tail(cache) \in Seq(CachedPages) /\ Len(Tail(cache)) = Len(cache) - 1
      /\ Len(cache) \in Nat /\ Len(cache) > 0
      /\ DOMAIN cache = 1..Len(cache) /\ DOMAIN Tail(cache) = 1..(Len(cache) - 1)
      /\ \A j \in 1..(Len(cache) - 1) : Tail(cache)[j] = cache[j + 1]
  OBVIOUS
<1>2. \A j \in 1..(Len(cache) - 1) : j + 1 \in DOMAIN cache /\ Tail(cache)[j] = cache[j + 1]
  BY <1>1
<1>3. ASSUME Once(cache), NEW i \in 1..(Len(cache) - 1), NEW j \in 1..(Len(cache) - 1),
             Tail(cache)[i].key = Tail(cache)[j].key
      PROVE  i = j
  <2>1. i + 1 = j + 1
    BY <1>2, <1>3 DEF Once
  <2>2. QED
    BY <2>1
<1>4. QED
  BY <1>1, <1>2, <1>3 DEF Once

\* A page is named by its document, the source it was read from and its key.
PageNames == [doc : DocIds, source : Sources, key : Keys]

Shows(cache, n) ==
  \E i \in DOMAIN cache : cache[i].source = n.source /\ cache[i].key = n.key

Cached(n) == n.doc \in documents /\ Shows(entry[n.doc].page_cache, n)

\* What insert_at and get_at do to the names in a cache.
LEMMA InsertedNames ==
  ASSUME NEW cache \in Seq(CachedPages), Once(cache), NEW key \in Keys,
         NEW source \in Sources, NEW access \in Nat
  PROVE  /\ Once(Inserted(cache, key, source, access))
         /\ \A n \in PageNames :
              Shows(Inserted(cache, key, source, access), n) =>
                Shows(cache, n) \/ (n.source = source /\ n.key = key)
<1> DEFINE page == [key |-> key, source |-> source, last_access |-> access]
           rest == WithoutKey(cache, key)
           queue == Append(rest, page)
<1>1. page \in CachedPages /\ page.source = source /\ page.key = key
  BY DEF CachedPages
<1>2. /\ rest \in Seq(CachedPages)
      /\ \A j \in DOMAIN rest : \E k \in DOMAIN cache : rest[j] = cache[k]
  BY WithoutKeyPages
<1>3. Once(rest) /\ \A j \in DOMAIN rest : rest[j].key # key
  BY WithoutKeyOnce
<1>4. /\ Inserted(cache, key, source, access)
           = IF Len(queue) > PageCacheCapacity THEN Tail(queue) ELSE queue
  BY DEF Inserted
<1> HIDE DEF page, rest
<1>5. Once(queue)
  BY <1>1, <1>2, <1>3, AppendedOnce
<1>6. /\ queue \in Seq(CachedPages) /\ queue # <<>> /\ Len(queue) = Len(rest) + 1
      /\ \A j \in 1..Len(rest) : queue[j] = rest[j]
      /\ queue[Len(rest) + 1] = page
  BY <1>1, <1>2
<1>7. \A j \in DOMAIN queue : queue[j] = page \/ \E k \in DOMAIN cache : queue[j] = cache[k]
  BY <1>2, <1>6
<1> HIDE DEF queue
<1>8. /\ Once(Tail(queue))
      /\ \A j \in DOMAIN Tail(queue) : \E k \in DOMAIN queue : Tail(queue)[j] = queue[k]
  BY <1>5, <1>6, TailPages
<1>9. CASE Len(queue) > PageCacheCapacity
  BY <1>1, <1>4, <1>7, <1>8, <1>9 DEF Shows
<1>10. CASE ~(Len(queue) > PageCacheCapacity)
  BY <1>1, <1>4, <1>5, <1>7, <1>10 DEF Shows
<1>11. QED
  BY <1>9, <1>10

LEMMA TouchedNames ==
  ASSUME NEW cache \in Seq(CachedPages), Once(cache), NEW key, HasKey(cache, key),
         NEW access \in Nat
  PROVE  /\ Once(Touched(cache, key, access))
         /\ \A n \in PageNames : Shows(Touched(cache, key, access), n) => Shows(cache, n)
<1> DEFINE at == PageAt(cache, key)
           page == [cache[at] EXCEPT !.last_access = access]
           rest == WithoutKey(cache, key)
           queue == Append(rest, page)
<1>1. at \in DOMAIN cache /\ cache[at].key = key
  BY DEF HasKey, PageAt
<1>2. Touched(cache, key, access) = queue
  BY DEF Touched
<1> HIDE DEF at
<1>3. cache[at] \in CachedPages
  BY <1>1
<1>4. page \in CachedPages /\ page.source = cache[at].source /\ page.key = cache[at].key
  BY <1>3 DEF CachedPages
<1>5. /\ rest \in Seq(CachedPages)
      /\ \A j \in DOMAIN rest : \E k \in DOMAIN cache : rest[j] = cache[k]
  BY WithoutKeyPages
<1>6. Once(rest) /\ \A j \in DOMAIN rest : rest[j].key # key
  BY WithoutKeyOnce
<1> HIDE DEF page, rest
<1>7. Once(queue)
  BY <1>1, <1>4, <1>5, <1>6, AppendedOnce
<1>8. /\ queue \in Seq(CachedPages) /\ Len(queue) = Len(rest) + 1
      /\ \A j \in 1..Len(rest) : queue[j] = rest[j]
      /\ queue[Len(rest) + 1] = page
  BY <1>4, <1>5
<1>9. \A j \in DOMAIN queue : queue[j] = page \/ \E k \in DOMAIN cache : queue[j] = cache[k]
  BY <1>5, <1>8
<1> HIDE DEF queue
<1>10. QED
  BY <1>1, <1>2, <1>4, <1>7, <1>9 DEF Shows

-----------------------------------------------------------------------------
(* The ledger of the budget.  B are the pages that the last pass of        *)
(* trim_cache counted before it stopped, R the commands that inserted a    *)
(* page since that pass began, w their pages.  Late are the passes under   *)
(* way that began later; A[t] the commands that inserted since the         *)
(* snapshot of t, C[t] the pages t has counted.                            *)

Covered(n, pages, who, w) == n \in pages \/ \E u \in who : w[u] = n

PassAgrees(t, R, w, after, counted) ==
  /\ pc[t] = "trim" /\ t \notin after /\ after \subseteq R
  /\ IsFiniteSet(counted) /\ Cardinality(counted) <= local[t].pages
  /\ local[t].todo \subseteq local[t].entries
  /\ \A n \in PageNames :
       Cached(n) /\ n.doc \notin local[t].todo => Covered(n, counted, after, w)
  /\ \A n \in PageNames :
       Cached(n) /\ n.doc \notin local[t].entries => Covered(n, {}, after, w)

Ledger(R, B, w, Late, A, C) ==
  /\ R \subseteq OwesTrim
  /\ IsFiniteSet(B) /\ Cardinality(B) <= TotalCacheCapacity
  /\ \A n \in PageNames : Cached(n) => Covered(n, B, R, w)
  /\ \A u \in R : w[u].doc = local[u].doc /\ w[u].source = local[u].session
  /\ \A t \in Threads : pc[t] = "trim" => t \in Late \/ t \notin R
  /\ Late \subseteq Threads
  /\ \A t \in Late : PassAgrees(t, R, w, A[t], C[t])
  /\ \A t, v \in Late : A[t] \subseteq A[v] \/ A[v] \subseteq A[t]

Balanced == \E R, B, w, Late, A, C : Ledger(R, B, w, Late, A, C)

\* No step adds a page, or it adds only this one.
NoMorePages == \A n \in PageNames : Cached(n)' => Cached(n)

LEMMA OthersOwe ==
  ASSUME NEW t \in Threads, OthersKeep(t), NEW u \in Threads, u # t
  PROVE  /\ (u \in OwesTrim)' <=> u \in OwesTrim
         /\ pc'[u] = "trim" <=> pc[u] = "trim"
         /\ local'[u] = local[u]
BY DEF OthersKeep, OwesTrim

\* A late pass of another thread, while no page is added.
LEMMA OtherPassStays ==
  ASSUME NEW t \in Threads, OthersKeep(t), NEW v \in Threads, v # t, NoMorePages,
         NEW R, NEW R2, NEW w, NEW after, NEW counted, PassAgrees(v, R, w, after, counted),
         after \subseteq R2
  PROVE  PassAgrees(v, R2, w, after, counted)'
BY OthersOwe DEF PassAgrees, NoMorePages

\* A step of a command that does not owe a trim.
LEMMA LedgerQuiet ==
  ASSUME NEW t \in Threads, OthersKeep(t), NoMorePages, t \notin OwesTrim,
         NEW R, NEW B, NEW w, NEW Late, NEW A, NEW C, Ledger(R, B, w, Late, A, C)
  PROVE  Ledger(R, B, w, Late, A, C)'
<1>1. t \notin R /\ t \notin Late
  BY DEF Ledger, PassAgrees, OwesTrim
<1>2. OwesTrim \subseteq Threads
  BY DEF OwesTrim
<1>3. R \subseteq OwesTrim' /\ \A u \in R : local'[u] = local[u]
  BY <1>1, <1>2, OthersOwe DEF Ledger
<1>4. \A v \in Late : PassAgrees(v, R, w, A[v], C[v])'
  <2>1. ASSUME NEW v \in Late
        PROVE  PassAgrees(v, R, w, A[v], C[v])'
    <3>1. PassAgrees(v, R, w, A[v], C[v]) /\ v \in Threads /\ A[v] \subseteq R
      BY DEF Ledger, PassAgrees
    <3>2. QED
      BY <1>1, <3>1, OtherPassStays
  <2>2. QED
    BY <2>1
<1>5. \A v \in Threads : pc'[v] = "trim" => v \in Late \/ v \notin R
  BY <1>1, OthersOwe DEF Ledger
<1>6. QED
  BY <1>1, <1>3, <1>4, <1>5 DEF Ledger, NoMorePages

\* A command that owes a trim goes on to it.
LEMMA LedgerGoes ==
  ASSUME NEW t \in Threads, OthersKeep(t), NoMorePages,
         pc[t] # "trim", pc'[t] # "trim", t \in OwesTrim',
         local'[t].doc = local[t].doc, local'[t].session = local[t].session,
         NEW R, NEW B, NEW w, NEW Late, NEW A, NEW C, Ledger(R, B, w, Late, A, C)
  PROVE  Ledger(R, B, w, Late, A, C)'
<1>1. t \notin Late
  BY DEF Ledger, PassAgrees
<1>2. OwesTrim \subseteq Threads
  BY DEF OwesTrim
<1>3. /\ R \subseteq OwesTrim'
      /\ \A u \in R : local'[u].doc = local[u].doc /\ local'[u].session = local[u].session
  BY <1>2, OthersOwe DEF Ledger
<1>4. \A v \in Late : PassAgrees(v, R, w, A[v], C[v])'
  <2>1. ASSUME NEW v \in Late
        PROVE  PassAgrees(v, R, w, A[v], C[v])'
    <3>1. PassAgrees(v, R, w, A[v], C[v]) /\ v \in Threads /\ A[v] \subseteq R
      BY DEF Ledger, PassAgrees
    <3>2. QED
      BY <1>1, <3>1, OtherPassStays
  <2>2. QED
    BY <2>1
<1>5. \A v \in Threads : pc'[v] = "trim" => v \in Late \/ v \notin R
  BY OthersOwe DEF Ledger
<1>6. QED
  BY <1>3, <1>4, <1>5 DEF Ledger, NoMorePages

\* A command whose page is gone gives up its trim.
LEMMA LedgerLeaves ==
  ASSUME NEW t \in Threads, OthersKeep(t), NoMorePages, pc[t] # "trim", pc'[t] # "trim",
         \A n \in PageNames :
           ~(Cached(n)' /\ n.doc = local[t].doc /\ n.source = local[t].session),
         NEW R, NEW B, NEW w, NEW Late, NEW A, NEW C, Ledger(R, B, w, Late, A, C)
  PROVE  Balanced'
<1>1. PICK R2 : R2 = R \ {t}
  OBVIOUS
<1>2. PICK A2 : A2 = [v \in Threads |-> A[v] \ {t}]
  OBVIOUS
<1>3. t \notin Late /\ Late \subseteq Threads
  BY DEF Ledger, PassAgrees
<1>4. OwesTrim \subseteq Threads
  BY DEF OwesTrim
<1>5. R2 \subseteq OwesTrim' /\ \A u \in R2 : local'[u] = local[u]
  BY <1>1, <1>4, OthersOwe DEF Ledger
<1>6. ASSUME t \in R
      PROVE  \A n \in PageNames : Cached(n)' => w[t] # n
  BY <1>6 DEF Ledger
<1>7. \A n \in PageNames : Cached(n)' => Covered(n, B, R2, w)
  BY <1>1, <1>6 DEF Ledger, NoMorePages, Covered
<1>8. ASSUME NEW v \in Late
      PROVE  PassAgrees(v, R2, w, A2[v], C[v])'
  <2>1. PassAgrees(v, R, w, A[v], C[v]) /\ v \in Threads /\ v # t
    BY <1>3 DEF Ledger
  <2>2. A2[v] = A[v] \ {t} /\ A2[v] \subseteq R2
    BY <1>1, <1>2, <2>1 DEF PassAgrees
  <2>3. t \in A[v] => t \in R
    BY <2>1 DEF PassAgrees
  <2>4. pc'[v] = "trim" /\ local'[v] = local[v]
    BY <2>1, OthersOwe DEF PassAgrees
  <2>5. \A n \in PageNames : Cached(n)' /\ n.doc \notin local'[v].todo
                               => Covered(n, C[v], A2[v], w)
    BY <1>6, <2>1, <2>2, <2>3, <2>4 DEF PassAgrees, NoMorePages, Covered
  <2>6. \A n \in PageNames : Cached(n)' /\ n.doc \notin local'[v].entries
                               => Covered(n, {}, A2[v], w)
    BY <1>6, <2>1, <2>2, <2>3, <2>4 DEF PassAgrees, NoMorePages, Covered
  <2>7. QED
    BY <2>1, <2>2, <2>4, <2>5, <2>6 DEF PassAgrees
<1>9. \A v, x \in Late : A2[v] \subseteq A2[x] \/ A2[x] \subseteq A2[v]
  BY <1>2, <1>3 DEF Ledger
<1>10. \A v \in Threads : pc'[v] = "trim" => v \in Late \/ v \notin R2
  BY <1>1, OthersOwe DEF Ledger
<1>11. Ledger(R2, B, w, Late, A2, C)'
  BY <1>1, <1>3, <1>5, <1>7, <1>8, <1>9, <1>10 DEF Ledger
<1>12. QED
  BY <1>11 DEF Balanced

\* A command inserts the page m and owes a trim.
LEMMA LedgerInserts ==
  ASSUME NEW t \in Threads, OthersKeep(t), t \notin OwesTrim, t \in OwesTrim',
         pc'[t] # "trim", NEW m \in PageNames,
         m.doc = local'[t].doc, m.source = local'[t].session,
         \A n \in PageNames : Cached(n)' => Cached(n) \/ n = m,
         NEW R, NEW B, NEW w, NEW Late, NEW A, NEW C, Ledger(R, B, w, Late, A, C)
  PROVE  Balanced'
<1>1. PICK R2 : R2 = R \union {t}
  OBVIOUS
<1>2. PICK A2 : A2 = [v \in Threads |-> A[v] \union {t}]
  OBVIOUS
<1>3. PICK w2 : w2 = [v \in Threads |-> IF v = t THEN m ELSE w[v]]
  OBVIOUS
<1>4. t \notin R /\ t \notin Late /\ Late \subseteq Threads /\ R \subseteq Threads
  BY DEF Ledger, PassAgrees, OwesTrim
<1>5. w2[t] = m /\ \A u \in R : w2[u] = w[u]
  BY <1>3, <1>4
<1>6. R2 \subseteq OwesTrim' /\ \A u \in R : local'[u] = local[u]
  BY <1>1, <1>4, OthersOwe DEF Ledger
<1>7. \A u \in R2 : w2[u].doc = local'[u].doc /\ w2[u].source = local'[u].session
  BY <1>1, <1>5, <1>6 DEF Ledger
<1>8. \A n \in PageNames : Cached(n)' => Covered(n, B, R2, w2)
  BY <1>1, <1>5 DEF Ledger, Covered
<1>9. ASSUME NEW v \in Late
      PROVE  PassAgrees(v, R2, w2, A2[v], C[v])'
  <2>1. PassAgrees(v, R, w, A[v], C[v]) /\ v \in Threads /\ v # t
    BY <1>4 DEF Ledger
  <2>2. A2[v] = A[v] \union {t} /\ A2[v] \subseteq R2 /\ A[v] \subseteq R
    BY <1>1, <1>2, <2>1 DEF PassAgrees
  <2>3. pc'[v] = "trim" /\ local'[v] = local[v]
    BY <2>1, OthersOwe DEF PassAgrees
  <2>4. \A n \in PageNames : Cached(n)' /\ n.doc \notin local'[v].todo
                               => Covered(n, C[v], A2[v], w2)
    BY <1>5, <2>1, <2>2, <2>3 DEF PassAgrees, Covered
  <2>5. \A n \in PageNames : Cached(n)' /\ n.doc \notin local'[v].entries
                               => Covered(n, {}, A2[v], w2)
    BY <1>5, <2>1, <2>2, <2>3 DEF PassAgrees, Covered
  <2>6. QED
    BY <2>1, <2>2, <2>3, <2>4, <2>5 DEF PassAgrees
<1>10. \A v, x \in Late : A2[v] \subseteq A2[x] \/ A2[x] \subseteq A2[v]
  BY <1>2, <1>4 DEF Ledger
<1>11. \A v \in Threads : pc'[v] = "trim" => v \in Late \/ v \notin R2
  BY <1>1, OthersOwe DEF Ledger
<1>12. Ledger(R2, B, w2, Late, A2, C)'
  BY <1>4, <1>6, <1>7, <1>8, <1>9, <1>10, <1>11 DEF Ledger
<1>13. QED
  BY <1>12 DEF Balanced

\* trim_cache takes its snapshot: a pass begins that is later than the last to stop.
LEMMA LedgerStarts ==
  ASSUME TypeOK, NEW t \in Threads, TrimSnapshot(t),
         NEW R, NEW B, NEW w, NEW Late, NEW A, NEW C, Ledger(R, B, w, Late, A, C)
  PROVE  Balanced'
<1>1. PICK L2 : L2 = Late \union {t}
  OBVIOUS
<1>2. PICK A2 : A2 = [v \in Threads |-> IF v = t THEN {} ELSE A[v]]
  OBVIOUS
<1>3. PICK C2 : C2 = [v \in Threads |-> IF v = t THEN {} ELSE C[v]]
  OBVIOUS
<1>4. /\ pc \in [Threads -> ControlPoints] /\ local \in [Threads -> Locals]
      /\ documents \in SUBSET DocIds
  BY DEF TypeOK
<1>5. /\ pc'[t] = "trim" /\ pc[t] = "trim_snapshot" /\ UNCHANGED <<documents, entry>>
      /\ local'[t].entries = documents /\ local'[t].todo = documents /\ local'[t].pages = 0
      /\ local'[t].doc = local[t].doc /\ local'[t].session = local[t].session
      /\ local' = [local EXCEPT ![t] = PassStarts(local[t], documents)]
  BY <1>4 DEF TrimSnapshot, Goto, registry, PassStarts, Locals
<1>6. OthersKeep(t) /\ NoMorePages
  BY <1>4, <1>5 DEF TrimSnapshot, Goto, OthersKeep, NoMorePages, Cached
<1>7. t \notin Late /\ Late \subseteq Threads /\ R \subseteq Threads
  BY <1>5 DEF Ledger, PassAgrees, OwesTrim
<1>8. /\ R \subseteq OwesTrim'
      /\ \A u \in R : local'[u].doc = local[u].doc /\ local'[u].session = local[u].session
  BY <1>5, <1>6, <1>7, OthersOwe DEF Ledger, OwesTrim
<1>9. ASSUME NEW v \in Late
      PROVE  PassAgrees(v, R, w, A2[v], C2[v])'
  <2>1. PassAgrees(v, R, w, A[v], C[v]) /\ v \in Threads /\ v # t /\ A[v] \subseteq R
    BY <1>7 DEF Ledger, PassAgrees
  <2>2. A2[v] = A[v] /\ C2[v] = C[v]
    BY <1>2, <1>3, <2>1
  <2>3. PassAgrees(v, R, w, A[v], C[v])'
    BY <1>6, <2>1, OtherPassStays
  <2>4. QED
    BY <2>2, <2>3
<1>10. PassAgrees(t, R, w, A2[t], C2[t])'
  <2>1. A2[t] = {} /\ C2[t] = {}
    BY <1>2, <1>3
  <2>2. \A n \in PageNames : Cached(n)' => n.doc \in local'[t].todo /\ n.doc \in local'[t].entries
    BY <1>5 DEF Cached
  <2>3. QED
    BY <1>5, <2>1, <2>2, FS_EmptySet DEF PassAgrees
<1>11. \A v, x \in L2 : A2[v] \subseteq A2[x] \/ A2[x] \subseteq A2[v]
  BY <1>1, <1>2, <1>7 DEF Ledger
<1>12. \A v \in Threads : pc'[v] = "trim" => v \in L2 \/ v \notin R
  BY <1>1, <1>6, OthersOwe DEF Ledger
<1>13. Ledger(R, B, w, L2, A2, C2)'
  BY <1>1, <1>6, <1>7, <1>8, <1>9, <1>10, <1>11, <1>12 DEF Ledger, NoMorePages
<1>14. QED
  BY <1>13 DEF Balanced

\* The names of the pages of one cache, no more than it has pages.
NamesOf(d, cache) ==
  {[doc |-> d, source |-> cache[i].source, key |-> cache[i].key] : i \in DOMAIN cache}

LEMMA NamesCounted ==
  ASSUME NEW d, NEW cache \in Seq(CachedPages)
  PROVE  /\ IsFiniteSet(NamesOf(d, cache)) /\ Cardinality(NamesOf(d, cache)) <= Len(cache)
         /\ Cardinality(NamesOf(d, cache)) \in Nat /\ Len(cache) \in Nat
<1> DEFINE f == [i \in 1..Len(cache) |->
                   [doc |-> d, source |-> cache[i].source, key |-> cache[i].key]]
<1>1. DOMAIN cache = 1..Len(cache) /\ Len(cache) \in Nat
  OBVIOUS
<1>2. f \in Surjection(1..Len(cache), NamesOf(d, cache))
  BY <1>1 DEF Surjection, NamesOf
<1>3. IsFiniteSet(1..Len(cache)) /\ Cardinality(1..Len(cache)) = Len(cache)
  BY <1>1, FS_Interval
<1>4. /\ IsFiniteSet(NamesOf(d, cache))
      /\ Cardinality(NamesOf(d, cache)) <= Cardinality(1..Len(cache))
  BY <1>2, <1>3, FS_Surjection
<1>5. QED
  BY <1>1, <1>3, <1>4, FS_CardinalityType

\* A step of a command in its trim that leaves the caches to the others.
TrimsOn(t) ==
  /\ OthersKeep(t) /\ NoMorePages /\ pc[t] = "trim" /\ pc'[t] = "trim"
  /\ local'[t].doc = local[t].doc /\ local'[t].session = local[t].session
  /\ local'[t].entries = local[t].entries

\* One thread changes what it has counted, the ledger of all others stays.
LEMMA LedgerTrims ==
  ASSUME NEW t \in Threads, TrimsOn(t),
         NEW R, NEW B, NEW w, NEW Late, NEW A, NEW C, Ledger(R, B, w, Late, A, C),
         NEW C2, \A v \in Threads : v # t => C2[v] = C[v],
         t \in Late => PassAgrees(t, R, w, A[t], C2[t])'
  PROVE  Balanced'
<1>1. Late \subseteq Threads /\ R \subseteq Threads
  BY DEF Ledger, OwesTrim
<1>2. /\ R \subseteq OwesTrim'
      /\ \A u \in R : local'[u].doc = local[u].doc /\ local'[u].session = local[u].session
  BY <1>1, OthersOwe DEF Ledger, OwesTrim, TrimsOn
<1>3. ASSUME NEW v \in Late
      PROVE  PassAgrees(v, R, w, A[v], C2[v])'
  <2>1. CASE v = t
    BY <1>3, <2>1
  <2>2. CASE v # t
    <3>1. PassAgrees(v, R, w, A[v], C[v]) /\ v \in Threads /\ A[v] \subseteq R /\ C2[v] = C[v]
      BY <1>1, <2>2 DEF Ledger, PassAgrees
    <3>2. PassAgrees(v, R, w, A[v], C[v])'
      BY <2>2, <3>1, OtherPassStays DEF TrimsOn
    <3>3. QED
      BY <3>1, <3>2
  <2>3. QED
    BY <2>1, <2>2
<1>4. \A v \in Threads : pc'[v] = "trim" => v \in Late \/ v \notin R
  BY OthersOwe DEF Ledger, TrimsOn
<1>5. Ledger(R, B, w, Late, A, C2)'
  BY <1>1, <1>2, <1>3, <1>4 DEF Ledger, NoMorePages, TrimsOn
<1>6. QED
  BY <1>5 DEF Balanced

\* A pass counts the pages of one more document.
LEMMA LedgerCounts ==
  ASSUME TypeOK, NEW t \in Threads, NEW d \in DocIds, TrimCount(t, d),
         NEW R, NEW B, NEW w, NEW Late, NEW A, NEW C, Ledger(R, B, w, Late, A, C)
  PROVE  Balanced'
<1>1. /\ pc \in [Threads -> ControlPoints] /\ local \in [Threads -> Locals]
      /\ entry \in [DocIds -> DocumentEntries]
  BY DEF TypeOK
<1>2. PICK cache : cache = entry[d].page_cache
  OBVIOUS
<1>3. cache \in Seq(CachedPages)
  BY <1>1, <1>2 DEF DocumentEntries
<1>4. PICK D : D = NamesOf(d, cache)
  OBVIOUS
<1>5. PICK C2 : C2 = [v \in Threads |-> IF v = t THEN C[t] \union D ELSE C[v]]
  OBVIOUS
<1>6. /\ IsFiniteSet(D) /\ Cardinality(D) <= Len(cache)
      /\ Cardinality(D) \in Nat /\ Len(cache) \in Nat
  BY <1>3, <1>4, NamesCounted
<1>7. /\ pc[t] = "trim" /\ pc' = pc /\ UNCHANGED <<documents, entry>>
      /\ local'[t].todo = local[t].todo \ {d} /\ local'[t].pages = local[t].pages + Len(cache)
      /\ local'[t].entries = local[t].entries
      /\ local'[t].doc = local[t].doc /\ local'[t].session = local[t].session
      /\ \A v \in Threads : v # t => local'[v] = local[v]
  BY <1>1, <1>2 DEF TrimCount, registry, Locals
<1>8. TrimsOn(t)
  BY <1>7 DEF TrimsOn, OthersKeep, NoMorePages, Cached
<1>9. ASSUME t \in Late
      PROVE  PassAgrees(t, R, w, A[t], C2[t])'
  <2>1. PassAgrees(t, R, w, A[t], C[t])
    BY <1>9 DEF Ledger
  <2>2. C2[t] = C[t] \union D
    BY <1>5
  <2>3. IsFiniteSet(C2[t]) /\ Cardinality(C2[t]) <= local'[t].pages
    <3>1. /\ IsFiniteSet(C[t]) /\ Cardinality(C[t]) <= local[t].pages
          /\ local[t].pages \in Nat /\ Cardinality(C[t]) \in Nat
      BY <1>1, <2>1, FS_CardinalityType DEF PassAgrees, Locals
    <3>2. /\ IsFiniteSet(C[t] \union D)
          /\ Cardinality(C[t] \union D)
               = Cardinality(C[t]) + Cardinality(D) - Cardinality(C[t] \cap D)
      BY <1>6, <3>1, FS_Union
    <3>3. Cardinality(C[t] \cap D) \in Nat
      BY <3>1, FS_Intersection, FS_CardinalityType
    <3>4. QED
      BY <1>6, <1>7, <2>2, <3>1, <3>2, <3>3
  <2>4. ASSUME NEW n \in PageNames, Cached(n)', n.doc \notin local'[t].todo
        PROVE  Covered(n, C2[t], A[t], w)
    <3>1. Cached(n)
      BY <1>7, <2>4 DEF Cached
    <3>2. CASE n.doc = d
      <4>1. n = [doc |-> n.doc, source |-> n.source, key |-> n.key]
        BY DEF PageNames
      <4>2. n \in D
        BY <1>2, <1>4, <3>1, <3>2, <4>1 DEF Cached, Shows, NamesOf
      <4>3. QED
        BY <2>2, <4>2 DEF Covered
    <3>3. CASE n.doc # d
      BY <1>7, <2>1, <2>2, <2>4, <3>1, <3>3 DEF PassAgrees, Covered
    <3>4. QED
      BY <3>2, <3>3
  <2>5. \A n \in PageNames : Cached(n)' /\ n.doc \notin local'[t].entries
                               => Covered(n, {}, A[t], w)
    BY <1>7, <2>1 DEF PassAgrees, Cached
  <2>6. QED
    BY <1>7, <2>1, <2>3, <2>4, <2>5 DEF PassAgrees
<1>10. \A v \in Threads : v # t => C2[v] = C[v]
  BY <1>5
<1>11. QED
  BY <1>8, <1>9, <1>10, LedgerTrims

\* A pass that found too many pages removes one and counts again.
LEMMA LedgerPops ==
  ASSUME TypeOK, NEW t \in Threads, TrimPop(t),
         NEW R, NEW B, NEW w, NEW Late, NEW A, NEW C, Ledger(R, B, w, Late, A, C)
  PROVE  Balanced'
<1>1. /\ pc \in [Threads -> ControlPoints] /\ local \in [Threads -> Locals]
      /\ entry \in [DocIds -> DocumentEntries]
  BY DEF TypeOK
<1>2. PICK C2 : C2 = [v \in Threads |-> IF v = t THEN {} ELSE C[v]]
  OBVIOUS
<1>3. /\ pc[t] = "trim" /\ pc' = pc /\ UNCHANGED documents
      /\ local'[t].todo = local[t].entries /\ local'[t].pages = 0
      /\ local'[t].entries = local[t].entries
      /\ local'[t].doc = local[t].doc /\ local'[t].session = local[t].session
      /\ \A v \in Threads : v # t => local'[v] = local[v]
  BY <1>1 DEF TrimPop, registry, Locals, PassStarts
<1>4. NoMorePages
  <2>1. ASSUME NEW n \in PageNames, Cached(n)'
        PROVE  Cached(n)
    <3>1. PICK e \in DocIds : e = n.doc
      BY DEF PageNames
    <3>2. PICK cache : cache = entry[e].page_cache
      OBVIOUS
    <3>3. cache \in Seq(CachedPages)
      BY <1>1, <3>2 DEF DocumentEntries
    <3>4. \/ entry'[e].page_cache = cache
          \/ cache # <<>> /\ entry'[e].page_cache = Tail(cache)
      BY <1>1, <3>2 DEF TrimPop, DocumentEntries
    <3>5. Shows(cache, n)
      BY <2>1, <3>1, <3>3, <3>4, TailPages DEF Cached, Shows
    <3>6. QED
      BY <1>3, <2>1, <3>1, <3>2, <3>5 DEF Cached
  <2>2. QED
    BY <2>1 DEF NoMorePages
<1>5. TrimsOn(t)
  BY <1>3, <1>4 DEF TrimsOn, OthersKeep
<1>6. ASSUME t \in Late
      PROVE  PassAgrees(t, R, w, A[t], C2[t])'
  <2>1. PassAgrees(t, R, w, A[t], C[t])
    BY <1>6 DEF Ledger
  <2>2. C2[t] = {}
    BY <1>2
  <2>3. \A n \in PageNames : Cached(n)' /\ n.doc \notin local'[t].entries
                               => Covered(n, {}, A[t], w)
    BY <1>3, <1>4, <2>1 DEF PassAgrees, NoMorePages
  <2>4. QED
    BY <1>3, <2>1, <2>2, <2>3, FS_EmptySet DEF PassAgrees
<1>7. \A v \in Threads : v # t => C2[v] = C[v]
  BY <1>2
<1>8. QED
  BY <1>5, <1>6, <1>7, LedgerTrims

\* A pass that found few enough pages ends: a late one becomes the last that stopped, and
\* every later pass of another command remains later.
LEMMA LedgerStops ==
  ASSUME TypeOK, NEW t \in Threads, TrimStop(t),
         NEW R, NEW B, NEW w, NEW Late, NEW A, NEW C, Ledger(R, B, w, Late, A, C)
  PROVE  Balanced'
<1>1. pc \in [Threads -> ControlPoints] /\ local \in [Threads -> Locals]
  BY DEF TypeOK
<1>2. /\ pc[t] = "trim" /\ pc'[t] = "done" /\ UNCHANGED <<documents, entry>>
      /\ local[t].todo = {} /\ ~OverBudget(local[t]) /\ OthersKeep(t)
  BY <1>1 DEF TrimStop, Goto, registry, OthersKeep
<1>3. NoMorePages
  BY <1>2 DEF NoMorePages, Cached
<1>4. Late \subseteq Threads /\ R \subseteq Threads
  BY DEF Ledger, OwesTrim
<1>5. CASE t \in Late
  <2>1. PICK L2 : L2 = {v \in Late \ {t} : A[v] \subseteq A[t]}
    OBVIOUS
  <2>2. PassAgrees(t, R, w, A[t], C[t])
    BY <1>5 DEF Ledger
  <2>3. /\ A[t] \subseteq R /\ t \notin A[t]
        /\ A[t] \subseteq OwesTrim' /\ \A u \in A[t] : local'[u] = local[u]
    BY <1>2, <1>4, <2>2, OthersOwe DEF PassAgrees, Ledger
  <2>4. IsFiniteSet(C[t]) /\ Cardinality(C[t]) <= TotalCacheCapacity
    <3>1. /\ local[t].pages <= TotalCacheCapacity /\ local[t].pages \in Nat
          /\ Cardinality(C[t]) \in Nat
      BY <1>1, <1>2, <2>2, FS_CardinalityType, BoundsAssumption
         DEF OverBudget, PassAgrees, Locals
    <3>2. QED
      BY <2>2, <3>1, BoundsAssumption DEF PassAgrees
  <2>5. \A n \in PageNames : Cached(n)' => Covered(n, C[t], A[t], w)
    BY <1>2, <1>3, <2>2 DEF PassAgrees, NoMorePages
  <2>6. ASSUME NEW v \in L2
        PROVE  PassAgrees(v, A[t], w, A[v], C[v])'
    <3>1. PassAgrees(v, R, w, A[v], C[v]) /\ v \in Threads /\ v # t /\ A[v] \subseteq A[t]
      BY <1>4, <2>1 DEF Ledger
    <3>2. QED
      BY <1>2, <1>3, <3>1, OtherPassStays
  <2>7. ASSUME NEW v \in Threads, pc'[v] = "trim"
        PROVE  v \in L2 \/ v \notin A[t]
    <3>1. v # t /\ pc[v] = "trim"
      BY <1>2, <2>7, OthersOwe
    <3>2. CASE v \in Late /\ ~(A[v] \subseteq A[t])
      <4>1. A[t] \subseteq A[v] /\ v \notin A[v]
        BY <1>5, <3>2 DEF Ledger, PassAgrees
      <4>2. QED
        BY <4>1
    <3>3. CASE v \in Late /\ A[v] \subseteq A[t]
      BY <2>1, <3>1, <3>3
    <3>4. CASE v \notin Late
      BY <2>3, <3>1, <3>4 DEF Ledger
    <3>5. QED
      BY <3>2, <3>3, <3>4
  <2>8. Ledger(A[t], C[t], w, L2, A, C)'
    BY <1>4, <2>1, <2>3, <2>4, <2>5, <2>6, <2>7 DEF Ledger
  <2>9. QED
    BY <2>8 DEF Balanced
<1>6. CASE t \notin Late
  <2>1. t \notin R
    BY <1>2, <1>6 DEF Ledger
  <2>2. R \subseteq OwesTrim' /\ \A u \in R : local'[u] = local[u]
    BY <1>2, <1>4, <2>1, OthersOwe DEF Ledger
  <2>3. ASSUME NEW v \in Late
        PROVE  PassAgrees(v, R, w, A[v], C[v])'
    <3>1. PassAgrees(v, R, w, A[v], C[v]) /\ v \in Threads /\ v # t /\ A[v] \subseteq R
      BY <1>4, <1>6 DEF Ledger, PassAgrees
    <3>2. QED
      BY <1>2, <1>3, <3>1, OtherPassStays
  <2>4. \A v \in Threads : pc'[v] = "trim" => v \in Late \/ v \notin R
    BY <2>1, <1>2, OthersOwe DEF Ledger
  <2>5. Ledger(R, B, w, Late, A, C)'
    BY <1>3, <2>2, <2>3, <2>4 DEF Ledger, NoMorePages
  <2>6. QED
    BY <2>5 DEF Balanced
<1>7. QED
  BY <1>5, <1>6

CachesOnce == \A d \in DocIds : Once(entry[d].page_cache)

BudgetInvariant == IsFiniteSet(OwesTrim) /\ CachesOnce /\ Balanced

LEMMA StepOthers ==
  ASSUME TypeOK, ArgumentsOK, NEW t \in Threads, Step(t)
  PROVE  OthersKeep(t)
<1>1. /\ pc \in [Threads -> ControlPoints] /\ local \in [Threads -> Locals]
  BY DEF TypeOK
<1>2. CASE Quiet(t) \/ Reserves(t)
  BY <1>2 DEF Quiet, Reserves
<1>3. CASE CancelReservation(t)
  BY <1>1, <1>3 DEF CancelReservation, NotifyAll, OthersKeep
<1>4. ASSUME NEW k \in Keys, Commit(t, k)
      PROVE  OthersKeep(t)
  BY <1>1, <1>4 DEF Commit, NotifyAll, OthersKeep
<1>5. CASE AllocateSession(t)
  BY <1>1, <1>5 DEF AllocateSession, Goto, OthersKeep
<1>6. CASE Swap(t)
  BY <1>1, <1>6 DEF Swap, Goto, OthersKeep
<1>7. CASE CloseRemove(t)
  BY <1>1, <1>7 DEF CloseRemove, Finish, Goto, OthersKeep
<1>8. QED
  BY <1>2, <1>3, <1>4, <1>5, <1>6, <1>7, StepKind

\* A step that touches no cache, of a command that owes no trim.
LEMMA IdleStep ==
  ASSUME Balanced, NEW t \in Threads, OthersKeep(t), t \notin OwesTrim,
         UNCHANGED <<documents, entry>>
  PROVE  Balanced'
<1>1. NoMorePages
  BY DEF NoMorePages, Cached
<1>2. PICK R, B, w, Late, A, C : Ledger(R, B, w, Late, A, C)
  BY DEF Balanced
<1>3. Ledger(R, B, w, Late, A, C)'
  BY <1>1, <1>2, LedgerQuiet
<1>4. QED
  BY <1>3 DEF Balanced

\* What is not in a cache any more cannot be in excess.
LEMMA ShrinkStep ==
  ASSUME Balanced, NEW t \in Threads, OthersKeep(t), t \notin OwesTrim, NoMorePages
  PROVE  Balanced'
<1>1. PICK R, B, w, Late, A, C : Ledger(R, B, w, Late, A, C)
  BY DEF Balanced
<1>2. Ledger(R, B, w, Late, A, C)'
  BY <1>1, LedgerQuiet
<1>3. QED
  BY <1>2 DEF Balanced

\* The look at the session after a page read.
LEMMA ValidateBalanced ==
  ASSUME TypeOK, ArgumentsOK, Pages, Balanced, NEW t \in Threads, OthersKeep(t),
         ValidateEntry(t) \/ ValidateSession(t) \/ LockStale(t)
  PROVE  Balanced'
<1>1. pc \in [Threads -> ControlPoints] /\ local \in [Threads -> Locals]
  BY DEF TypeOK
<1>2. UNCHANGED <<documents, entry>>
  BY DEF ValidateEntry, ValidateSession, LockStale, registry
<1>3. NoMorePages
  BY <1>2 DEF NoMorePages, Cached
<1>4. PICK R, B, w, Late, A, C : Ledger(R, B, w, Late, A, C)
  BY DEF Balanced
<1>5. CASE t \notin OwesTrim
  BY <1>2, <1>5, IdleStep
<1>6. CASE t \in OwesTrim
  <2>1. pc[t] \in {"v_entry", "v_lock"} /\ local[t].op = "page" /\ local[t].doc \in DocIds
    BY <1>6 DEF ValidateEntry, ValidateSession, Session, LockStale, OwesTrim, ArgumentsOK
  <2>2. CASE pc'[t] \in {"v_lock", "trim_snapshot"} /\ UNCHANGED local
    <3>1. t \in OwesTrim' /\ pc[t] # "trim" /\ pc'[t] # "trim"
      BY <2>1, <2>2 DEF OwesTrim
    <3>2. Ledger(R, B, w, Late, A, C)'
      BY <1>3, <1>4, <2>2, <3>1, LedgerGoes
    <3>3. QED
      BY <3>2 DEF Balanced
  <2>3. CASE /\ pc'[t] = "done"
             /\ \/ local[t].doc \notin documents
                \/ entry[local[t].doc].session_id # local[t].session
    <3>1. ASSUME NEW n \in PageNames, Cached(n)', n.doc = local[t].doc,
                 n.source = local[t].session
          PROVE  FALSE
      <4>1. Cached(n)
        BY <1>3, <3>1 DEF NoMorePages
      <4>2. /\ n.doc \in documents
            /\ \E i \in DOMAIN entry[n.doc].page_cache :
                 entry[n.doc].page_cache[i].source = n.source
        BY <4>1 DEF Cached, Shows
      <4>3. n.source = entry[n.doc].session_id
        BY <2>1, <3>1, <4>2 DEF Pages, CacheOK
      <4>4. QED
        BY <2>3, <3>1, <4>2, <4>3
    <3>2. pc[t] # "trim" /\ pc'[t] # "trim"
      BY <2>1, <2>3
    <3>3. QED
      BY <1>3, <1>4, <3>1, <3>2, LedgerLeaves
  <2>4. CASE ValidateEntry(t)
    BY <1>1, <2>2, <2>3, <2>4 DEF ValidateEntry, Goto, Finish
  <2>5. CASE ValidateSession(t)
    BY <1>1, <2>1, <2>2, <2>5 DEF ValidateSession, Goto, Finish
  <2>6. CASE LockStale(t)
    BY <1>1, <2>3, <2>6 DEF LockStale, Goto, Finish
  <2>7. QED
    BY <2>4, <2>5, <2>6
<1>7. QED
  BY <1>5, <1>6

\* A page read from the source enters the cache.
LEMMA InsertBalanced ==
  ASSUME TypeOK, ArgumentsOK, Pages, CachesOnce, Balanced, NEW t \in Threads, OthersKeep(t),
         InsertPage(t)
  PROVE  CachesOnce' /\ Balanced'
<1>1. /\ pc \in [Threads -> ControlPoints] /\ local \in [Threads -> Locals]
      /\ entry \in [DocIds -> DocumentEntries]
  BY DEF TypeOK
<1>2. PICK d \in DocIds : d = local[t].doc
  BY DEF InsertPage, Session, ArgumentsOK
<1>3. PICK cache : cache = entry[d].page_cache
  OBVIOUS
<1>4. PICK k, s, a : k = local[t].key /\ s = local[t].got /\ a = local[t].access
  OBVIOUS
<1>5. /\ pc[t] = "load" /\ pc'[t] = "v_entry" /\ UNCHANGED <<documents, local>>
      /\ entry'[d].page_cache = Inserted(cache, k, s, a)
      /\ \A e \in DocIds : e # d => entry'[e] = entry[e]
  BY <1>1, <1>2, <1>3, <1>4 DEF InsertPage, Session, Goto, registry, DocumentEntries
<1>6. /\ cache \in Seq(CachedPages) /\ Once(cache) /\ k \in Keys /\ s \in Sources /\ a \in Nat
      /\ s = local[t].session /\ local[t].op = "page"
  BY <1>1, <1>2, <1>3, <1>4, <1>5
     DEF ArgumentsOK, DocumentEntries, Locals, CachesOnce, Pages, ReadOK
<1>7. /\ Once(Inserted(cache, k, s, a))
      /\ \A n \in PageNames : Shows(Inserted(cache, k, s, a), n) =>
           Shows(cache, n) \/ (n.source = s /\ n.key = k)
  BY <1>6, InsertedNames
<1>8. CachesOnce'
  <2>1. ASSUME NEW e \in DocIds
        PROVE  Once(entry'[e].page_cache)
    <3>1. CASE e = d
      BY <1>5, <1>7, <3>1
    <3>2. CASE e # d
      BY <1>5, <3>2 DEF CachesOnce
    <3>3. QED
      BY <3>1, <3>2
  <2>2. QED
    BY <2>1 DEF CachesOnce
<1>9. PICK m \in PageNames : m.doc = d /\ m.source = s /\ m.key = k
  <2>1. [doc |-> d, source |-> s, key |-> k] \in PageNames
    BY <1>6 DEF PageNames
  <2>2. QED
    BY <2>1
<1>10. ASSUME NEW n \in PageNames, Cached(n)'
       PROVE  Cached(n) \/ n = m
  <2>1. n.doc \in documents /\ n.doc \in DocIds /\ Shows(entry'[n.doc].page_cache, n)
    BY <1>5, <1>10 DEF Cached, PageNames
  <2>2. CASE n.doc = d
    <3>1. Shows(cache, n) \/ (n.source = s /\ n.key = k)
      BY <1>5, <1>7, <2>1, <2>2
    <3>2. n.source = s /\ n.key = k => n = m
      BY <1>9, <2>2 DEF PageNames
    <3>3. QED
      BY <1>3, <2>1, <2>2, <3>1, <3>2 DEF Cached
  <2>3. CASE n.doc # d
    BY <1>5, <2>1, <2>3 DEF Cached
  <2>4. QED
    BY <2>2, <2>3
<1>11. t \notin OwesTrim /\ t \in OwesTrim' /\ pc'[t] # "trim"
  BY <1>5, <1>6 DEF OwesTrim
<1>12. m.doc = local'[t].doc /\ m.source = local'[t].session
  BY <1>2, <1>5, <1>6, <1>9
<1>13. PICK R, B, w, Late, A, C : Ledger(R, B, w, Late, A, C)
  BY DEF Balanced
<1>14. Balanced'
  BY <1>10, <1>11, <1>12, <1>13, LedgerInserts
<1>15. QED
  BY <1>8, <1>14

\* The first page of a document comes with it.
LEMMA CommitBalanced ==
  ASSUME TypeOK, ArgumentsOK, CachesOnce, Balanced, NEW t \in Threads, OthersKeep(t),
         NEW k \in Keys, Commit(t, k)
  PROVE  CachesOnce' /\ Balanced'
<1>1. /\ pc \in [Threads -> ControlPoints] /\ local \in [Threads -> Locals]
      /\ entry \in [DocIds -> DocumentEntries] /\ access_clock \in Nat
      /\ next_session_id \in 1..(MaxSessionId + 1)
  BY DEF TypeOK
<1>2. PICK d \in DocIds : d = local[t].doc
  BY DEF Commit, ArgumentsOK
<1>3. PICK s \in Sources : s = next_session_id
  BY <1>1, BoundsAssumption DEF Commit, Sources
<1>4. PICK a \in Nat : a = access_clock + 1
  BY <1>1
<1>5. /\ pc[t] = "reserved" /\ pc'[t] = "trim_snapshot" /\ documents' = documents \union {d}
      /\ local'[t].doc = d /\ local'[t].session = s
      /\ entry'[d].page_cache = Inserted(<<>>, k, s, a)
      /\ \A e \in DocIds : e # d => entry'[e] = entry[e]
  BY <1>1, <1>2, <1>3, <1>4 DEF Commit, NotifyAll, Locals
<1>6. <<>> \in Seq(CachedPages) /\ Once(<<>>) /\ \A n \in PageNames : ~Shows(<<>>, n)
  BY DEF Once, Shows
<1>7. /\ Once(Inserted(<<>>, k, s, a))
      /\ \A n \in PageNames : Shows(Inserted(<<>>, k, s, a), n) =>
           Shows(<<>>, n) \/ (n.source = s /\ n.key = k)
  BY <1>6, InsertedNames
<1>8. CachesOnce'
  <2>1. ASSUME NEW e \in DocIds
        PROVE  Once(entry'[e].page_cache)
    <3>1. CASE e = d
      BY <1>5, <1>7, <3>1
    <3>2. CASE e # d
      BY <1>5, <3>2 DEF CachesOnce
    <3>3. QED
      BY <3>1, <3>2
  <2>2. QED
    BY <2>1 DEF CachesOnce
<1>9. PICK m \in PageNames : m.doc = d /\ m.source = s /\ m.key = k
  <2>1. [doc |-> d, source |-> s, key |-> k] \in PageNames
    BY DEF PageNames
  <2>2. QED
    BY <2>1
<1>10. ASSUME NEW n \in PageNames, Cached(n)'
       PROVE  Cached(n) \/ n = m
  <2>1. n.doc \in documents' /\ n.doc \in DocIds /\ Shows(entry'[n.doc].page_cache, n)
    BY <1>10 DEF Cached, PageNames
  <2>2. CASE n.doc = d
    <3>1. n.source = s /\ n.key = k
      BY <1>5, <1>6, <1>7, <2>1, <2>2
    <3>2. QED
      BY <1>9, <2>2, <3>1 DEF PageNames
  <2>3. CASE n.doc # d
    BY <1>5, <2>1, <2>3 DEF Cached
  <2>4. QED
    BY <2>2, <2>3
<1>11. t \notin OwesTrim /\ t \in OwesTrim' /\ pc'[t] # "trim"
  BY <1>5 DEF OwesTrim
<1>12. PICK R, B, w, Late, A, C : Ledger(R, B, w, Late, A, C)
  BY DEF Balanced
<1>13. Balanced'
  BY <1>5, <1>9, <1>10, <1>11, <1>12, LedgerInserts
<1>14. QED
  BY <1>8, <1>13

\* A hit moves its page, a replacement and a trim remove pages, a close removes a document.
LEMMA ShrinkBalanced ==
  ASSUME TypeOK, ArgumentsOK, CachesOnce, Balanced, NEW t \in Threads, OthersKeep(t),
         PageHit(t) \/ Swap(t) \/ CloseRemove(t)
  PROVE  CachesOnce' /\ Balanced'
<1>1. /\ pc \in [Threads -> ControlPoints] /\ local \in [Threads -> Locals]
      /\ entry \in [DocIds -> DocumentEntries]
  BY DEF TypeOK
<1>2. t \notin OwesTrim
  BY DEF PageHit, Swap, CloseRemove, Session, OwesTrim
<1>3. documents' \subseteq documents
  BY DEF PageHit, Swap, CloseRemove, registry
<1>4. ASSUME NEW e \in DocIds
      PROVE  /\ Once(entry'[e].page_cache)
             /\ \A n \in PageNames : Shows(entry'[e].page_cache, n)
                                       => Shows(entry[e].page_cache, n)
  <2>1. PICK cache : cache = entry[e].page_cache
    OBVIOUS
  <2>2. cache \in Seq(CachedPages) /\ Once(cache)
    BY <1>1, <2>1 DEF DocumentEntries, CachesOnce
  <2>3. CASE entry'[e].page_cache = cache
    BY <2>1, <2>2, <2>3
  <2>4. CASE entry'[e].page_cache = <<>>
    BY <2>4 DEF Once, Shows
  <2>5. CASE CloseRemove(t)
    BY <2>1, <2>3, <2>5 DEF CloseRemove
  <2>6. CASE Swap(t)
    BY <1>1, <2>1, <2>3, <2>4, <2>6 DEF Swap, Session, DocumentEntries
  <2>7. CASE PageHit(t)
    <3>1. PICK k, a : k = local[t].key /\ a = local[t].access
      OBVIOUS
    <3>2. a \in Nat
      BY <1>1, <3>1 DEF Locals
    <3>3. \/ entry'[e].page_cache = cache
          \/ HasKey(cache, k) /\ entry'[e].page_cache = Touched(cache, k, a)
      BY <1>1, <2>1, <2>7, <3>1 DEF PageHit, DocumentEntries
    <3>4. CASE HasKey(cache, k) /\ entry'[e].page_cache = Touched(cache, k, a)
      BY <2>1, <2>2, <3>2, <3>4, TouchedNames
    <3>5. QED
      BY <2>3, <3>3, <3>4
  <2>8. QED
    BY <2>5, <2>6, <2>7
<1>5. CachesOnce'
  BY <1>4 DEF CachesOnce
<1>6. NoMorePages
  BY <1>3, <1>4 DEF NoMorePages, Cached, PageNames
<1>7. QED
  BY <1>2, <1>5, <1>6, ShrinkStep

LEMMA TrimBalanced ==
  ASSUME TypeOK, CachesOnce, Balanced, NEW t \in Threads,
         \/ TrimSnapshot(t) \/ (\E d \in DocIds : TrimCount(t, d))
         \/ TrimPop(t) \/ TrimStop(t)
  PROVE  CachesOnce' /\ Balanced'
<1>1. entry \in [DocIds -> DocumentEntries]
  BY DEF TypeOK
<1>2. PICK R, B, w, Late, A, C : Ledger(R, B, w, Late, A, C)
  BY DEF Balanced
<1>3. Balanced'
  BY <1>2, LedgerStarts, LedgerCounts, LedgerPops, LedgerStops
<1>4. ASSUME NEW e \in DocIds
      PROVE  Once(entry'[e].page_cache)
  <2>1. PICK cache : cache = entry[e].page_cache
    OBVIOUS
  <2>2. cache \in Seq(CachedPages) /\ Once(cache)
    BY <1>1, <2>1 DEF DocumentEntries, CachesOnce
  <2>3. CASE UNCHANGED entry
    BY <2>1, <2>2, <2>3
  <2>4. CASE TrimPop(t)
    <3>1. \/ entry'[e].page_cache = cache
          \/ cache # <<>> /\ entry'[e].page_cache = Tail(cache)
      BY <1>1, <2>1, <2>4 DEF TrimPop, DocumentEntries
    <3>2. QED
      BY <2>2, <3>1, TailPages
  <2>5. QED
    BY <2>3, <2>4 DEF TrimSnapshot, TrimCount, TrimStop
<1>5. QED
  BY <1>3, <1>4 DEF CachesOnce

LEMMA StepBalanced ==
  ASSUME TypeOK, ArgumentsOK, Pages, CachesOnce, Balanced, NEW t \in Threads, Step(t)
  PROVE  CachesOnce' /\ Balanced'
<1>1. OthersKeep(t)
  BY StepOthers
<1>2. CASE UNCHANGED <<documents, entry>> /\ t \notin OwesTrim
  BY <1>1, <1>2, IdleStep DEF CachesOnce
<1>3. CASE \/ Reserve(t) \/ CancelReservation(t) \/ Identity(t) \/ AllocateSession(t)
           \/ CloseTombstone(t) \/ CloseLock(t) \/ CloseStale(t) \/ Return(t)
  <2>1. UNCHANGED <<documents, entry>>
    BY <1>3 DEF Reserve, CancelReservation, Identity, AllocateSession, CloseTombstone,
                CloseLock, CloseStale, Return, registry
  <2>2. t \notin OwesTrim
    BY <1>3 DEF Reserve, CancelReservation, Identity, AllocateSession, CloseTombstone,
                CloseLock, CloseStale, Return, OwesTrim
  <2>3. QED
    BY <1>2, <2>1, <2>2
<1>4. CASE LockSource(t) \/ PageMiss(t) \/ LoadFails(t)
  <2>1. UNCHANGED <<documents, entry>>
    BY <1>4 DEF LockSource, PageMiss, LoadFails, registry
  <2>2. t \notin OwesTrim
    BY <1>4 DEF LockSource, PageMiss, LoadFails, Session, OwesTrim
  <2>3. QED
    BY <1>2, <2>1, <2>2
<1>5. CASE ValidateEntry(t) \/ ValidateSession(t) \/ LockStale(t)
  <2>1. UNCHANGED entry
    BY <1>5 DEF ValidateEntry, ValidateSession, LockStale
  <2>2. CachesOnce'
    BY <2>1 DEF CachesOnce
  <2>3. Balanced'
    BY <1>1, <1>5, ValidateBalanced
  <2>4. QED
    BY <2>2, <2>3
<1>6. CASE InsertPage(t)
  BY <1>1, <1>6, InsertBalanced
<1>7. ASSUME NEW k \in Keys, Commit(t, k)
      PROVE  CachesOnce' /\ Balanced'
  BY <1>1, <1>7, CommitBalanced
<1>8. CASE PageHit(t) \/ Swap(t) \/ CloseRemove(t)
  BY <1>1, <1>8, ShrinkBalanced
<1>9. CASE \/ TrimSnapshot(t) \/ (\E d \in DocIds : TrimCount(t, d))
           \/ TrimPop(t) \/ TrimStop(t)
  BY <1>9, TrimBalanced
<1>10. QED
  BY <1>3, <1>4, <1>5, <1>6, <1>7, <1>8, <1>9 DEF Step, Settle

LEMMA CallBalanced ==
  ASSUME TypeOK, CachesOnce, Balanced, NEW t \in Threads, CallAny(t) \/ SpuriousWakeup(t)
  PROVE  CachesOnce' /\ Balanced' /\ OthersKeep(t)
<1>1. OthersKeep(t)
  <2>1. CASE CallAny(t)
    <3>1. ASSUME NEW d \in DocIds, NEW s \in issued[d], CallReplace(t, d, s)
          PROVE  OthersKeep(t)
      BY <3>1 DEF CallReplace, Lookup, Goto, OthersKeep, TypeOK
    <3>2. QED
      BY <2>1, <3>1, CallKind DEF Quiet, Reserves
  <2>2. CASE SpuriousWakeup(t)
    BY <2>2, SpuriousKind DEF Quiet
  <2>3. QED
    BY <2>1, <2>2
<1>2. UNCHANGED <<documents, entry>> /\ pc[t] \in {"idle", "waiting"}
  BY DEF CallAny, CallOnDocument, CallOpen, CallSource, CallPage, CallReplace, CallClose,
         SpuriousWakeup, registry
<1>3. t \notin OwesTrim
  BY <1>2 DEF OwesTrim
<1>4. Balanced'
  BY <1>1, <1>2, <1>3, IdleStep
<1>5. QED
  BY <1>1, <1>2, <1>4 DEF CachesOnce

LEMMA BudgetInit == Init => BudgetInvariant
<1> SUFFICES ASSUME Init
             PROVE  BudgetInvariant
  OBVIOUS
<1>1. OwesTrim = {}
  BY DEF Init, OwesTrim
<1>2. CachesOnce
  BY DEF Init, NoEntry, CachesOnce, Once
<1>3. Ledger({}, {}, [u \in Threads |-> None], {}, [u \in Threads |-> {}],
             [u \in Threads |-> {}])
  BY <1>1, FS_EmptySet, BoundsAssumption DEF Init, Ledger, Cached
<1>4. QED
  BY <1>1, <1>2, <1>3, FS_EmptySet DEF BudgetInvariant, Balanced

LEMMA BudgetStep ==
  TypeOK /\ ArgumentsOK /\ Pages /\ BudgetInvariant /\ [Next]_vars => BudgetInvariant'
<1> SUFFICES ASSUME TypeOK, ArgumentsOK, Pages, BudgetInvariant, [Next]_vars
             PROVE  BudgetInvariant'
  OBVIOUS
<1> USE DEF BudgetInvariant
<1>1. ASSUME NEW t \in Threads, OthersKeep(t)
      PROVE  IsFiniteSet(OwesTrim')
  <2>1. OwesTrim' \in SUBSET (OwesTrim \union {t})
    BY <1>1, OthersOwe DEF OwesTrim
  <2>2. IsFiniteSet(OwesTrim \union {t})
    BY FS_AddElement
  <2>3. QED
    BY <2>1, <2>2, FS_Subset
<1>2. ASSUME NEW t \in Threads, CallAny(t) \/ SpuriousWakeup(t)
      PROVE  BudgetInvariant'
  BY <1>1, <1>2, CallBalanced
<1>3. ASSUME NEW t \in Threads, Step(t)
      PROVE  BudgetInvariant'
  BY <1>1, <1>3, StepBalanced, StepOthers
<1>4. CASE UNCHANGED vars
  <2>1. UNCHANGED <<documents, entry, pc, local>>
    BY <1>4 DEF vars
  <2>2. OwesTrim' = OwesTrim /\ CachesOnce' /\ \A n \in PageNames : Cached(n)' <=> Cached(n)
    BY <2>1 DEF OwesTrim, CachesOnce, Cached
  <2>3. PICK R, B, w, Late, A, C : Ledger(R, B, w, Late, A, C)
    BY DEF Balanced
  <2>4. Ledger(R, B, w, Late, A, C)'
    BY <2>1, <2>2, <2>3 DEF Ledger, PassAgrees
  <2>5. QED
    BY <2>2, <2>4 DEF Balanced
<1>5. QED
  BY <1>2, <1>3, <1>4 DEF Next

\* The pages of the open documents, counted.
LEMMA BudgetImplies ==
  ASSUME TypeOK, BudgetInvariant
  PROVE  WithinPageBudget
<1>1. PICK R, B, w, Late, A, C : Ledger(R, B, w, Late, A, C)
  BY DEF BudgetInvariant, Balanced
<1>2. /\ entry \in [DocIds -> DocumentEntries] /\ documents \in SUBSET DocIds
      /\ IsFiniteSet(OwesTrim)
  BY DEF TypeOK, BudgetInvariant
<1>3. /\ IsFiniteSet(R) /\ Cardinality(R) <= Cardinality(OwesTrim)
      /\ Cardinality(R) \in Nat /\ Cardinality(OwesTrim) \in Nat
  BY <1>1, <1>2, FS_Subset, FS_CardinalityType DEF Ledger
<1> DEFINE mine == {w[u] : u \in R}
           name(d, i) == [doc |-> d, source |-> entry[d].page_cache[i].source,
                          key |-> entry[d].page_cache[i].key]
           f == [x \in OpenPages |-> name(x[1], x[2])]
<1>4. /\ IsFiniteSet(mine) /\ Cardinality(mine) <= Cardinality(R)
      /\ Cardinality(mine) \in Nat
  <2>1. [u \in R |-> w[u]] \in Surjection(R, mine)
    BY DEF Surjection
  <2>2. QED
    BY <1>3, <2>1, FS_Surjection, FS_CardinalityType
<1>5. ASSUME NEW x \in OpenPages
      PROVE  /\ x[1] \in documents /\ x[1] \in DocIds /\ x = <<x[1], x[2]>>
             /\ x[2] \in DOMAIN entry[x[1]].page_cache
  BY <1>2 DEF OpenPages
<1>6. ASSUME NEW x \in OpenPages
      PROVE  name(x[1], x[2]) \in B \union mine
  <2>1. PICK d \in DocIds, i \in {x[2]} : d = x[1] /\ i = x[2]
    BY <1>5
  <2>2. PICK cache \in Seq(CachedPages) : cache = entry[d].page_cache
    BY <1>2 DEF DocumentEntries
  <2>3. d \in documents /\ i \in DOMAIN cache
    BY <1>5, <2>1, <2>2
  <2>4. cache[i] \in CachedPages
    BY <2>3
  <2>5. PICK n : n = name(d, i)
    OBVIOUS
  <2>6. /\ n \in PageNames /\ n.doc = d /\ n.source = cache[i].source
        /\ n.key = cache[i].key
    BY <2>2, <2>4, <2>5 DEF PageNames, CachedPages
  <2>7. Cached(n)
    BY <2>2, <2>3, <2>6 DEF Cached, Shows
  <2>8. n \in B \union mine
    BY <1>1, <2>6, <2>7 DEF Ledger, Covered
  <2>9. QED
    BY <2>1, <2>5, <2>8
<1>7. ASSUME NEW x \in OpenPages, NEW y \in OpenPages, name(x[1], x[2]) = name(y[1], y[2])
      PROVE  x = y
  <2>1. PICK d \in DocIds, i \in {x[2]} : d = x[1] /\ i = x[2] /\ x = <<d, i>> /\ i \in DOMAIN entry[d].page_cache
    BY <1>5
  <2>2. PICK e \in DocIds, j \in {y[2]} : e = y[1] /\ j = y[2] /\ y = <<e, j>> /\ j \in DOMAIN entry[e].page_cache
    BY <1>5
  <2>3. name(d, i) = name(e, j)
    BY <1>7, <2>1, <2>2
  <2>4. name(d, i).doc = d /\ name(e, j).doc = e
        /\ name(d, i).key = entry[d].page_cache[i].key
        /\ name(e, j).key = entry[e].page_cache[j].key
    OBVIOUS
  <2> HIDE DEF name
  <2>5. d = e /\ entry[d].page_cache[i].key = entry[e].page_cache[j].key
    BY <2>3, <2>4
  <2>6. i = j
    BY <2>1, <2>2, <2>5 DEF BudgetInvariant, CachesOnce, Once
  <2>7. QED
    BY <2>1, <2>2, <2>5, <2>6
<1> HIDE DEF mine, name
<1>8. f \in Injection(OpenPages, B \union mine)
  BY <1>6, <1>7 DEF Injection, IsInjective
<1>9. /\ IsFiniteSet(B) /\ Cardinality(B) <= TotalCacheCapacity /\ Cardinality(B) \in Nat
  BY <1>1, FS_CardinalityType DEF Ledger
<1>10. /\ IsFiniteSet(B \union mine)
       /\ Cardinality(B \union mine)
            = Cardinality(B) + Cardinality(mine) - Cardinality(B \cap mine)
       /\ Cardinality(B \cap mine) \in Nat
  BY <1>4, <1>9, FS_Union, FS_Intersection, FS_CardinalityType
<1>11. /\ IsFiniteSet(OpenPages) /\ Cardinality(OpenPages) <= Cardinality(B \union mine)
       /\ Cardinality(OpenPages) \in Nat
  BY <1>8, <1>10, FS_Injection, FS_CardinalityType
<1>12. QED
  BY <1>3, <1>4, <1>9, <1>10, <1>11, BoundsAssumption DEF WithinPageBudget

\* Counting one document at a time while others insert, stopping early and skipping the
\* trim when the validation fails, the open documents exceed the total capacity by no more
\* than one page for each command that has yet to finish its trim.
THEOREM WithinPageBudgetAlways == Spec => []WithinPageBudget
<1>1. Init => BudgetInvariant
  BY BudgetInit
<1>2. PageInvariant /\ BudgetInvariant /\ [Next]_vars => BudgetInvariant'
  BY BudgetStep, PagesMeaning
<1>3. PageInvariant /\ BudgetInvariant => WithinPageBudget
  BY BudgetImplies, PagesMeaning
<1>4. QED
  BY <1>1, <1>2, <1>3, PagesCorrect, PTL DEF Spec

===============================================================================
