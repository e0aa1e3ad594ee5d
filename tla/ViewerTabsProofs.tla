--------------------------- MODULE ViewerTabsProofs ---------------------------
(***************************************************************************)
(* The tabs of the viewer and the calls under way: types, the cleanups     *)
(* that are sent once at a time, the opens that wait for closes, the pages *)
(* that tabs show of their sessions, and the documents of the backend that *)
(* are not left behind, for any requests, files and any order of answers.  *)
(***************************************************************************)
EXTENDS ViewerTabs, FiniteSetTheorems, SequenceTheorems, TLAPS

-----------------------------------------------------------------------------
(* Sequences of calls *)

\* What the main thread takes and what is sent to it, as sets.
LEMMA Taken ==
  ASSUME NEW S, NEW s \in Seq(S), s # <<>>
  PROVE  /\ Head(s) = s[1] /\ Head(s) \in S /\ Tail(s) \in Seq(S)
         /\ Len(Tail(s)) = Len(s) - 1 /\ 1 \in 1 .. Len(s)
         /\ \A i \in 1 .. Len(Tail(s)) : i + 1 \in 1 .. Len(s) /\ Tail(s)[i] = s[i + 1]
         /\ Range(s) = {Head(s)} \union Range(Tail(s))
<1>1. /\ Head(s) = s[1] /\ Head(s) \in S /\ Tail(s) \in Seq(S)
      /\ Len(Tail(s)) = Len(s) - 1 /\ 1 \in 1 .. Len(s)
      /\ \A i \in 1 .. Len(Tail(s)) : i + 1 \in 1 .. Len(s) /\ Tail(s)[i] = s[i + 1]
  BY HeadTailProperties
<1>2. DOMAIN s = 1 .. Len(s) /\ DOMAIN Tail(s) = 1 .. Len(Tail(s)) /\ Len(s) \in Nat
  BY <1>1, LenProperties
<1>3. \A i \in 1 .. Len(s) : i = 1 \/ (i - 1 \in 1 .. Len(Tail(s)) /\ Tail(s)[i - 1] = s[i])
  BY <1>1, <1>2
<1>4. Range(s) = {s[1]} \union Range(Tail(s))
  <2>1. Range(s) \subseteq {s[1]} \union Range(Tail(s))
    BY <1>2, <1>3 DEF Range
  <2>2. {s[1]} \union Range(Tail(s)) \subseteq Range(s)
    BY <1>1, <1>2 DEF Range
  <2>3. QED
    BY <2>1, <2>2
<1>5. QED
  BY <1>1, <1>4

LEMMA Joined ==
  ASSUME NEW S, NEW s \in Seq(S), NEW t \in Seq(S)
  PROVE  /\ s \o t \in Seq(S) /\ Len(s \o t) = Len(s) + Len(t)
         /\ \A i \in 1 .. Len(s \o t) :
              \/ i \in 1 .. Len(s) /\ (s \o t)[i] = s[i]
              \/ i - Len(s) \in 1 .. Len(t) /\ (s \o t)[i] = t[i - Len(s)]
         /\ Range(s \o t) = Range(s) \union Range(t)
<1>1. /\ s \o t \in Seq(S) /\ Len(s \o t) = Len(s) + Len(t)
      /\ \A i \in 1 .. Len(s) + Len(t) :
           (s \o t)[i] = IF i <= Len(s) THEN s[i] ELSE t[i - Len(s)]
  BY ConcatProperties
<1>2. /\ DOMAIN s = 1 .. Len(s) /\ DOMAIN t = 1 .. Len(t) /\ Len(s) \in Nat /\ Len(t) \in Nat
      /\ DOMAIN (s \o t) = 1 .. Len(s \o t)
  BY <1>1, LenProperties
<1>3. \A i \in 1 .. Len(s \o t) :
        \/ i \in 1 .. Len(s) /\ (s \o t)[i] = s[i]
        \/ i - Len(s) \in 1 .. Len(t) /\ (s \o t)[i] = t[i - Len(s)]
  BY <1>1, <1>2
<1>4. \A i \in 1 .. Len(s) : i \in 1 .. Len(s \o t) /\ (s \o t)[i] = s[i]
  BY <1>1, <1>2
<1>5. \A i \in 1 .. Len(t) : Len(s) + i \in 1 .. Len(s \o t) /\ (s \o t)[Len(s) + i] = t[i]
  BY <1>1, <1>2
<1>6. Range(s \o t) \subseteq Range(s) \union Range(t)
  BY <1>2, <1>3 DEF Range
<1>7. Range(s) \subseteq Range(s \o t) /\ Range(t) \subseteq Range(s \o t)
  BY <1>2, <1>4, <1>5 DEF Range
<1>8. QED
  BY <1>1, <1>3, <1>6, <1>7

LEMMA Single ==
  ASSUME NEW S, NEW s \in Seq(S), NEW x \in S
  PROVE  <<x>> \in Seq(S) /\ Len(<<x>>) = 1 /\ <<x>>[1] = x /\ Append(s, x) = s \o <<x>>
         /\ Range(<<x>>) = {x}
<1>1. <<x>> \in Seq(S) /\ Len(<<x>>) = 1 /\ <<x>>[1] = x /\ Append(s, x) = s \o <<x>>
  OBVIOUS
<1>2. DOMAIN <<x>> = {1}
  OBVIOUS
<1>3. Range(<<x>>) = {x}
  BY <1>1, <1>2 DEF Range
<1>4. QED
  BY <1>1, <1>3

\* A finite set in some order: each element once.
LEMMA Listed ==
  ASSUME NEW S, IsFiniteSet(S), NEW s \in SetToSeqs(S)
  PROVE  /\ s \in Seq(S) /\ Range(s) = S
         /\ \A i, j \in 1 .. Len(s) : s[i] = s[j] => i = j
<1>1. Cardinality(S) \in Nat
  BY FS_CardinalityType
<1> DEFINE n == Cardinality(S)
<1>2. /\ s \in [1 .. n -> S]
      /\ \A i, j \in 1 .. n : i # j => s[i] # s[j]
  BY DEF SetToSeqs
<1>3. s \in Seq(S) /\ Len(s) = n /\ DOMAIN s = 1 .. n
  BY <1>1, <1>2
<1>4. s \in Injection(1 .. n, S)
  BY <1>2 DEF Injection, IsInjective
<1>5. Cardinality(1 .. n) = n
  BY <1>1, FS_Interval
<1>6. s \in Surjection(1 .. n, S)
  BY <1>4, <1>5, FS_Injection
<1>7. Range(s) = S
  BY <1>2, <1>6, Zenon DEF Surjection, Range
<1>8. QED
  BY <1>2, <1>3, <1>7

\* A set whose elements are given by those of a finite one.
LEMMA ImageFinite ==
  ASSUME NEW S, IsFiniteSet(S), NEW T, NEW f \in [S -> T], \A y \in T : \E x \in S : f[x] = y
  PROVE  IsFiniteSet(T)
<1>1. f \in Surjection(S, T)
  BY DEF Surjection
<1>2. QED
  BY <1>1, FS_Surjection

LEMMA CallTyped ==
  /\ \A r \in Requests : OpenCall(r) \in SentCalls
  /\ \A r \in Requests, ps \in SUBSET Paths : CancelCall(r, ps) \in SentCalls
  /\ \A o \in Opened, p \in Paths : CleanupCall(o, p) \in SentCalls
  /\ \A t \in ShownTabs : t.status = "ready" => CloseCall(t) \in SentCalls
  /\ \A t \in ShownTabs, n \in Nat : t.status = "ready" =>
       Call("read", None, t, {}, n) \in SentCalls /\ Call("configure", None, t, {}, n) \in SentCalls
  /\ \A o \in Opened, n \in Nat : Call("first_page", None, o, {}, n) \in SentCalls
<1>1. MaxDocument \in Nat /\ MaxSession \in Nat
  BY TabsAssumption
<1> USE <1>1 DEF SentCalls, Calls, Call, Identity, SettledKinds, NotOpened, Opened, Documents, Sessions
<1>2. \A r \in Requests : OpenCall(r) \in SentCalls
  BY DEF OpenCall
<1>3. \A r \in Requests, ps \in SUBSET Paths : CancelCall(r, ps) \in SentCalls
  BY DEF CancelCall
<1>4. \A o \in Opened, p \in Paths : CleanupCall(o, p) \in SentCalls
  BY DEF CleanupCall
<1>5. \A t \in ShownTabs : t.status = "ready" => CloseCall(t) \in SentCalls
  BY DEF CloseCall, ShownTabs, Tabs
<1>6. \A t \in ShownTabs, n \in Nat : t.status = "ready" =>
       Call("read", None, t, {}, n) \in SentCalls /\ Call("configure", None, t, {}, n) \in SentCalls
  BY DEF ShownTabs, Tabs
<1>7. \A o \in Opened, n \in Nat : Call("first_page", None, o, {}, n) \in SentCalls
  <2> SUFFICES ASSUME NEW o \in Opened, NEW n \in Nat
               PROVE  Call("first_page", None, o, {}, n) \in SentCalls
    OBVIOUS
  <2>1. o.document \in 1 .. MaxDocument /\ o.session \in 1 .. MaxSession
    OBVIOUS
  <2>2. QED
    BY <2>1
<1>8. QED
  BY <1>2, <1>3, <1>4, <1>5, <1>6, <1>7

\* The calls by which the waiting opens are sent.
LEMMA OpensListed ==
  ASSUME NEW F \in SUBSET Requests, NEW calls \in SetToSeqs({OpenCall(r) : r \in F})
  PROVE  /\ calls \in Seq(SentCalls)
         /\ \A i \in 1 .. Len(calls) : calls[i].kind = "open"
<1> DEFINE T == {OpenCall(r) : r \in F}
<1>1. IsFiniteSet(F)
  BY TabsAssumption, FS_Subset
<1>2. [r \in F |-> OpenCall(r)] \in [F -> T]
  OBVIOUS
<1>3. \A y \in T : \E x \in F : [r \in F |-> OpenCall(r)][x] = y
  OBVIOUS
<1>4. IsFiniteSet(T)
  BY <1>1, <1>2, <1>3, ImageFinite
<1>5. calls \in Seq(T)
  BY <1>4, Listed
<1>6. T \subseteq SentCalls
  BY CallTyped, Zenon
<1>7. \A c \in T : c.kind = "open"
  BY DEF OpenCall, Call
<1>8. calls \in Seq(SentCalls)
  BY <1>5, <1>6, SeqMonotonic
<1>9. \A i \in 1 .. Len(calls) : calls[i] \in T
  BY <1>5, ElementOfSeq
<1>10. QED
  BY <1>7, <1>8, <1>9

LEMMA OpenedFinite == IsFiniteSet(Opened \X Paths)
<1>1. IsFiniteSet(Documents) /\ IsFiniteSet(Sessions)
  BY TabsAssumption, FS_Interval DEF Documents, Sessions
<1>2. IsFiniteSet(Documents \X Sessions)
  BY <1>1, FS_Product
<1> DEFINE f == [x \in Documents \X Sessions |-> [document |-> x[1], session |-> x[2]]]
<1>3. f \in [Documents \X Sessions -> Opened]
  BY DEF Opened
<1>4. \A y \in Opened : \E x \in Documents \X Sessions : f[x] = y
  <2> SUFFICES ASSUME NEW y \in Opened PROVE \E x \in Documents \X Sessions : f[x] = y
    OBVIOUS
  <2>1. <<y.document, y.session>> \in Documents \X Sessions
    BY DEF Opened
  <2>2. f[<<y.document, y.session>>] = y
    BY <2>1 DEF Opened
  <2>3. QED
    BY <2>1, <2>2
<1>5. IsFiniteSet(Opened)
  <2> HIDE DEF f
  <2> QED BY <1>2, <1>3, <1>4, ImageFinite
<1>6. QED
  BY <1>5, TabsAssumption, FS_Product

\* The calls by which opened files are cleaned up.
LEMMA CleanupsListed ==
  ASSUME NEW files \in SUBSET (Opened \X Paths),
         NEW calls \in SetToSeqs({CleanupCall(f[1], f[2]) : f \in files})
  PROVE  /\ calls \in Seq(SentCalls)
         /\ \A i \in 1 .. Len(calls) : \E f \in files : calls[i] = CleanupCall(f[1], f[2])
         /\ \A f \in files : \E i \in 1 .. Len(calls) : calls[i] = CleanupCall(f[1], f[2])
         /\ \A i, j \in 1 .. Len(calls) : calls[i] = calls[j] => i = j
<1> DEFINE T == {CleanupCall(f[1], f[2]) : f \in files}
           g == [f \in files |-> CleanupCall(f[1], f[2])]
<1>1. IsFiniteSet(files)
  BY OpenedFinite, FS_Subset
<1>2. g \in [files -> T] /\ \A y \in T : \E x \in files : g[x] = y
  OBVIOUS
<1>4. IsFiniteSet(T)
  <2> HIDE DEF g, T
  <2> QED BY <1>1, <1>2, ImageFinite
<1>5. calls \in Seq(T) /\ Range(calls) = T
      /\ \A i, j \in 1 .. Len(calls) : calls[i] = calls[j] => i = j
  BY <1>4, Listed
<1>6. T \subseteq SentCalls
  BY CallTyped
<1>7. calls \in Seq(SentCalls)
  BY <1>5, <1>6, SeqMonotonic
<1>8. DOMAIN calls = 1 .. Len(calls)
  BY <1>5, LenProperties
<1>9. /\ \A i \in 1 .. Len(calls) : calls[i] \in T
      /\ \A c \in T : \E i \in 1 .. Len(calls) : calls[i] = c
  BY <1>5, <1>8 DEF Range
<1>10. QED
  BY <1>5, <1>7, <1>9

-----------------------------------------------------------------------------
(* Types *)

LEMMA TabsTyped ==
  /\ \A r \in Requests, p \in Paths :
       Pending(r, p, "loading") \in ShownTabs /\ Pending(r, p, "error") \in ShownTabs
  /\ \A o \in Opened, p \in Paths : Ready(o, p) \in ShownTabs
  /\ \A t \in ShownTabs :
       /\ Failure(t) \in ShownTabs /\ Configured(t) \in ShownTabs
       /\ [t EXCEPT !.failed = FALSE] \in ShownTabs
       /\ [t EXCEPT !.configuring = TRUE, !.failed = FALSE] \in ShownTabs
       /\ t.request \in Requests => [t EXCEPT !.status = "error"] \in ShownTabs
  /\ \A t \in ShownTabs, v \in Sessions :
       /\ [t EXCEPT !.page = v] \in ShownTabs
       /\ [t EXCEPT !.session = v] \in ShownTabs
       /\ [t EXCEPT !.session = v, !.page = v] \in ShownTabs
<1>1. MaxDocument \in Nat /\ MaxSession \in Nat /\ None \notin Requests
  BY TabsAssumption
<1> USE <1>1 DEF ShownTabs, Tabs, Documents, Sessions
<1>2. \A r \in Requests, p \in Paths :
       Pending(r, p, "loading") \in ShownTabs /\ Pending(r, p, "error") \in ShownTabs
  BY DEF Pending
<1>3. \A o \in Opened, p \in Paths : Ready(o, p) \in ShownTabs
  <2> SUFFICES ASSUME NEW o \in Opened, NEW p \in Paths PROVE Ready(o, p) \in ShownTabs
    OBVIOUS
  <2>1. o.document \in 1 .. MaxDocument /\ o.session \in 1 .. MaxSession
    BY DEF Opened
  <2>2. QED
    BY <2>1 DEF Ready
<1>4. \A t \in ShownTabs : Failure(t) \in ShownTabs /\ Configured(t) \in ShownTabs
  BY DEF Failure, Configured
<1>5. \A t \in ShownTabs :
       /\ [t EXCEPT !.failed = FALSE] \in ShownTabs
       /\ [t EXCEPT !.configuring = TRUE, !.failed = FALSE] \in ShownTabs
  OBVIOUS
<1>6. \A t \in ShownTabs : t.request \in Requests => [t EXCEPT !.status = "error"] \in ShownTabs
  OBVIOUS
<1>7. \A t \in ShownTabs, v \in Sessions :
       /\ [t EXCEPT !.page = v] \in ShownTabs
       /\ [t EXCEPT !.session = v] \in ShownTabs
  OBVIOUS
<1>8. \A t \in ShownTabs, v \in Sessions : [t EXCEPT !.session = v, !.page = v] \in ShownTabs
  <2> SUFFICES ASSUME NEW t \in ShownTabs, NEW v \in Sessions
               PROVE  [t EXCEPT !.session = v, !.page = v] \in ShownTabs
    OBVIOUS
  <2>1. PICK w : w = [t EXCEPT !.session = v]
    OBVIOUS
  <2>2. w \in ShownTabs
    BY <1>7, <2>1
  <2>3. [w EXCEPT !.page = v] \in ShownTabs
    BY <1>7, <2>2
  <2>4. [t EXCEPT !.session = v, !.page = v] = [w EXCEPT !.page = v]
    BY <2>1
  <2>5. QED
    BY <2>3, <2>4
<1> HIDE DEF ShownTabs, Tabs, Documents, Sessions
<1>9. QED
  BY <1>2, <1>3, <1>4, <1>5, <1>6, <1>7, <1>8, Zenon

\* Calls and answers after something was sent, and after the main thread took a call.
LEMMA CallsSent ==
  ASSUME CallTypes, NEW added \in Seq(SentCalls), main' = main \o added,
         phase' \in [Requests -> {"new", "waiting", "sent", "answered", "rejected", "done"}],
         \A r \in Requests : phase'[r] = "answered" => phase[r] = "answered",
         waits' \in [Requests -> SUBSET SentCalls],
         \A r \in Requests : phase'[r] # "waiting" => waits'[r] = {},
         UNCHANGED result, replies' \subseteq replies
  PROVE  CallTypes'
<1>1. main' \in Seq(SentCalls)
  BY Joined DEF CallTypes
<1>2. QED
  BY <1>1 DEF CallTypes

LEMMA NothingSent ==
  ASSUME CallTypes, NEW S, NEW s \in Seq(S)
  PROVE  <<>> \in Seq(S) /\ s = s \o <<>> /\ Len(<<>>) = 0
BY EmptySeq, ConcatEmptySeq

LEMMA ExecutedTypes ==
  ASSUME CallTypes, NEW kinds, NEW v \in 0 .. MaxSession, Executes(kinds, v)
  PROVE  CallTypes'
<1>1. main \in Seq(SentCalls) /\ main # <<>>
  BY DEF CallTypes, Executes
<1>2. Head(main) \in SentCalls /\ main' \in Seq(SentCalls)
  BY <1>1, Taken DEF Executes
<1>3. replies' \subseteq [call : SentCalls, value : 0 .. MaxSession]
  BY <1>2 DEF CallTypes, Executes
<1>4. QED
  BY <1>2, <1>3 DEF CallTypes, Executes

\* The backend opens, replaces and closes documents.
LEMMA RegistryTypes ==
  ASSUME BackendTypes, UNCHANGED result,
         previous' \in [Documents -> 0 .. MaxSession], sessions' \in 0 .. MaxSession,
         cancelled' \subseteq Requests,
         \/ UNCHANGED <<open, closed>>
         \/ \E d \in Documents : Registry!Close(d)
         \/ \E d \in Documents, s \in Sessions : Registry!Replace(d, s)
  PROVE  BackendTypes'
<1>1. DOMAIN open' \subseteq Documents /\ closed' \subseteq Documents
      /\ open' \in [DOMAIN open' -> [file : Paths, session : Sessions]]
  <2>1. CASE UNCHANGED <<open, closed>>
    BY <2>1 DEF BackendTypes
  <2>2. ASSUME NEW d \in Documents, Registry!Close(d)
        PROVE  DOMAIN open' \subseteq Documents /\ closed' \subseteq Documents
               /\ open' \in [DOMAIN open' -> [file : Paths, session : Sessions]]
    BY <2>2 DEF BackendTypes, Registry!Close
  <2>3. ASSUME NEW d \in Documents, NEW s \in Sessions, Registry!Replace(d, s)
        PROVE  DOMAIN open' \subseteq Documents /\ closed' \subseteq Documents
               /\ open' \in [DOMAIN open' -> [file : Paths, session : Sessions]]
    BY <2>3 DEF BackendTypes, Registry!Replace
  <2>4. QED
    BY <2>1, <2>2, <2>3
<1>2. QED
  BY <1>1 DEF BackendTypes

\* An item of a request ends.
LEMMA OpenItemTypes ==
  ASSUME BackendTypes, NEW r \in Requests, NEW p \in Paths, OpenItem(r, p)
  PROVE  /\ BackendTypes'
         /\ DOMAIN result'[r] = DOMAIN result[r] \union {p} /\ p \notin DOMAIN result[r]
         /\ result'[r][p] \in Opened \union {NotOpened}
         /\ \A s \in Requests : \A q \in DOMAIN result[s] :
              q \in DOMAIN result'[s] /\ result'[s][q] = result[s][q]
         /\ \A s \in Requests : s # r => result'[s] = result[s]
         /\ \/ result'[r][p] = NotOpened /\ UNCHANGED <<open, closed>>
            \/ LET d == result'[r][p].document
               IN d \in DOMAIN open /\ open[d].file = p /\ UNCHANGED <<open, closed>>
            \/ \E s \in Sessions : Registry!Open(result'[r][p].document, p, s)
<1> DEFINE with(o) == [result EXCEPT ![r] =
                         [q \in DOMAIN result[r] \union {p} |-> IF q = p THEN o ELSE result[r][q]]]
<1>1. p \in PathsOf[r] /\ p \notin DOMAIN result[r] /\ result = [s \in Requests |-> result[s]]
  BY DEF OpenItem, BackendTypes
<1>2. ASSUME NEW o \in Opened \union {NotOpened}, result' = with(o)
      PROVE  /\ result' = [s \in Requests |-> result'[s]]
             /\ \A s \in Requests : s # r => result'[s] = result[s]
             /\ result'[r] = [q \in DOMAIN result[r] \union {p} |-> IF q = p THEN o ELSE result[r][q]]
             /\ DOMAIN result'[r] = DOMAIN result[r] \union {p}
             /\ result'[r][p] = o
             /\ \A q \in DOMAIN result[r] : result'[r][q] = result[r][q]
             /\ result'[r] \in [DOMAIN result'[r] -> Opened \union {NotOpened}]
  <2>1. /\ result' = [s \in Requests |-> result'[s]]
        /\ \A s \in Requests : s # r => result'[s] = result[s]
        /\ result'[r] = [q \in DOMAIN result[r] \union {p} |-> IF q = p THEN o ELSE result[r][q]]
    BY <1>1, <1>2
  <2>2. /\ DOMAIN result'[r] = DOMAIN result[r] \union {p}
        /\ result'[r][p] = o
        /\ \A q \in DOMAIN result[r] : result'[r][q] = result[r][q]
    BY <2>1, <1>1
  <2>3. result[r] \in [DOMAIN result[r] -> Opened \union {NotOpened}]
    BY DEF BackendTypes
  <2>4. result'[r] \in [DOMAIN result'[r] -> Opened \union {NotOpened}]
    <3>1. \A q \in DOMAIN result[r] \union {p} :
            (IF q = p THEN o ELSE result[r][q]) \in Opened \union {NotOpened}
      BY <2>3
    <3>2. QED
      BY <2>1, <2>2, <3>1
  <2>5. QED
    BY <2>1, <2>2, <2>4
<1>3. \E o \in Opened \union {NotOpened} :
        /\ result' = with(o)
        /\ \/ o = NotOpened /\ UNCHANGED backend
           \/ o.document \in DOMAIN open /\ open[o.document].file = p /\ UNCHANGED backend
           \/ \E d \in Documents, s \in Sessions :
                /\ Registry!Open(d, p, s) /\ o.document = d
                /\ sessions' = s /\ UNCHANGED <<previous, cancelled>>
  <2> DEFINE next == Cardinality(DOMAIN open \union closed) + 1
  <2> HIDE DEF next
  <2>1. CASE \E d \in DOMAIN open :
               /\ open[d].file = p
               /\ result' = with([document |-> d, session |-> open[d].session])
               /\ UNCHANGED <<backend, bounds>>
    <3>1. PICK d \in DOMAIN open :
               /\ open[d].file = p
               /\ result' = with([document |-> d, session |-> open[d].session])
               /\ UNCHANGED <<backend, bounds>>
      BY <2>1
    <3>2. [document |-> d, session |-> open[d].session] \in Opened
      BY DEF BackendTypes, Opened
    <3>3. [document |-> d, session |-> open[d].session].document = d
      OBVIOUS
    <3>4. UNCHANGED backend
      BY <3>1
    <3>5. QED
      BY <3>1, <3>2, <3>3, <3>4
  <2>2. CASE /\ next \in Documents /\ sessions < MaxSession
             /\ Registry!Open(next, p, sessions + 1)
             /\ sessions' = sessions + 1
             /\ result' = with([document |-> next, session |-> sessions + 1])
             /\ UNCHANGED <<previous, cancelled, bounds>>
    <3>1. sessions + 1 \in Sessions
      BY <2>2, TabsAssumption DEF BackendTypes, Sessions
    <3>2. [document |-> next, session |-> sessions + 1] \in Opened
      BY <2>2, <3>1 DEF Opened
    <3>3. [document |-> next, session |-> sessions + 1].document = next
      OBVIOUS
    <3>4. QED
      BY <2>2, <3>1, <3>2, <3>3
  <2>3. CASE result' = with(NotOpened) /\ UNCHANGED backend
    BY <2>3
  <2>4. QED
    BY <2>1, <2>2, <2>3 DEF OpenItem, backend, next
<1> HIDE DEF with
<1>4. PICK o \in Opened \union {NotOpened} :
        /\ result' = with(o)
        /\ \/ o = NotOpened /\ UNCHANGED backend
           \/ o.document \in DOMAIN open /\ open[o.document].file = p /\ UNCHANGED backend
           \/ \E d \in Documents, s \in Sessions :
                /\ Registry!Open(d, p, s) /\ o.document = d
                /\ sessions' = s /\ UNCHANGED <<previous, cancelled>>
  BY <1>3
<1>5. /\ result' = [s \in Requests |-> result'[s]]
      /\ \A s \in Requests : s # r => result'[s] = result[s]
      /\ DOMAIN result'[r] = DOMAIN result[r] \union {p}
      /\ result'[r][p] = o
      /\ \A q \in DOMAIN result[r] : result'[r][q] = result[r][q]
      /\ result'[r] \in [DOMAIN result'[r] -> Opened \union {NotOpened}]
  BY <1>2, <1>4
<1>6. DOMAIN open' \subseteq Documents /\ closed' \subseteq Documents
      /\ open' \in [DOMAIN open' -> [file : Paths, session : Sessions]]
      /\ previous' \in [Documents -> 0 .. MaxSession] /\ sessions' \in 0 .. MaxSession
      /\ cancelled' \subseteq Requests
  <2>1. CASE UNCHANGED backend
    BY <2>1 DEF BackendTypes, backend
  <2>2. ASSUME NEW d \in Documents, NEW s \in Sessions,
               Registry!Open(d, p, s), sessions' = s, UNCHANGED <<previous, cancelled>>
        PROVE  DOMAIN open' \subseteq Documents /\ closed' \subseteq Documents
               /\ open' \in [DOMAIN open' -> [file : Paths, session : Sessions]]
               /\ previous' \in [Documents -> 0 .. MaxSession] /\ sessions' \in 0 .. MaxSession
               /\ cancelled' \subseteq Requests
    <3>1. s \in 0 .. MaxSession
      BY TabsAssumption DEF Sessions
    <3>2. /\ DOMAIN open' = DOMAIN open \union {d} /\ UNCHANGED closed
          /\ \A e \in DOMAIN open' : open'[e] \in [file : Paths, session : Sessions]
          /\ open' = [e \in DOMAIN open' |-> open'[e]]
      BY <2>2 DEF BackendTypes, Registry!Open
    <3>3. QED
      BY <2>2, <3>1, <3>2 DEF BackendTypes
  <2>3. QED
    BY <1>4, <2>1, <2>2
<1>7. /\ DOMAIN result'[r] \subseteq PathsOf[r]
      /\ \A s \in Requests : /\ DOMAIN result'[s] \subseteq PathsOf[s]
                             /\ result'[s] \in [DOMAIN result'[s] -> Opened \union {NotOpened}]
  BY <1>1, <1>5 DEF BackendTypes
<1>8. BackendTypes'
  BY <1>5, <1>6, <1>7 DEF BackendTypes
<1>9. \/ result'[r][p] = NotOpened /\ UNCHANGED <<open, closed>>
      \/ LET d == result'[r][p].document
         IN d \in DOMAIN open /\ open[d].file = p /\ UNCHANGED <<open, closed>>
      \/ \E s \in Sessions : Registry!Open(result'[r][p].document, p, s)
  BY <1>4, <1>5 DEF backend
<1>10. QED
  BY <1>1, <1>5, <1>8, <1>9

-----------------------------------------------------------------------------
(* What a task of the page sends and settles *)

IsCleanup(c) == c.kind = "cleanup"

Gone(as) == {Identity(a.call) : a \in {b \in as : IsCleanup(b.call)}}

\* The task takes some answers and sends calls; each cleanup among them is new.
Sends(as) ==
  /\ as \subseteq replies /\ replies' = replies \ as
  /\ \E added \in Seq(SentCalls) :
       /\ main' = main \o added
       /\ \A i, j \in 1 .. Len(added) :
            IsCleanup(added[i]) /\ IsCleanup(added[j])
              /\ Identity(added[i]) = Identity(added[j]) => i = j
       /\ \A i \in 1 .. Len(added) : IsCleanup(added[i]) => Identity(added[i]) \notin cleaned
       /\ cleaned' = (cleaned \ Gone(as))
            \union {Identity(added[i]) : i \in {k \in 1 .. Len(added) : IsCleanup(added[k])}}

LEMMA SendsTypes ==
  ASSUME CallTypes, NEW as, Sends(as),
         phase' \in [Requests -> {"new", "waiting", "sent", "answered", "rejected", "done"}],
         \A r \in Requests : phase'[r] = "answered" => phase[r] = "answered",
         waits' \in [Requests -> SUBSET SentCalls],
         \A r \in Requests : phase'[r] # "waiting" => waits'[r] = {},
         UNCHANGED result
  PROVE  CallTypes'
BY CallsSent DEF Sends

LEMMA SendsOutstanding ==
  ASSUME CallTypes, NEW as, Sends(as)
  PROVE  /\ Outstanding \ {a.call : a \in as} \subseteq Outstanding'
         /\ \A c \in Outstanding' : c \in Outstanding \/ (c \in SentCalls /\ c \in Range(main'))
<1>1. PICK added \in Seq(SentCalls) : main' = main \o added
  BY DEF Sends
<1>2. Range(main') = Range(main) \union Range(added)
  BY <1>1, Joined DEF CallTypes
<1>3. main' \in Seq(SentCalls)
  BY <1>1, Joined DEF CallTypes
<1>4. Range(main') \subseteq SentCalls
  BY <1>3, LenProperties DEF Range
<1>5. QED
  BY <1>2, <1>4 DEF Outstanding, Sends

\* The cleanups under way are the same after the calls have moved as cleaned says.
LEMMA OnceSent ==
  ASSUME CallTypes, CleanupsOnce, NEW as, Sends(as)
  PROVE  CleanupsOnce'
<1>1. PICK added \in Seq(SentCalls) :
       /\ main' = main \o added
       /\ \A i, j \in 1 .. Len(added) :
            IsCleanup(added[i]) /\ IsCleanup(added[j])
              /\ Identity(added[i]) = Identity(added[j]) => i = j
       /\ \A i \in 1 .. Len(added) : IsCleanup(added[i]) => Identity(added[i]) \notin cleaned
       /\ cleaned' = (cleaned \ Gone(as))
            \union {Identity(added[i]) : i \in {k \in 1 .. Len(added) : IsCleanup(added[k])}}
  BY DEF Sends
<1>2. as \subseteq replies /\ replies' = replies \ as
  BY DEF Sends
<1>3. /\ main' \in Seq(SentCalls) /\ Len(main') = Len(main) + Len(added)
      /\ \A i \in 1 .. Len(main') :
           \/ i \in 1 .. Len(main) /\ main'[i] = main[i]
           \/ i - Len(main) \in 1 .. Len(added) /\ main'[i] = added[i - Len(main)]
      /\ Range(main') = Range(main) \union Range(added)
  BY <1>1, Joined DEF CallTypes
<1>4. /\ Len(main) \in Nat /\ Len(added) \in Nat
      /\ DOMAIN main = 1 .. Len(main) /\ DOMAIN added = 1 .. Len(added)
  BY LenProperties DEF CallTypes
<1>5. /\ \A c \in Range(main) : IsCleanup(c) => Identity(c) \in cleaned
      /\ \A a \in replies : IsCleanup(a.call) => Identity(a.call) \in cleaned
      /\ \A x \in cleaned : \/ \E c \in Range(main) : IsCleanup(c) /\ Identity(c) = x
                            \/ \E a \in replies : IsCleanup(a.call) /\ Identity(a.call) = x
  BY DEF CleanupsOnce, Outstanding, IsCleanup
<1>6. \A i \in 1 .. Len(main) : IsCleanup(main[i]) => Identity(main[i]) \in cleaned
  BY <1>4, <1>5 DEF Range
<1>7. \A i, j \in 1 .. Len(main) :
        IsCleanup(main[i]) /\ IsCleanup(main[j]) /\ Identity(main[i]) = Identity(main[j]) => i = j
  BY DEF CleanupsOnce, IsCleanup
<1>8. \A a \in replies : IsCleanup(a.call) =>
       /\ \A i \in 1 .. Len(main) : IsCleanup(main[i]) => Identity(main[i]) # Identity(a.call)
       /\ \A b \in replies : IsCleanup(b.call) /\ Identity(b.call) = Identity(a.call) => b = a
  BY DEF CleanupsOnce, IsCleanup
<1>9. \A i, j \in 1 .. Len(main') :
        IsCleanup(main'[i]) /\ IsCleanup(main'[j]) /\ Identity(main'[i]) = Identity(main'[j]) => i = j
  <2> SUFFICES ASSUME NEW i \in 1 .. Len(main'), NEW j \in 1 .. Len(main'),
                      IsCleanup(main'[i]), IsCleanup(main'[j]),
                      Identity(main'[i]) = Identity(main'[j])
               PROVE  i = j
    OBVIOUS
  <2>1. CASE i \in 1 .. Len(main) /\ main'[i] = main[i] /\ j \in 1 .. Len(main) /\ main'[j] = main[j]
    BY <2>1, <1>7
  <2>2. CASE i \in 1 .. Len(main) /\ main'[i] = main[i]
             /\ j - Len(main) \in 1 .. Len(added) /\ main'[j] = added[j - Len(main)]
    BY <2>2, <1>1, <1>6
  <2>3. CASE j \in 1 .. Len(main) /\ main'[j] = main[j]
             /\ i - Len(main) \in 1 .. Len(added) /\ main'[i] = added[i - Len(main)]
    BY <2>3, <1>1, <1>6
  <2>4. CASE /\ i - Len(main) \in 1 .. Len(added) /\ main'[i] = added[i - Len(main)]
             /\ j - Len(main) \in 1 .. Len(added) /\ main'[j] = added[j - Len(main)]
    <3>1. i - Len(main) = j - Len(main)
      BY <2>4, <1>1
    <3>2. QED
      BY <3>1, <1>3, <1>4
  <2>5. QED
    BY <1>3, <2>1, <2>2, <2>3, <2>4
<1>10. \A a \in replies' : IsCleanup(a.call) =>
       /\ \A i \in 1 .. Len(main') : IsCleanup(main'[i]) => Identity(main'[i]) # Identity(a.call)
       /\ \A b \in replies' : IsCleanup(b.call) /\ Identity(b.call) = Identity(a.call) => b = a
  <2> SUFFICES ASSUME NEW a \in replies', IsCleanup(a.call)
               PROVE  /\ \A i \in 1 .. Len(main') :
                           IsCleanup(main'[i]) => Identity(main'[i]) # Identity(a.call)
                      /\ \A b \in replies' :
                           IsCleanup(b.call) /\ Identity(b.call) = Identity(a.call) => b = a
    OBVIOUS
  <2>1. a \in replies /\ Identity(a.call) \in cleaned
    BY <1>2, <1>5
  <2>2. ASSUME NEW i \in 1 .. Len(main'), IsCleanup(main'[i])
        PROVE  Identity(main'[i]) # Identity(a.call)
    <3>1. CASE i \in 1 .. Len(main) /\ main'[i] = main[i]
      BY <2>1, <2>2, <3>1, <1>8
    <3>2. CASE i - Len(main) \in 1 .. Len(added) /\ main'[i] = added[i - Len(main)]
      BY <2>1, <2>2, <3>2, <1>1
    <3>3. QED
      BY <1>3, <3>1, <3>2
  <2>3. QED
    BY <2>1, <2>2, <1>2, <1>8
<1>11. cleaned' = {Identity(c) : c \in {e \in Outstanding' : IsCleanup(e)}}
  <2>1. ASSUME NEW c \in Outstanding', IsCleanup(c)
        PROVE  Identity(c) \in cleaned'
    <3>1. CASE c \in Range(added)
      BY <2>1, <3>1, <1>1, <1>4 DEF Range
    <3>2. CASE c \in Range(main)
      <4>1. PICK i \in 1 .. Len(main) : main[i] = c
        BY <3>2, <1>4 DEF Range
      <4>2. \A a \in as : IsCleanup(a.call) => Identity(a.call) # Identity(c)
        BY <4>1, <2>1, <1>2, <1>8
      <4>3. Identity(c) \notin Gone(as)
        BY <4>2 DEF Gone
      <4>4. QED
        BY <4>3, <3>2, <2>1, <1>1, <1>5
    <3>3. CASE \E a \in replies' : a.call = c
      <4>1. PICK a \in replies' : a.call = c
        BY <3>3
      <4>2. \A b \in as : IsCleanup(b.call) => Identity(b.call) # Identity(c)
        BY <4>1, <2>1, <1>2, <1>8
      <4>3. Identity(c) \notin Gone(as)
        BY <4>2 DEF Gone
      <4>4. QED
        BY <4>1, <4>3, <2>1, <1>1, <1>2, <1>5
    <3>4. QED
      BY <2>1, <1>3, <3>1, <3>2, <3>3 DEF Outstanding
  <2>2. ASSUME NEW x \in cleaned'
        PROVE  \E c \in Outstanding' : IsCleanup(c) /\ Identity(c) = x
    <3>1. CASE x \in cleaned /\ x \notin Gone(as)
      <4>1. CASE \E c \in Range(main) : IsCleanup(c) /\ Identity(c) = x
        BY <4>1, <1>3 DEF Outstanding
      <4>2. CASE \E a \in replies : IsCleanup(a.call) /\ Identity(a.call) = x
        BY <4>2, <3>1, <1>2 DEF Outstanding, Gone
      <4>3. QED
        BY <3>1, <1>5, <4>1, <4>2
    <3>2. CASE x \in {Identity(added[i]) : i \in {k \in 1 .. Len(added) : IsCleanup(added[k])}}
      <4>1. PICK i \in 1 .. Len(added) : IsCleanup(added[i]) /\ Identity(added[i]) = x
        BY <3>2
      <4>2. added[i] \in Range(main')
        BY <1>3, <1>4 DEF Range
      <4>3. QED
        BY <4>1, <4>2 DEF Outstanding
    <3>3. QED
      BY <2>2, <1>1, <3>1, <3>2
  <2>3. QED
    BY <2>1, <2>2
<1>12. QED
  BY <1>9, <1>10, <1>11 DEF CleanupsOnce, IsCleanup

\* Sending nothing, one call, or the calls of the opens that go on.
LEMMA SendsNothing ==
  ASSUME CallTypes, UNCHANGED <<main, replies, cleaned>>
  PROVE  Sends({})
<1>1. <<>> \in Seq(SentCalls) /\ main' = main \o <<>> /\ Len(<<>>) = 0
  BY NothingSent DEF CallTypes
<1>2. \A i \in 1 .. Len(<<>>) : FALSE
  BY <1>1
<1>3. Gone({}) = {}
  BY DEF Gone
<1>4. cleaned' = (cleaned \ Gone({}))
            \union {Identity(<<>>[i]) : i \in {k \in 1 .. Len(<<>>) : IsCleanup(<<>>[k])}}
  BY <1>2, <1>3
<1>5. QED
  BY <1>1, <1>2, <1>4 DEF Sends

LEMMA SendsOthers ==
  ASSUME CallTypes, NEW as, as \subseteq replies, replies' = replies \ as,
         NEW added \in Seq(SentCalls), main' = main \o added,
         \A i \in 1 .. Len(added) : ~ IsCleanup(added[i]),
         cleaned' = cleaned \ Gone(as)
  PROVE  Sends(as)
<1>1. {Identity(added[i]) : i \in {k \in 1 .. Len(added) : IsCleanup(added[k])}} = {}
  OBVIOUS
<1>2. QED
  BY <1>1 DEF Sends

LEMMA SendsOne ==
  ASSUME CallTypes, NEW c \in SentCalls, ~ IsCleanup(c), main' = Append(main, c),
         UNCHANGED <<replies, cleaned>>
  PROVE  Sends({})
<1>1. <<c>> \in Seq(SentCalls) /\ main' = main \o <<c>>
      /\ \A i \in 1 .. Len(<<c>>) : ~ IsCleanup(<<c>>[i])
  BY Single DEF CallTypes
<1>2. Gone({}) = {}
  BY DEF Gone
<1>3. QED
  BY <1>1, <1>2, SendsOthers

LEMMA SettlesNothing ==
  ASSUME CallTypes, NEW a \in replies, ~ IsCleanup(a.call), replies' = replies \ {a},
         UNCHANGED <<main, cleaned>>
  PROVE  Sends({a})
<1>1. <<>> \in Seq(SentCalls) /\ main' = main \o <<>> /\ Len(<<>>) = 0
  BY NothingSent DEF CallTypes
<1>2. \A i \in 1 .. Len(<<>>) : ~ IsCleanup(<<>>[i])
  BY <1>1
<1>3. Gone({a}) = {}
  BY DEF Gone
<1>4. QED
  BY <1>1, <1>2, <1>3, SendsOthers

\* A file to clean up was opened by some request.
OpenedFiles(files) ==
  /\ files \subseteq Opened \X Paths
  /\ \A f \in files : \E r \in Requests : f[2] \in DOMAIN result[r] /\ result[r][f[2]] = f[1]

\* The path of an opened document is one.
LEMMA OnePath ==
  ASSUME ResultsAgree, BackendTypes, NEW files, OpenedFiles(files), NEW f \in files, NEW g \in files, f[1] = g[1]
  PROVE  f = g
<1>1. f \in Opened \X Paths /\ g \in Opened \X Paths
  BY DEF OpenedFiles
<1>2. PICK r \in Requests : f[2] \in DOMAIN result[r] /\ result[r][f[2]] = f[1]
  BY DEF OpenedFiles
<1>3. PICK s \in Requests : g[2] \in DOMAIN result[s] /\ result[s][g[2]] = g[1]
  BY DEF OpenedFiles
<1>4. f[1] # NotOpened
  BY <1>1 DEF Opened, NotOpened, Documents
<1>5. g[2] = f[2]
  BY <1>2, <1>3, <1>4 DEF ResultsAgree
<1>6. QED
  BY <1>1, <1>5

\* The cleanups of files that are not cleaned up already, after some other call.
LEMMA SendsCleanups ==
  ASSUME CallTypes, BackendTypes, ResultsAgree, NEW files, OpenedFiles(files),
         NEW first \in Seq(SentCalls), \A i \in 1 .. Len(first) : ~ IsCleanup(first[i]),
         NEW calls \in SetToSeqs({CleanupCall(f[1], f[2]) : f \in {e \in files : e[1] \notin cleaned}}),
         main' = (main \o first) \o calls,
         cleaned' = cleaned \union {f[1] : f \in {e \in files : e[1] \notin cleaned}},
         UNCHANGED replies
  PROVE  Sends({})
<1> DEFINE new == {e \in files : e[1] \notin cleaned}
           added == first \o calls
<1>1. new \in SUBSET (Opened \X Paths)
  BY DEF OpenedFiles
<1>2. /\ calls \in Seq(SentCalls)
      /\ \A i \in 1 .. Len(calls) : \E f \in new : calls[i] = CleanupCall(f[1], f[2])
      /\ \A f \in new : \E i \in 1 .. Len(calls) : calls[i] = CleanupCall(f[1], f[2])
      /\ \A i, j \in 1 .. Len(calls) : calls[i] = calls[j] => i = j
  BY <1>1, CleanupsListed
<1>3. \A f \in new : /\ Identity(CleanupCall(f[1], f[2])) = f[1]
                     /\ IsCleanup(CleanupCall(f[1], f[2]))
  BY <1>1 DEF Identity, CleanupCall, Call, Opened, IsCleanup
<1> HIDE DEF new
<1>4. /\ added \in Seq(SentCalls) /\ Len(added) = Len(first) + Len(calls)
      /\ \A i \in 1 .. Len(added) :
           \/ i \in 1 .. Len(first) /\ added[i] = first[i]
           \/ i - Len(first) \in 1 .. Len(calls) /\ added[i] = calls[i - Len(first)]
      /\ Range(added) = Range(first) \union Range(calls)
  BY <1>2, Joined
<1>5. main' = main \o added
  BY <1>2, ConcatAssociative DEF CallTypes
<1>6. /\ Len(first) \in Nat /\ Len(calls) \in Nat /\ DOMAIN calls = 1 .. Len(calls)
      /\ DOMAIN added = 1 .. Len(added)
  BY <1>2, <1>4, LenProperties
<1> HIDE DEF added
<1>7. \A i \in 1 .. Len(added) : IsCleanup(added[i]) =>
        /\ i - Len(first) \in 1 .. Len(calls) /\ added[i] = calls[i - Len(first)]
        /\ \E f \in new : added[i] = CleanupCall(f[1], f[2]) /\ Identity(added[i]) = f[1]
  <2> SUFFICES ASSUME NEW i \in 1 .. Len(added), IsCleanup(added[i])
               PROVE  /\ i - Len(first) \in 1 .. Len(calls) /\ added[i] = calls[i - Len(first)]
                      /\ \E f \in new : /\ added[i] = CleanupCall(f[1], f[2])
                                        /\ Identity(added[i]) = f[1]
    OBVIOUS
  <2>1. i - Len(first) \in 1 .. Len(calls) /\ added[i] = calls[i - Len(first)]
    BY <1>4
  <2>2. PICK f \in new : calls[i - Len(first)] = CleanupCall(f[1], f[2])
    BY <2>1, <1>2
  <2>3. QED
    BY <2>1, <2>2, <1>3
<1>8. \A i \in 1 .. Len(added) : IsCleanup(added[i]) => Identity(added[i]) \notin cleaned
  BY <1>7 DEF new
<1>9. \A i, j \in 1 .. Len(added) :
            IsCleanup(added[i]) /\ IsCleanup(added[j])
              /\ Identity(added[i]) = Identity(added[j]) => i = j
  <2> SUFFICES ASSUME NEW i \in 1 .. Len(added), NEW j \in 1 .. Len(added),
                      IsCleanup(added[i]), IsCleanup(added[j]),
                      Identity(added[i]) = Identity(added[j])
               PROVE  i = j
    OBVIOUS
  <2>1. PICK f \in new : added[i] = CleanupCall(f[1], f[2]) /\ Identity(added[i]) = f[1]
    BY <1>7
  <2>2. PICK g \in new : added[j] = CleanupCall(g[1], g[2]) /\ Identity(added[j]) = g[1]
    BY <1>7
  <2>3. f = g
    BY <2>1, <2>2, OnePath DEF new
  <2>4. calls[i - Len(first)] = calls[j - Len(first)]
    BY <2>1, <2>2, <2>3, <1>7
  <2>5. i - Len(first) = j - Len(first)
    BY <2>4, <1>2, <1>7
  <2>6. QED
    BY <2>5, <1>4, <1>6
<1>10. {Identity(added[i]) : i \in {k \in 1 .. Len(added) : IsCleanup(added[k])}} = {f[1] : f \in new}
  <2>1. ASSUME NEW i \in 1 .. Len(added), IsCleanup(added[i])
        PROVE  Identity(added[i]) \in {f[1] : f \in new}
    BY <2>1, <1>7
  <2>2. ASSUME NEW f \in new
        PROVE  \E i \in 1 .. Len(added) : IsCleanup(added[i]) /\ Identity(added[i]) = f[1]
    <3>1. PICK k \in 1 .. Len(calls) : calls[k] = CleanupCall(f[1], f[2])
      BY <1>2
    <3>2. calls[k] \in Range(added)
      BY <1>4, <1>6 DEF Range
    <3>3. QED
      BY <3>1, <3>2, <1>3, <1>6 DEF Range
  <2>3. QED
    BY <2>1, <2>2
<1>11. Gone({}) = {}
  BY DEF Gone
<1>12. cleaned' = (cleaned \ Gone({}))
            \union {Identity(added[i]) : i \in {k \in 1 .. Len(added) : IsCleanup(added[k])}}
  BY <1>10, <1>11 DEF new
<1>13. QED
  BY <1>4, <1>5, <1>8, <1>9, <1>12 DEF Sends

-----------------------------------------------------------------------------
(* Steps that a group of actions shares *)

LEMMA OpensKept ==
  ASSUME OpensGoOn,
         \A r \in Requests : phase'[r] = "waiting" => phase[r] = "waiting" /\ waits'[r] = waits[r],
         \A c \in Outstanding : c.paths # {} => c \in Outstanding'
  PROVE  OpensGoOn'
BY DEF OpensGoOn, Barriers

LEMMA ResultsKept ==
  ASSUME ResultsAgree, UNCHANGED <<result, open, closed>>,
         \A p \in Paths : deferred'[p] # None =>
           \E r \in Requests : p \in DOMAIN result[r] /\ result[r][p] = deferred'[p].opened
  PROVE  ResultsAgree'
BY DEF ResultsAgree

\* A task of the page that lets no open wait.
LEMMA PageStep ==
  ASSUME PageInvariant, PageTypes', NEW as, Sends(as), \A a \in as : a.call.paths = {},
         UNCHANGED <<result, backend, waits>>,
         phase' \in [Requests -> {"new", "waiting", "sent", "answered", "rejected", "done"}],
         \A r \in Requests : \/ phase'[r] = phase[r]
                             \/ phase[r] # "waiting" /\ phase'[r] \notin {"answered", "waiting"},
         \A p \in Paths : deferred'[p] # None =>
           \E r \in Requests : p \in DOMAIN result[r] /\ result[r][p] = deferred'[p].opened
  PROVE  PageInvariant'
<1>1. /\ CallTypes /\ OpensGoOn /\ ResultsAgree /\ CleanupsOnce /\ BackendTypes
  BY DEF PageInvariant, TypesHold
<1>2. BackendTypes'
  BY <1>1 DEF BackendTypes, backend
<1>3. CallTypes'
  <2>1. /\ waits' \in [Requests -> SUBSET SentCalls]
        /\ \A r \in Requests : phase'[r] = "answered" => phase[r] = "answered"
        /\ \A r \in Requests : phase'[r] # "waiting" => waits'[r] = {}
    BY <1>1 DEF CallTypes
  <2>2. QED
    BY <1>1, <2>1, SendsTypes
<1>4. OpensGoOn'
  <2>1. \A c \in Outstanding : c.paths # {} => c \in Outstanding'
    <3>1. \A c \in Outstanding : c.paths # {} => c \notin {a.call : a \in as}
      OBVIOUS
    <3>2. Outstanding \ {a.call : a \in as} \subseteq Outstanding'
      BY <1>1, SendsOutstanding
    <3>3. QED
      BY <3>1, <3>2
  <2>2. QED
    BY <1>1, <2>1, OpensKept
<1>5. ResultsAgree'
  BY <1>1, ResultsKept DEF backend
<1>6. CleanupsOnce'
  BY <1>1, OnceSent
<1>7. QED
  BY <1>2, <1>3, <1>4, <1>5, <1>6 DEF PageInvariant, TypesHold

LEMMA DeferredOpened ==
  ASSUME ResultsAgree
  PROVE  \A p \in Paths : deferred[p] # None =>
           \E r \in Requests : p \in DOMAIN result[r] /\ result[r][p] = deferred[p].opened
BY DEF ResultsAgree

\* The head of the main thread is an open whose answer is complete, or stays.
LEMMA OpenTaken ==
  ASSUME CallTypes, CleanupsOnce, UNCHANGED <<replies, cleaned>>,
         \/ UNCHANGED main
         \/ main # <<>> /\ Head(main).kind = "open" /\ main' = Tail(main)
  PROVE  /\ main' \in Seq(SentCalls)
         /\ \A c \in Outstanding : c.paths # {} => c \in Outstanding'
         /\ CleanupsOnce'
<1>1. CASE UNCHANGED main
  BY <1>1 DEF CallTypes, Outstanding, CleanupsOnce
<1>2. CASE main # <<>> /\ Head(main).kind = "open" /\ main' = Tail(main)
  <2>1. /\ Head(main) = main[1] /\ Head(main) \in SentCalls /\ main' \in Seq(SentCalls)
        /\ Len(main') = Len(main) - 1 /\ 1 \in 1 .. Len(main)
        /\ \A i \in 1 .. Len(main') : i + 1 \in 1 .. Len(main) /\ main'[i] = main[i + 1]
        /\ Range(main) = {Head(main)} \union Range(main')
    BY <1>2, Taken DEF CallTypes
  <2>2. Head(main).paths = {}
    BY <1>2, <2>1 DEF SentCalls, SettledKinds
  <2>3. {e \in Outstanding' : e.kind = "cleanup"} = {e \in Outstanding : e.kind = "cleanup"}
    BY <1>2, <2>1 DEF Outstanding
  <2>4. \A i, j \in 1 .. Len(main') :
          main'[i].kind = "cleanup" /\ main'[j].kind = "cleanup"
            /\ Identity(main'[i]) = Identity(main'[j]) => i = j
    <3>1. \A i, j \in 1 .. Len(main') :
            main'[i].kind = "cleanup" /\ main'[j].kind = "cleanup"
              /\ Identity(main'[i]) = Identity(main'[j]) => i + 1 = j + 1
      BY <2>1 DEF CleanupsOnce
    <3>2. Len(main') \in Nat
      BY <2>1, LenProperties
    <3>3. QED
      BY <3>1, <3>2
  <2>5. CleanupsOnce'
    BY <2>1, <2>3, <2>4 DEF CleanupsOnce
  <2>6. \A c \in Outstanding : c.paths # {} => c \in Outstanding'
    BY <2>1, <2>2 DEF Outstanding
  <2>7. QED
    BY <2>1, <2>5, <2>6
<1>3. QED
  BY <1>1, <1>2

\* A call executed is under way as before.
LEMMA CallExecuted ==
  ASSUME CallTypes, CleanupsOnce, NEW kinds, NEW v, Executes(kinds, v)
  PROVE  Outstanding' = Outstanding /\ CleanupsOnce'
<1> DEFINE a == [call |-> Head(main), value |-> v]
<1>1. main # <<>> /\ main' = Tail(main) /\ replies' = replies \union {a} /\ UNCHANGED cleaned
  BY DEF Executes, page
<1>2. /\ Head(main) = main[1] /\ Head(main) \in SentCalls /\ main' \in Seq(SentCalls)
      /\ Len(main') = Len(main) - 1 /\ 1 \in 1 .. Len(main)
      /\ \A i \in 1 .. Len(main') : i + 1 \in 1 .. Len(main) /\ main'[i] = main[i + 1]
      /\ Range(main) = {Head(main)} \union Range(main')
  BY <1>1, Taken DEF CallTypes
<1>3. a.call = main[1]
  BY <1>2
<1> HIDE DEF a
<1>4. Outstanding' = Outstanding
  BY <1>1, <1>2, <1>3 DEF Outstanding
<1>5. Len(main') \in Nat /\ Len(main) \in Nat
  BY <1>2, LenProperties DEF CallTypes
<1>6. \A i, j \in 1 .. Len(main') :
        main'[i].kind = "cleanup" /\ main'[j].kind = "cleanup"
          /\ Identity(main'[i]) = Identity(main'[j]) => i = j
  <2>1. \A i, j \in 1 .. Len(main') :
          main'[i].kind = "cleanup" /\ main'[j].kind = "cleanup"
            /\ Identity(main'[i]) = Identity(main'[j]) => i + 1 = j + 1
    BY <1>2 DEF CleanupsOnce
  <2>2. QED
    BY <2>1, <1>5
<1>7. \A i \in 1 .. Len(main') : main'[i].kind = "cleanup" /\ a.call.kind = "cleanup" =>
        Identity(main'[i]) # Identity(a.call)
  <2> SUFFICES ASSUME NEW i \in 1 .. Len(main'), main'[i].kind = "cleanup",
                      a.call.kind = "cleanup", Identity(main'[i]) = Identity(a.call)
               PROVE  FALSE
    OBVIOUS
  <2>1. i + 1 = 1
    BY <1>2, <1>3 DEF CleanupsOnce
  <2>2. QED
    BY <2>1, <1>5
<1>8. \A b \in replies : b.call.kind = "cleanup" =>
        /\ \A i \in 1 .. Len(main') :
             main'[i].kind = "cleanup" => Identity(main'[i]) # Identity(b.call)
        /\ a.call.kind = "cleanup" => Identity(b.call) # Identity(a.call)
        /\ \A e \in replies :
             e.call.kind = "cleanup" /\ Identity(e.call) = Identity(b.call) => e = b
  BY <1>2, <1>3 DEF CleanupsOnce
<1>9. CleanupsOnce'
  BY <1>1, <1>4, <1>6, <1>7, <1>8 DEF CleanupsOnce
<1>10. QED
  BY <1>4, <1>9

\* The document of a call is closed or given a new session.
LEMMA RegistryResults ==
  ASSUME BackendTypes, ResultsAgree, UNCHANGED <<result, deferred>>,
         \/ UNCHANGED <<open, closed>>
         \/ \E d \in Documents : Registry!Close(d)
         \/ \E d \in Documents, s \in Sessions : Registry!Replace(d, s)
  PROVE  ResultsAgree'
<1>1. /\ DOMAIN open \union closed \subseteq DOMAIN open' \union closed'
      /\ \A d \in DOMAIN open' : d \in DOMAIN open /\ open'[d].file = open[d].file
  <2>1. CASE UNCHANGED <<open, closed>>
    BY <2>1
  <2>2. ASSUME NEW d \in Documents, Registry!Close(d)
        PROVE  /\ DOMAIN open \union closed \subseteq DOMAIN open' \union closed'
               /\ \A e \in DOMAIN open' : e \in DOMAIN open /\ open'[e].file = open[e].file
    BY <2>2 DEF Registry!Close
  <2>3. ASSUME NEW d \in Documents, NEW s \in Sessions, Registry!Replace(d, s)
        PROVE  /\ DOMAIN open \union closed \subseteq DOMAIN open' \union closed'
               /\ \A e \in DOMAIN open' : e \in DOMAIN open /\ open'[e].file = open[e].file
    BY <2>3 DEF Registry!Replace, BackendTypes
  <2>4. QED
    BY <2>1, <2>2, <2>3
<1>2. QED
  BY <1>1 DEF ResultsAgree

\* A call that the main thread executes.
LEMMA ExecuteStep ==
  ASSUME PageInvariant, NEW kinds, NEW v \in 0 .. MaxSession, Executes(kinds, v),
         previous' \in [Documents -> 0 .. MaxSession], sessions' \in 0 .. MaxSession,
         cancelled' \subseteq Requests,
         \/ UNCHANGED <<open, closed>>
         \/ \E d \in Documents : Registry!Close(d)
         \/ \E d \in Documents, s \in Sessions : Registry!Replace(d, s)
  PROVE  PageInvariant'
<1>1. /\ CallTypes /\ OpensGoOn /\ ResultsAgree /\ CleanupsOnce /\ BackendTypes /\ PageTypes
  BY DEF PageInvariant, TypesHold
<1>2. UNCHANGED <<page, phase, waits, result>>
  BY DEF Executes
<1>3. PageTypes'
  BY <1>1, <1>2 DEF PageTypes, page
<1>4. BackendTypes'
  BY <1>1, <1>2, RegistryTypes
<1>5. CallTypes'
  BY <1>1, ExecutedTypes
<1>6. OpensGoOn' /\ CleanupsOnce'
  BY <1>1, <1>2, CallExecuted, OpensKept
<1>7. ResultsAgree'
  BY <1>1, <1>2, RegistryResults DEF page
<1>8. QED
  BY <1>3, <1>4, <1>5, <1>6, <1>7 DEF PageInvariant, TypesHold

-----------------------------------------------------------------------------
(* The backend *)

LEMMA ItemServed ==
  ASSUME PageInvariant, NEW r \in Requests, ServeItem(r)
  PROVE  PageInvariant'
<1>1. /\ CallTypes /\ OpensGoOn /\ ResultsAgree /\ CleanupsOnce /\ BackendTypes /\ PageTypes
  BY DEF PageInvariant, TypesHold
<1>2. PICK p \in Paths : OpenItem(r, p)
  BY DEF ServeItem
<1>3. /\ BackendTypes'
      /\ DOMAIN result'[r] = DOMAIN result[r] \union {p} /\ p \notin DOMAIN result[r]
      /\ result'[r][p] \in Opened \union {NotOpened}
      /\ \A s \in Requests : \A q \in DOMAIN result[s] :
           q \in DOMAIN result'[s] /\ result'[s][q] = result[s][q]
      /\ \A s \in Requests : s # r => result'[s] = result[s]
      /\ \/ result'[r][p] = NotOpened /\ UNCHANGED <<open, closed>>
         \/ LET d == result'[r][p].document
            IN d \in DOMAIN open /\ open[d].file = p /\ UNCHANGED <<open, closed>>
         \/ \E s \in Sessions : Registry!Open(result'[r][p].document, p, s)
  BY <1>1, <1>2, OpenItemTypes
<1>4. /\ UNCHANGED <<page, waits, replies>> /\ phase[r] = "sent"
      /\ \/ UNCHANGED <<phase, main>>
         \/ /\ DOMAIN result'[r] = PathsOf[r]
            /\ phase' = [phase EXCEPT ![r] = "answered"]
            /\ \/ UNCHANGED main
               \/ main # <<>> /\ Head(main) = OpenCall(r) /\ main' = Tail(main)
  BY DEF ServeItem, Serving, Answered
<1>5. PageTypes'
  BY <1>1, <1>4 DEF PageTypes, page
<1>6. OpenCall(r).kind = "open"
  BY DEF OpenCall, Call
<1>7. /\ main' \in Seq(SentCalls)
      /\ \A c \in Outstanding : c.paths # {} => c \in Outstanding'
      /\ CleanupsOnce'
  BY <1>1, <1>4, <1>6, OpenTaken DEF page
<1>8. CallTypes'
  <2>1. \A s \in Requests : s # r => phase'[s] = phase[s] /\ result'[s] = result[s]
    BY <1>1, <1>3, <1>4 DEF CallTypes
  <2>2. phase'[r] = "answered" => DOMAIN result'[r] = PathsOf[r]
    BY <1>1, <1>4 DEF CallTypes
  <2>3. phase' \in [Requests -> {"new", "waiting", "sent", "answered", "rejected", "done"}]
    BY <1>1, <1>4 DEF CallTypes
  <2>4. \A s \in Requests : phase'[s] # "waiting" => waits'[s] = {}
    BY <1>1, <1>4 DEF CallTypes
  <2>5. QED
    BY <1>1, <1>4, <1>7, <2>1, <2>2, <2>3, <2>4 DEF CallTypes
<1>9. OpensGoOn'
  <2>1. \A s \in Requests : phase'[s] = "waiting" => phase[s] = "waiting" /\ waits'[s] = waits[s]
    BY <1>1, <1>4 DEF CallTypes
  <2>2. QED
    BY <1>1, <1>7, <2>1, OpensKept
<1> DEFINE Of(s, q, d) == q \in DOMAIN result[s] /\ result[s][q].document = d
<1>10. ASSUME NEW d \in Documents, NEW s \in Requests, NEW q \in DOMAIN result[s],
              result[s][q].document = d
       PROVE  /\ d \in DOMAIN open \union closed
              /\ d \in DOMAIN open => open[d].file = q
              /\ \A t \in Requests : \A u \in DOMAIN result[t] : result[t][u].document = d => u = q
  <2>1. result[s][q] # NotOpened
    BY <1>10 DEF NotOpened, Documents
  <2>2. QED
    BY <1>1, <1>10, <2>1 DEF ResultsAgree
<1>11. \A s \in Requests : \A q \in DOMAIN result'[s] :
         \/ q \in DOMAIN result[s] /\ result'[s][q] = result[s][q]
         \/ s = r /\ q = p
  BY <1>3
<1>12. \A s \in Requests : \A q \in DOMAIN result[s] :
         result[s][q] \in Opened \union {NotOpened}
  BY <1>1 DEF BackendTypes
<1>13. \A o \in Opened \union {NotOpened} : o # NotOpened => o.document \in Documents
  BY DEF Opened
<1>14. result'[r][p] # NotOpened =>
         \A s \in Requests : \A q \in DOMAIN result[s] :
           result[s][q].document = result'[r][p].document => q = p
  <2> SUFFICES ASSUME result'[r][p] # NotOpened, NEW s \in Requests, NEW q \in DOMAIN result[s],
                      result[s][q].document = result'[r][p].document
               PROVE  q = p
    OBVIOUS
  <2>1. result'[r][p].document \in Documents
    BY <1>3, <1>13
  <2>2. CASE LET d == result'[r][p].document IN d \in DOMAIN open /\ open[d].file = p
    BY <2>1, <2>2, <1>10
  <2>3. CASE \E t \in Sessions : Registry!Open(result'[r][p].document, p, t)
    BY <2>1, <2>3, <1>10 DEF Registry!Open
  <2>4. QED
    BY <1>3, <2>2, <2>3
<1>15. /\ DOMAIN open \union closed \subseteq DOMAIN open' \union closed'
       /\ \A d \in DOMAIN open \union closed :
            d \in DOMAIN open' => d \in DOMAIN open /\ open'[d].file = open[d].file
  BY <1>3 DEF Registry!Open
<1>16. result'[r][p] # NotOpened =>
         LET d == result'[r][p].document
         IN d \in DOMAIN open' /\ open'[d].file = p
  <2> DEFINE d == result'[r][p].document
  <2>1. CASE d \in DOMAIN open /\ open[d].file = p /\ UNCHANGED <<open, closed>>
    BY <2>1
  <2>2. ASSUME NEW t \in Sessions, Registry!Open(d, p, t)
        PROVE  d \in DOMAIN open' /\ open'[d].file = p
    BY <2>2 DEF Registry!Open
  <2>3. QED
    BY <1>3, <2>1, <2>2
<1>17. \A s \in Requests : \A q \in DOMAIN result'[s] : result'[s][q] # NotOpened =>
         LET d == result'[s][q].document IN
         /\ d \in DOMAIN open' \union closed'
         /\ (d \in DOMAIN open' => open'[d].file = q)
         /\ \A t \in Requests : \A u \in DOMAIN result'[t] : result'[t][u].document = d => u = q
  <2> SUFFICES ASSUME NEW s \in Requests, NEW q \in DOMAIN result'[s], result'[s][q] # NotOpened
               PROVE  LET d == result'[s][q].document IN
                      /\ d \in DOMAIN open' \union closed'
                      /\ (d \in DOMAIN open' => open'[d].file = q)
                      /\ \A t \in Requests : \A u \in DOMAIN result'[t] :
                           result'[t][u].document = d => u = q
    OBVIOUS
  <2> DEFINE d == result'[s][q].document
  <2>1. CASE q \in DOMAIN result[s] /\ result'[s][q] = result[s][q]
    <3>1. d \in Documents /\ result[s][q].document = d
      BY <2>1, <1>12, <1>13
    <3>2. /\ d \in DOMAIN open \union closed
          /\ d \in DOMAIN open => open[d].file = q
          /\ \A t \in Requests : \A u \in DOMAIN result[t] : result[t][u].document = d => u = q
      BY <2>1, <3>1, <1>10
    <3>3. result'[r][p].document = d => p = q
      <4>1. result'[r][p].document = d => result'[r][p] # NotOpened
        BY <3>1 DEF NotOpened, Documents
      <4>2. QED
        BY <4>1, <3>1, <2>1, <1>14
    <3>4. \A t \in Requests : \A u \in DOMAIN result'[t] : result'[t][u].document = d => u = q
      BY <3>2, <3>3, <1>11
    <3>5. QED
      BY <3>2, <3>4, <1>15
  <2>2. CASE s = r /\ q = p
    <3>1. d \in DOMAIN open' /\ open'[d].file = q
      BY <2>2, <1>16
    <3>2. \A t \in Requests : \A u \in DOMAIN result'[t] : result'[t][u].document = d => u = q
      BY <2>2, <1>11, <1>14
    <3>3. QED
      BY <3>1, <3>2
  <2>3. QED
    BY <1>11, <2>1, <2>2
<1>18. \A q \in Paths : deferred'[q] # None =>
         \E s \in Requests : q \in DOMAIN result'[s] /\ result'[s][q] = deferred'[q].opened
  <2>1. deferred' = deferred
    BY <1>4 DEF page
  <2>2. QED
    BY <2>1, <1>1, <1>3 DEF ResultsAgree
<1>19. ResultsAgree'
  BY <1>17, <1>18 DEF ResultsAgree
<1>20. QED
  BY <1>3, <1>5, <1>7, <1>8, <1>9, <1>19 DEF PageInvariant, TypesHold

LEMMA RejectionServed ==
  ASSUME PageInvariant, NEW r \in Requests, ServeRejection(r)
  PROVE  PageInvariant'
<1>1. /\ CallTypes /\ OpensGoOn /\ ResultsAgree /\ CleanupsOnce /\ BackendTypes /\ PageTypes
  BY DEF PageInvariant, TypesHold
<1>2. /\ UNCHANGED <<page, waits, result, backend, replies>> /\ phase[r] = "sent"
      /\ phase' = [phase EXCEPT ![r] = "rejected"]
      /\ \/ UNCHANGED main
         \/ main # <<>> /\ Head(main) = OpenCall(r) /\ main' = Tail(main)
  BY DEF ServeRejection, Serving, Answered
<1>3. PageTypes' /\ BackendTypes'
  BY <1>1, <1>2 DEF PageTypes, BackendTypes, page, backend
<1>4. OpenCall(r).kind = "open"
  BY DEF OpenCall, Call
<1>5. /\ main' \in Seq(SentCalls)
      /\ \A c \in Outstanding : c.paths # {} => c \in Outstanding'
      /\ CleanupsOnce'
  BY <1>1, <1>2, <1>4, OpenTaken DEF page
<1>6. CallTypes'
  BY <1>1, <1>2, <1>5 DEF CallTypes
<1>7. OpensGoOn'
  <2>1. \A s \in Requests : phase'[s] = "waiting" => phase[s] = "waiting" /\ waits'[s] = waits[s]
    BY <1>1, <1>2 DEF CallTypes
  <2>2. QED
    BY <1>1, <1>5, <2>1, OpensKept
<1>8. ResultsAgree'
  BY <1>1, <1>2 DEF ResultsAgree, page, backend
<1>9. QED
  BY <1>3, <1>5, <1>6, <1>7, <1>8 DEF PageInvariant, TypesHold

\* The head of the main thread.
LEMMA HeadTyped ==
  ASSUME CallTypes, main # <<>>
  PROVE  Head(main) \in SentCalls
BY Taken DEF CallTypes

LEMMA CommandExecuted ==
  ASSUME PageInvariant, Execute
  PROVE  PageInvariant'
<1>1. CallTypes /\ BackendTypes
  BY DEF PageInvariant, TypesHold
<1>2. /\ previous \in [Documents -> 0 .. MaxSession] /\ sessions \in 0 .. MaxSession
      /\ cancelled \subseteq Requests
  BY <1>1 DEF BackendTypes
<1>3. 0 \in 0 .. MaxSession /\ MaxSession \in Nat
  BY TabsAssumption
<1>4. CASE ServeCancel
  <2>1. Executes({"cancel"}, 0) /\ cancelled' = cancelled \union {Head(main).request}
        /\ UNCHANGED <<open, closed, previous, sessions>>
    BY <1>4 DEF ServeCancel
  <2>2. Head(main) \in SentCalls /\ Head(main).kind = "cancel"
    BY <2>1, <1>1, HeadTyped DEF Executes
  <2>3. Head(main).request \in Requests
    BY <2>2 DEF SentCalls
  <2>4. cancelled' \subseteq Requests
    BY <2>1, <2>3, <1>2
  <2>5. QED
    BY <1>2, <1>3, <2>1, <2>4, ExecuteStep
<1>5. CASE ServeClose
  <2>1. Executes({"close", "cleanup"}, 0) /\ UNCHANGED <<previous, sessions, cancelled>>
        /\ \/ UNCHANGED <<open, closed>>
           \/ Head(main).document \in DOMAIN open /\ Registry!Close(Head(main).document)
    BY <1>5 DEF ServeClose
  <2>2. \/ UNCHANGED <<open, closed>>
        \/ \E d \in Documents : Registry!Close(d)
    BY <2>1, <1>1 DEF BackendTypes
  <2>3. QED
    BY <1>2, <1>3, <2>1, <2>2, ExecuteStep
<1>6. CASE ServeConfigure
  <2>1. /\ Executes({"configure"}, sessions + 1) /\ sessions < MaxSession
        /\ Head(main).document \in DOMAIN open
        /\ Registry!Replace(Head(main).document, sessions + 1)
        /\ previous' = [previous EXCEPT ![Head(main).document] = Head(main).session]
        /\ sessions' = sessions + 1 /\ UNCHANGED cancelled
    BY <1>6 DEF ServeConfigure, Current
  <2>2. sessions + 1 \in Sessions /\ sessions + 1 \in 0 .. MaxSession
    BY <2>1, <1>2, <1>3 DEF Sessions
  <2>3. Head(main).document \in Documents
    BY <2>1, <1>1 DEF BackendTypes
  <2>4. Head(main).session \in 0 .. MaxSession
    BY <2>1, <1>1, HeadTyped DEF Executes, SentCalls, Calls
  <2>5. previous' \in [Documents -> 0 .. MaxSession]
    BY <2>1, <2>4, <1>2
  <2>6. QED
    BY <1>2, <2>1, <2>2, <2>3, <2>5, ExecuteStep
<1>7. CASE ServeRead
  <2>1. Executes({"read", "first_page"}, Head(main).session) /\ UNCHANGED backend
    BY <1>7 DEF ServeRead
  <2>2. Head(main).session \in 0 .. MaxSession
    BY <2>1, <1>1, HeadTyped DEF Executes, SentCalls, Calls
  <2>3. QED
    BY <1>2, <2>1, <2>2, ExecuteStep DEF backend
<1>8. CASE ServeError
  <2>1. Executes({"configure", "read", "first_page"}, 0) /\ UNCHANGED backend
    BY <1>8 DEF ServeError
  <2>2. QED
    BY <1>2, <1>3, <2>1, ExecuteStep DEF backend
<1>9. QED
  BY <1>4, <1>5, <1>6, <1>7, <1>8 DEF Execute

-----------------------------------------------------------------------------
(* Opening *)

LEMMA OpensPaths ==
  ASSUME PageInvariant, NEW r \in Requests, OpenPaths(r)
  PROVE  PageInvariant'
<1>1. /\ CallTypes /\ OpensGoOn /\ ResultsAgree /\ CleanupsOnce /\ BackendTypes /\ PageTypes
  BY DEF PageInvariant, TypesHold
<1>2. /\ phase[r] = "new"
      /\ tabs' = tabs \union {Pending(r, p, "loading") : p \in PathsOf[r]}
      /\ waits' = [waits EXCEPT ![r] = Barriers(PathsOf[r])]
      /\ \/ waits'[r] = {} /\ phase' = [phase EXCEPT ![r] = "sent"]
            /\ main' = Append(main, OpenCall(r))
         \/ waits'[r] # {} /\ phase' = [phase EXCEPT ![r] = "waiting"] /\ UNCHANGED main
      /\ UNCHANGED <<rendered, closedPending, deferred, cleaned, latest, result, backend,
                     replies, bounds>>
  BY DEF OpenPaths
<1>3. PathsOf[r] \subseteq Paths
  BY TabsAssumption
<1>4. PageTypes'
  <2>1. {Pending(r, p, "loading") : p \in PathsOf[r]} \subseteq ShownTabs
    BY <1>3, TabsTyped
  <2>2. QED
    BY <1>1, <1>2, <2>1 DEF PageTypes
<1>5. BackendTypes'
  BY <1>1, <1>2 DEF BackendTypes, backend
<1>6. Sends({})
  <2>1. CASE main' = Append(main, OpenCall(r))
    <3>1. OpenCall(r) \in SentCalls /\ ~ IsCleanup(OpenCall(r))
      BY CallTyped DEF OpenCall, Call, IsCleanup
    <3>2. QED
      BY <1>1, <1>2, <2>1, <3>1, SendsOne
  <2>2. CASE UNCHANGED main
    BY <1>1, <1>2, <2>2, SendsNothing
  <2>3. QED
    BY <1>2, <2>1, <2>2
<1>7. Outstanding \subseteq SentCalls
  <2>1. Range(main) \subseteq SentCalls
    BY <1>1, LenProperties DEF CallTypes, Range
  <2>2. QED
    BY <1>1, <2>1 DEF Outstanding, CallTypes
<1>8. /\ waits'[r] = Barriers(PathsOf[r])
      /\ \A s \in Requests : s # r => waits'[s] = waits[s] /\ phase'[s] = phase[s]
      /\ waits' \in [Requests -> SUBSET SentCalls]
      /\ phase' \in [Requests -> {"new", "waiting", "sent", "answered", "rejected", "done"}]
      /\ phase'[r] # "answered" /\ (phase'[r] # "waiting" => waits'[r] = {})
      /\ (phase'[r] = "waiting" => waits'[r] # {})
  <2>1. Barriers(PathsOf[r]) \in SUBSET SentCalls
    BY <1>7 DEF Barriers
  <2>2. QED
    BY <1>1, <1>2, <2>1 DEF CallTypes
<1>9. CallTypes'
  <2>1. /\ \A s \in Requests : phase'[s] = "answered" => phase[s] = "answered"
        /\ \A s \in Requests : phase'[s] # "waiting" => waits'[s] = {}
    BY <1>1, <1>8 DEF CallTypes
  <2>2. QED
    BY <1>1, <1>2, <1>6, <1>8, <2>1, SendsTypes
<1>10. OpensGoOn'
  <2>1. Outstanding \subseteq Outstanding'
    BY <1>1, <1>6, SendsOutstanding
  <2>2. \A ps : Barriers(ps) \subseteq Barriers(ps)'
    BY <2>1 DEF Barriers
  <2>3. \A s \in Requests : phase'[s] = "waiting" =>
          waits'[s] # {} /\ waits'[s] \subseteq Barriers(PathsOf[s])
    BY <1>1, <1>8 DEF OpensGoOn
  <2>4. QED
    BY <2>1, <2>3 DEF OpensGoOn, Barriers
<1>11. ResultsAgree'
  BY <1>1, <1>2 DEF ResultsAgree, backend
<1>12. CleanupsOnce'
  BY <1>1, <1>6, OnceSent
<1>13. QED
  BY <1>4, <1>5, <1>9, <1>10, <1>11, <1>12 DEF PageInvariant, TypesHold

LEMMA OpensFile ==
  ASSUME PageInvariant, NEW r \in Requests, OpenFile(r)
  PROVE  PageInvariant'
<1>1. /\ CallTypes /\ ResultsAgree /\ PageTypes
  BY DEF PageInvariant, TypesHold
<1>2. /\ phase[r] = "new" /\ phase' = [phase EXCEPT ![r] = "sent"]
      /\ UNCHANGED <<page, waits, result, backend, main, replies, bounds>>
  BY DEF OpenFile
<1>3. PageTypes'
  BY <1>1, <1>2 DEF PageTypes, page
<1>4. Sends({})
  BY <1>1, <1>2, SendsNothing DEF page
<1>5. /\ phase' \in [Requests -> {"new", "waiting", "sent", "answered", "rejected", "done"}]
      /\ \A s \in Requests : \/ phase'[s] = phase[s]
                             \/ phase[s] # "waiting" /\ phase'[s] \notin {"answered", "waiting"}
  BY <1>1, <1>2 DEF CallTypes
<1>6. \A p \in Paths : deferred'[p] # None =>
        \E s \in Requests : p \in DOMAIN result[s] /\ result[s][p] = deferred'[p].opened
  BY <1>1, <1>2, DeferredOpened DEF page
<1>7. QED
  BY <1>2, <1>3, <1>4, <1>5, <1>6, PageStep

\* What a request may forget was opened by a request.
LEMMA UnretainedOpened ==
  ASSUME PageTypes, ResultsAgree, NEW r, NEW ps \in SUBSET Paths, NEW x
  PROVE  OpenedFiles(Unretained(r, ps, x))
<1> SUFFICES ASSUME NEW f \in Unretained(r, ps, x)
             PROVE  /\ f \in Opened \X Paths
                    /\ \E s \in Requests : f[2] \in DOMAIN result[s] /\ result[s][f[2]] = f[1]
  BY DEF OpenedFiles
<1>1. PICK p \in ps : f = <<deferred[p].opened, p>> /\ deferred[p] # None
  BY DEF Unretained, Owned
<1>2. deferred[p].opened \in Opened
  BY <1>1 DEF PageTypes
<1>3. \E s \in Requests : p \in DOMAIN result[s] /\ result[s][p] = deferred[p].opened
  BY <1>1, DeferredOpened
<1>4. QED
  BY <1>1, <1>2, <1>3

\* cleanupOpenedFile for such files.
LEMMA CleanupSends ==
  ASSUME CallTypes, BackendTypes, ResultsAgree, NEW files, OpenedFiles(files),
         Cleanup(files), UNCHANGED replies
  PROVE  Sends({})
<1>1. PICK calls \in SetToSeqs({CleanupCall(f[1], f[2]) : f \in {e \in files : e[1] \notin cleaned}}) :
        main' = main \o calls
  BY DEF Cleanup
<1>2. cleaned' = cleaned \union {f[1] : f \in {e \in files : e[1] \notin cleaned}}
  BY DEF Cleanup
<1>3. /\ <<>> \in Seq(SentCalls) /\ main = main \o <<>>
      /\ \A i \in 1 .. Len(<<>>) : ~ IsCleanup(<<>>[i])
  BY NothingSent DEF CallTypes
<1>4. main' = (main \o <<>>) \o calls
  BY <1>1, <1>3
<1>5. QED
  BY <1>2, <1>3, <1>4, SendsCleanups

LEMMA OpenFails ==
  ASSUME PageInvariant, NEW r \in Requests, FailOpen(r)
  PROVE  PageInvariant'
<1>1. /\ CallTypes /\ ResultsAgree /\ PageTypes /\ BackendTypes
  BY DEF PageInvariant, TypesHold
<1>2. /\ phase[r] = "rejected" /\ phase' = [phase EXCEPT ![r] = "done"]
      /\ UNCHANGED <<rendered, latest, waits, result, backend, replies, bounds>>
  BY DEF FailOpen
<1>3. /\ phase' \in [Requests -> {"new", "waiting", "sent", "answered", "rejected", "done"}]
      /\ \A s \in Requests : \/ phase'[s] = phase[s]
                             \/ phase[s] # "waiting" /\ phase'[s] \notin {"answered", "waiting"}
  BY <1>1, <1>2 DEF CallTypes
<1>4. CASE r \in Dialogs
  <2>1. UNCHANGED <<tabs, closedPending, deferred, cleaned, main>>
    BY <1>4 DEF FailOpen
  <2>2. PageTypes'
    BY <1>1, <1>2, <2>1 DEF PageTypes
  <2>3. Sends({})
    BY <1>1, <1>2, <2>1, SendsNothing
  <2>4. \A p \in Paths : deferred'[p] # None =>
          \E s \in Requests : p \in DOMAIN result[s] /\ result[s][p] = deferred'[p].opened
    BY <1>1, <2>1, DeferredOpened
  <2>5. QED
    BY <1>2, <1>3, <2>2, <2>3, <2>4, PageStep
<1>5. CASE r \notin Dialogs
  <2>1. /\ deferred' = [p \in Paths |-> IF p \in Owned(r, PathsOf[r]) THEN None ELSE deferred[p]]
        /\ Cleanup(Unretained(r, PathsOf[r], [p \in PathsOf[r] |-> NotOpened]))
        /\ closedPending' = closedPending \ ({r} \X PathsOf[r])
        /\ tabs' = {IF t.request = r THEN [t EXCEPT !.status = "error"] ELSE t : t \in tabs}
    BY <1>5 DEF FailOpen
  <2>2. PathsOf[r] \in SUBSET Paths
    BY TabsAssumption
  <2>3. tabs' \subseteq ShownTabs
    <3>1. \A t \in tabs : (IF t.request = r THEN [t EXCEPT !.status = "error"] ELSE t) \in ShownTabs
      BY <1>1, TabsTyped DEF PageTypes
    <3>2. QED
      BY <2>1, <3>1
  <2>4. deferred' \in [Paths -> [owner : Requests, opened : Opened] \union {None}]
    BY <1>1, <2>1 DEF PageTypes
  <2>5. PageTypes'
    BY <1>1, <1>2, <2>1, <2>3, <2>4 DEF PageTypes
  <2>6. Sends({})
    BY <1>1, <1>2, <2>1, <2>2, UnretainedOpened, CleanupSends
  <2>7. \A p \in Paths : deferred'[p] # None =>
          \E s \in Requests : p \in DOMAIN result[s] /\ result[s][p] = deferred'[p].opened
    BY <1>1, <2>1, DeferredOpened
  <2>8. QED
    BY <1>2, <1>3, <2>5, <2>6, <2>7, PageStep
<1>6. QED
  BY <1>4, <1>5

\* What an answer to an open cleans up.
LEMMA ResponseFiles ==
  ASSUME PageTypes, ResultsAgree, NEW r \in Requests, NEW ps \in SUBSET Paths,
         NEW late \in SUBSET DOMAIN result[r], NEW replaced \in SUBSET Paths,
         DOMAIN result[r] \in SUBSET Paths,
         \A p \in late : result[r][p] \in Opened, \A p \in replaced : deferred[p] # None
  PROVE  OpenedFiles(Unretained(r, ps, result[r])
                     \union {<<deferred[p].opened, p>> : p \in replaced}
                     \union {<<result[r][p], p>> : p \in late})
<1>1. OpenedFiles(Unretained(r, ps, result[r]))
  BY UnretainedOpened
<1>2. OpenedFiles({<<deferred[p].opened, p>> : p \in replaced})
  <2>1. \A p \in replaced : /\ deferred[p].opened \in Opened
                            /\ \E s \in Requests : p \in DOMAIN result[s]
                                                   /\ result[s][p] = deferred[p].opened
    BY DeferredOpened DEF PageTypes
  <2>2. QED
    BY <2>1 DEF OpenedFiles
<1>3. OpenedFiles({<<result[r][p], p>> : p \in late})
  BY DEF OpenedFiles
<1>4. QED
  BY <1>1, <1>2, <1>3 DEF OpenedFiles

LEMMA ResponseApplied ==
  ASSUME PageInvariant, NEW r \in Requests, ApplyOpenResponse(r)
  PROVE  PageInvariant'
<1>1. /\ CallTypes /\ ResultsAgree /\ PageTypes /\ BackendTypes
  BY DEF PageInvariant, TypesHold
<1>2. /\ phase[r] = "answered" /\ phase' = [phase EXCEPT ![r] = "done"]
      /\ UNCHANGED <<rendered, latest, waits, result, backend, replies, bounds>>
  BY DEF ApplyOpenResponse
<1> DEFINE discarded == {p \in PathsOf[r] : <<r, p>> \in closedPending}
           opened == {p \in PathsOf[r] : result[r][p] # NotOpened}
           late == {p \in opened \intersect discarded :
                      ~ \E t \in rendered : /\ t.document = result[r][p].document
                                            /\ t.session = result[r][p].session}
           reopened == {p \in late : ReopenOwners(r, p) # {}}
           resolved == Owned(r, PathsOf[r] \ discarded)
           replaced == {p \in reopened : deferred[p] # None /\ deferred[p].opened # result[r][p]}
           shown == {t.document : t \in tabs}
<1>3. /\ \E owner \in [reopened -> Requests] :
           /\ deferred' = [p \in Paths |->
                IF p \in reopened THEN [owner |-> owner[p], opened |-> result[r][p]]
                ELSE IF p \in resolved THEN None ELSE deferred[p]]
      /\ Cleanup(Unretained(r, PathsOf[r] \ discarded, result[r])
                 \union {<<deferred[p].opened, p>> : p \in replaced}
                 \union {<<result[r][p], p>> : p \in late \ reopened})
      /\ closedPending' = closedPending \ ({r} \X PathsOf[r])
      /\ tabs' =
           {t \in tabs : ~ \E p \in PathsOf[r] \ discarded : Same(t, Pending(r, p, "loading"))}
           \union {Ready(result[r][p], p) :
                    p \in {q \in opened \ discarded : result[r][q].document \notin shown}}
           \union {Pending(r, p, "error") : p \in PathsOf[r] \ (opened \union discarded)}
  BY Zenon DEF ApplyOpenResponse
<1>4. /\ late \subseteq opened /\ reopened \subseteq late
      /\ discarded = {p \in PathsOf[r] : <<r, p>> \in closedPending}
      /\ opened = {p \in PathsOf[r] : result[r][p] # NotOpened}
      /\ replaced = {p \in reopened : deferred[p] # None /\ deferred[p].opened # result[r][p]}
  OBVIOUS
<1> HIDE DEF discarded, opened, late, reopened, resolved, replaced, shown
<1>5. PathsOf[r] \in SUBSET Paths /\ DOMAIN result[r] = PathsOf[r]
  BY <1>1, <1>2, TabsAssumption DEF CallTypes
<1>6. \A p \in opened : p \in Paths /\ p \in DOMAIN result[r] /\ result[r][p] \in Opened
  BY <1>1, <1>3, <1>4, <1>5 DEF BackendTypes
<1>7. tabs' \subseteq ShownTabs
  <2>1. \A p \in opened : Ready(result[r][p], p) \in ShownTabs
    BY <1>6, TabsTyped
  <2>2. \A p \in PathsOf[r] : Pending(r, p, "error") \in ShownTabs
    BY <1>5, TabsTyped
  <2>3. tabs \subseteq ShownTabs
    BY <1>1 DEF PageTypes
  <2>4. {t \in tabs : ~ \E p \in PathsOf[r] \ discarded : Same(t, Pending(r, p, "loading"))}
          \subseteq ShownTabs
    BY <2>3
  <2>5. {Ready(result[r][p], p) : p \in {q \in opened \ discarded :
                                           result[r][q].document \notin shown}} \subseteq ShownTabs
    BY <2>1
  <2>6. {Pending(r, p, "error") : p \in PathsOf[r] \ (opened \union discarded)} \subseteq ShownTabs
    BY <2>2
  <2>7. QED
    BY <1>3, <1>4, <2>4, <2>5, <2>6
<1>8. PICK owner \in [reopened -> Requests] :
             deferred' = [p \in Paths |->
                  IF p \in reopened THEN [owner |-> owner[p], opened |-> result[r][p]]
                  ELSE IF p \in resolved THEN None ELSE deferred[p]]
  BY <1>3, <1>4
<1>9. deferred' \in [Paths -> [owner : Requests, opened : Opened] \union {None}]
  <2>1. \A p \in reopened : [owner |-> owner[p], opened |-> result[r][p]]
                              \in [owner : Requests, opened : Opened]
    BY <1>3, <1>4, <1>6, <1>8
  <2>2. deferred \in [Paths -> [owner : Requests, opened : Opened] \union {None}]
    BY <1>1 DEF PageTypes
  <2>3. QED
    BY <1>8, <2>1, <2>2
<1>10. PageTypes'
  BY <1>1, <1>2, <1>3, <1>4, <1>7, <1>9 DEF PageTypes
<1>11. \A p \in Paths : deferred'[p] # None =>
         \E s \in Requests : p \in DOMAIN result[s] /\ result[s][p] = deferred'[p].opened
  <2> SUFFICES ASSUME NEW p \in Paths, deferred'[p] # None
               PROVE  \E s \in Requests : p \in DOMAIN result[s] /\ result[s][p] = deferred'[p].opened
    OBVIOUS
  <2>1. CASE p \in reopened
    <3>1. deferred'[p].opened = result[r][p]
      BY <2>1, <1>8
    <3>2. QED
      BY <2>1, <3>1, <1>3, <1>4, <1>6
  <2>2. CASE p \notin reopened
    <3>1. deferred'[p] = deferred[p]
      BY <2>2, <1>8
    <3>2. QED
      BY <3>1, <1>1, DeferredOpened
  <2>3. QED
    BY <2>1, <2>2
<1>12. OpenedFiles(Unretained(r, PathsOf[r] \ discarded, result[r])
                   \union {<<deferred[p].opened, p>> : p \in replaced}
                   \union {<<result[r][p], p>> : p \in late \ reopened})
  <2>1. /\ \A p \in replaced : p \in Paths /\ deferred[p] # None
        /\ \A p \in late : p \in Paths /\ p \in DOMAIN result[r] /\ result[r][p] \in Opened
    BY <1>3, <1>4, <1>6
  <2>2. /\ replaced \in SUBSET Paths /\ late \ reopened \in SUBSET DOMAIN result[r]
        /\ DOMAIN result[r] \in SUBSET Paths /\ PathsOf[r] \ discarded \in SUBSET Paths
    BY <1>5, <2>1
  <2>3. QED
    BY <1>1, <2>1, <2>2, ResponseFiles
<1>13. Sends({})
  BY <1>1, <1>2, <1>3, <1>4, <1>12, CleanupSends
<1>14. /\ phase' \in [Requests -> {"new", "waiting", "sent", "answered", "rejected", "done"}]
       /\ \A s \in Requests : \/ phase'[s] = phase[s]
                              \/ phase[s] # "waiting" /\ phase'[s] \notin {"answered", "waiting"}
  BY <1>1, <1>2 DEF CallTypes
<1>15. QED
  BY <1>2, <1>10, <1>11, <1>13, <1>14, PageStep

-----------------------------------------------------------------------------
(* Closing *)

LEMMA PendingClosed ==
  ASSUME PageInvariant, NEW t \in rendered, ClosePending(t)
  PROVE  PageInvariant'
<1>1. /\ CallTypes /\ ResultsAgree /\ PageTypes /\ BackendTypes
  BY DEF PageInvariant, TypesHold
<1> DEFINE r == t.request
           group == {u \in rendered : u.status = "loading" /\ u.request = r}
           ps == {u.path : u \in group}
           files == Unretained(r, ps, [p \in ps |-> NotOpened])
<1>2. /\ t.status = "loading"
      /\ closedPending' = closedPending \union ({r} \X ps)
      /\ tabs' = {u \in tabs : \A v \in group : ~ Same(u, v)} /\ rendered' = tabs'
      /\ deferred' = [p \in Paths |-> IF p \in Owned(r, ps) THEN None ELSE deferred[p]]
      /\ cleaned' = cleaned \union {f[1] : f \in {e \in files : e[1] \notin cleaned}}
      /\ \E calls \in SetToSeqs({CleanupCall(f[1], f[2]) :
                                   f \in {e \in files : e[1] \notin cleaned}}) :
           main' = Append(main, CancelCall(r, ps)) \o calls
      /\ UNCHANGED <<latest, phase, waits, result, backend, replies, bounds>>
  BY Zenon DEF ClosePending
<1>3. r \in Requests /\ \A u \in group : u.path \in Paths
  BY <1>1, <1>2 DEF PageTypes, ShownTabs, Tabs
<1>4. ps \in SUBSET Paths
  BY <1>3
<1> HIDE DEF r, group, ps, files
<1>5. OpenedFiles(files)
  BY <1>1, <1>4, UnretainedOpened DEF files
<1>6. CancelCall(r, ps) \in SentCalls /\ ~ IsCleanup(CancelCall(r, ps))
  BY <1>3, <1>4, CallTyped DEF CancelCall, Call, IsCleanup
<1>7. Sends({})
  <2>1. PICK calls \in SetToSeqs({CleanupCall(f[1], f[2]) :
                                   f \in {e \in files : e[1] \notin cleaned}}) :
           main' = Append(main, CancelCall(r, ps)) \o calls
    BY <1>2
  <2>2. PICK first : first = <<CancelCall(r, ps)>>
    OBVIOUS
  <2>3. /\ first \in Seq(SentCalls) /\ Append(main, CancelCall(r, ps)) = main \o first
        /\ \A i \in 1 .. Len(first) : ~ IsCleanup(first[i])
    BY <2>2, <1>1, <1>6, Single DEF CallTypes
  <2>4. main' = (main \o first) \o calls
    BY <2>1, <2>3
  <2>5. QED
    BY <1>1, <1>2, <1>5, <2>3, <2>4, SendsCleanups
<1>8. PageTypes'
  <2>1. tabs' \subseteq ShownTabs /\ rendered' \subseteq ShownTabs
    BY <1>1, <1>2 DEF PageTypes
  <2>2. closedPending' \subseteq Requests \X Paths
    BY <1>1, <1>2, <1>3, <1>4 DEF PageTypes
  <2>3. deferred' \in [Paths -> [owner : Requests, opened : Opened] \union {None}]
    BY <1>1, <1>2 DEF PageTypes
  <2>4. QED
    BY <1>1, <1>2, <2>1, <2>2, <2>3 DEF PageTypes
<1>9. \A p \in Paths : deferred'[p] # None =>
        \E s \in Requests : p \in DOMAIN result[s] /\ result[s][p] = deferred'[p].opened
  BY <1>1, <1>2, DeferredOpened
<1>10. phase' \in [Requests -> {"new", "waiting", "sent", "answered", "rejected", "done"}]
  BY <1>1, <1>2 DEF CallTypes
<1>11. QED
  BY <1>2, <1>7, <1>8, <1>9, <1>10, PageStep

LEMMA LatestTyped ==
  ASSUME PageTypes, NEW d, Invalidated(d)
  PROVE  latest' \in [Documents -> [status : Nat, page : Nat]]
BY DEF PageTypes, Invalidated

\* A task of the page that leaves the requests and what is kept for reopens alone.
LEMMA TabStep ==
  ASSUME PageInvariant, NEW as, Sends(as), \A a \in as : a.call.paths = {},
         tabs' \subseteq ShownTabs, rendered' \subseteq ShownTabs,
         latest' \in [Documents -> [status : Nat, page : Nat]],
         UNCHANGED <<closedPending, deferred, phase, waits, result, backend>>
  PROVE  PageInvariant'
<1>1. /\ CallTypes /\ ResultsAgree /\ PageTypes
  BY DEF PageInvariant, TypesHold
<1>2. PageTypes'
  BY <1>1 DEF PageTypes
<1>3. \A p \in Paths : deferred'[p] # None =>
        \E s \in Requests : p \in DOMAIN result[s] /\ result[s][p] = deferred'[p].opened
  BY <1>1, DeferredOpened
<1>4. phase' \in [Requests -> {"new", "waiting", "sent", "answered", "rejected", "done"}]
  BY <1>1 DEF CallTypes
<1>5. QED
  BY <1>2, <1>3, <1>4, PageStep

LEMMA TabClosed ==
  ASSUME PageInvariant, NEW t \in rendered, CloseTab(t)
  PROVE  PageInvariant'
<1>1. CallTypes /\ PageTypes
  BY DEF PageInvariant, TypesHold
<1>2. /\ tabs' = {u \in tabs : ~ Same(u, t)} /\ rendered' = tabs' /\ Invalidated(t.document)
      /\ main' = IF t.status = "ready" THEN Append(main, CloseCall(t)) ELSE main
      /\ UNCHANGED <<closedPending, deferred, cleaned, phase, waits, result, backend, replies>>
  BY DEF CloseTab
<1>3. tabs' \subseteq ShownTabs
  BY <1>1, <1>2 DEF PageTypes
<1>4. latest' \in [Documents -> [status : Nat, page : Nat]]
  BY <1>1, <1>2, LatestTyped
<1>5. Sends({})
  <2>1. CASE t.status = "ready"
    <3>1. CloseCall(t) \in SentCalls /\ ~ IsCleanup(CloseCall(t))
      BY <1>1, <2>1, CallTyped DEF PageTypes, CloseCall, Call, IsCleanup
    <3>2. QED
      BY <1>1, <1>2, <2>1, <3>1, SendsOne
  <2>2. CASE t.status # "ready"
    BY <1>1, <1>2, <2>2, SendsNothing
  <2>3. QED
    BY <2>1, <2>2
<1>6. QED
  BY <1>2, <1>3, <1>4, <1>5, TabStep

LEMMA Settled ==
  ASSUME PageInvariant, NEW a \in replies, Settle(a)
  PROVE  PageInvariant'
<1>1. /\ CallTypes /\ OpensGoOn /\ ResultsAgree /\ CleanupsOnce /\ BackendTypes /\ PageTypes
  BY DEF PageInvariant, TypesHold
<1>2. PICK freed : freed = Freed(waits')
  OBVIOUS
<1>3. /\ replies' = replies \ {a} /\ cleaned' = Uncleaned(a)
      /\ waits' = [r \in Requests |-> waits[r] \ {a.call}]
      /\ phase' = [r \in Requests |-> IF r \in freed THEN "sent" ELSE phase[r]]
      /\ \E calls \in SetToSeqs({OpenCall(r) : r \in freed}) : main' = main \o calls
      /\ UNCHANGED <<tabs, rendered, closedPending, deferred, latest, result, backend, bounds>>
  BY <1>2 DEF Settle
<1>4. freed = {r \in Requests : phase[r] = "waiting" /\ waits'[r] = {}}
  BY <1>2 DEF Freed
<1>5. Sends({a})
  <2>1. PICK calls \in SetToSeqs({OpenCall(r) : r \in freed}) : main' = main \o calls
    BY <1>3
  <2>2. /\ calls \in Seq(SentCalls)
        /\ \A i \in 1 .. Len(calls) : calls[i].kind = "open"
    BY <1>4, <2>1, OpensListed
  <2>3. \A i \in 1 .. Len(calls) : ~ IsCleanup(calls[i])
    BY <2>2 DEF IsCleanup
  <2>4. cleaned' = cleaned \ Gone({a})
    BY <1>3 DEF Uncleaned, Gone, IsCleanup
  <2>5. QED
    BY <1>1, <1>3, <2>1, <2>2, <2>3, <2>4, SendsOthers
<1>6. PageTypes' /\ BackendTypes'
  BY <1>1, <1>3 DEF PageTypes, BackendTypes, backend
<1>7. /\ phase' \in [Requests -> {"new", "waiting", "sent", "answered", "rejected", "done"}]
      /\ \A r \in Requests : phase'[r] = "answered" => phase[r] = "answered"
      /\ \A r \in Requests : phase'[r] = "waiting" => phase[r] = "waiting" /\ r \notin freed
  BY <1>1, <1>3 DEF CallTypes
<1>8. waits' \in [Requests -> SUBSET SentCalls]
  BY <1>1, <1>3 DEF CallTypes
<1>9. \A r \in Requests : phase'[r] # "waiting" => waits'[r] = {}
  <2> SUFFICES ASSUME NEW r \in Requests, phase'[r] # "waiting" PROVE waits'[r] = {}
    OBVIOUS
  <2>1. CASE r \in freed
    BY <2>1, <1>4
  <2>2. CASE r \notin freed
    <3>1. phase[r] # "waiting"
      BY <2>2, <1>3
    <3>2. QED
      BY <3>1, <1>1, <1>3 DEF CallTypes
  <2>3. QED
    BY <2>1, <2>2
<1>10. CallTypes'
  BY <1>1, <1>3, <1>5, <1>7, <1>8, <1>9, SendsTypes
<1>11. OpensGoOn'
  <2> SUFFICES ASSUME NEW r \in Requests, phase'[r] = "waiting"
               PROVE  waits'[r] # {} /\ \A c \in waits'[r] :
                        c \in Outstanding' /\ c.paths \intersect PathsOf[r] # {}
    BY DEF OpensGoOn, Barriers
  <2>1. phase[r] = "waiting" /\ waits'[r] # {}
    BY <1>4, <1>7
  <2>2. \A c \in waits'[r] : c \in waits[r] /\ c # a.call
    BY <1>3
  <2>3. \A c \in waits[r] : c \in Outstanding /\ c.paths \intersect PathsOf[r] # {}
    BY <1>1, <2>1 DEF OpensGoOn, Barriers
  <2>4. Outstanding \ {b.call : b \in {a}} \subseteq Outstanding'
    BY <1>1, <1>5, SendsOutstanding
  <2>5. QED
    BY <2>1, <2>2, <2>3, <2>4
<1>12. ResultsAgree'
  BY <1>1, <1>3 DEF ResultsAgree, backend
<1>13. CleanupsOnce'
  BY <1>1, <1>5, OnceSent
<1>14. QED
  BY <1>6, <1>10, <1>11, <1>12, <1>13 DEF PageInvariant, TypesHold

-----------------------------------------------------------------------------
(* Pages and header mode *)

LEMMA PageAsked ==
  ASSUME PageInvariant, NEW t \in rendered, LoadPage(t)
  PROVE  PageInvariant'
<1>1. CallTypes /\ PageTypes
  BY DEF PageInvariant, TypesHold
<1>2. PICK n : n = latest[t.document].page + 1
  OBVIOUS
<1>3. /\ t.status = "ready"
      /\ latest' = [latest EXCEPT ![t.document].page = n]
      /\ main' = Append(main, Call("read", None, t, {}, n))
      /\ tabs' = {IF u.document = t.document THEN [u EXCEPT !.failed = FALSE] ELSE u : u \in tabs}
      /\ rendered' = tabs'
      /\ UNCHANGED <<closedPending, deferred, cleaned, phase, waits, result, backend, replies>>
  BY <1>1, <1>2 DEF LoadPage, Update, PageTypes, ShownTabs
<1>4. t \in ShownTabs /\ t.document \in Documents
  BY <1>1, <1>3 DEF PageTypes, ShownTabs
<1>5. n \in Nat
  BY <1>1, <1>2, <1>4 DEF PageTypes
<1>6. latest' \in [Documents -> [status : Nat, page : Nat]]
  BY <1>1, <1>3, <1>4, <1>5 DEF PageTypes
<1>7. tabs' \subseteq ShownTabs
  BY <1>1, <1>3, TabsTyped DEF PageTypes
<1>8. Call("read", None, t, {}, n) \in SentCalls /\ ~ IsCleanup(Call("read", None, t, {}, n))
  BY <1>3, <1>4, <1>5, CallTyped DEF Call, IsCleanup
<1>9. Sends({})
  BY <1>1, <1>3, <1>8, SendsOne
<1>10. QED
  BY <1>3, <1>6, <1>7, <1>9, TabStep

LEMMA ConfigureAsked ==
  ASSUME PageInvariant, NEW t \in rendered, ConfigureCsv(t)
  PROVE  PageInvariant'
<1>1. CallTypes /\ PageTypes
  BY DEF PageInvariant, TypesHold
<1>2. PICK n : n = latest[t.document].status + 1
  OBVIOUS
<1>3. /\ t.status = "ready" /\ Invalidated(t.document)
      /\ main' = Append(main, Call("configure", None, t, {}, n))
      /\ tabs' = {IF u.document = t.document
                  THEN [u EXCEPT !.configuring = TRUE, !.failed = FALSE] ELSE u : u \in tabs}
      /\ rendered' = tabs'
      /\ UNCHANGED <<closedPending, deferred, cleaned, phase, waits, result, backend, replies>>
  BY <1>1, <1>2 DEF ConfigureCsv, Update, PageTypes, ShownTabs
<1>4. t \in ShownTabs /\ t.document \in Documents
  BY <1>1, <1>3 DEF PageTypes, ShownTabs
<1>5. n \in Nat
  BY <1>1, <1>2, <1>4 DEF PageTypes
<1>6. latest' \in [Documents -> [status : Nat, page : Nat]]
  BY <1>1, <1>3, LatestTyped
<1>7. tabs' \subseteq ShownTabs
  BY <1>1, <1>3, TabsTyped DEF PageTypes
<1>8. Call("configure", None, t, {}, n) \in SentCalls
      /\ ~ IsCleanup(Call("configure", None, t, {}, n))
  BY <1>3, <1>4, <1>5, CallTyped DEF Call, IsCleanup
<1>9. Sends({})
  BY <1>1, <1>3, <1>8, SendsOne
<1>10. QED
  BY <1>3, <1>6, <1>7, <1>9, TabStep

\* An answer of the other kinds is waited for by no open.
LEMMA ArrivalTyped ==
  ASSUME CallTypes, NEW a \in replies, a.call.kind \notin SettledKinds
  PROVE  /\ a.call.paths = {} /\ ~ IsCleanup(a.call) /\ a.call.number \in Nat
         /\ a.value \in 0 .. MaxSession /\ (a.value # 0 => a.value \in Sessions)
         /\ a.call.kind # "open" => a.call.document \in Documents
<1>1. a.call \in SentCalls /\ a.value \in 0 .. MaxSession /\ MaxSession \in Nat
  BY TabsAssumption DEF CallTypes
<1>2. a.call.paths = {} /\ ~ IsCleanup(a.call) /\ a.call.number \in Nat
  BY <1>1 DEF SentCalls, Calls, SettledKinds, IsCleanup
<1>3. a.value # 0 => a.value \in Sessions
  BY <1>1 DEF Sessions
<1>4. a.call.kind # "open" => a.call.document \in Documents
  BY <1>1 DEF SentCalls, SettledKinds, Identity, Opened
<1>5. QED
  BY <1>1, <1>2, <1>3, <1>4

\* An answer of the other kinds may change the tabs and send one call.
LEMMA ArrivalStep ==
  ASSUME PageInvariant, NEW a \in replies, NEW kinds, Arrives(a, kinds),
         kinds \intersect SettledKinds = {}, tabs' \subseteq ShownTabs,
         \/ UNCHANGED main
         \/ \E c \in SentCalls : ~ IsCleanup(c) /\ main' = Append(main, c)
  PROVE  PageInvariant'
<1>1. CallTypes /\ PageTypes
  BY DEF PageInvariant, TypesHold
<1>2. /\ a.call.kind \in kinds /\ replies' = replies \ {a}
      /\ UNCHANGED <<rendered, closedPending, deferred, cleaned, latest, phase, waits, result,
                     backend, bounds>>
  BY DEF Arrives
<1>3. a.call.paths = {} /\ ~ IsCleanup(a.call)
  BY <1>1, <1>2, ArrivalTyped
<1>4. Sends({a})
  <2>1. CASE UNCHANGED main
    BY <1>1, <1>2, <1>3, <2>1, SettlesNothing
  <2>2. ASSUME NEW c \in SentCalls, ~ IsCleanup(c), main' = Append(main, c)
        PROVE  Sends({a})
    <3>1. <<c>> \in Seq(SentCalls) /\ main' = main \o <<c>>
          /\ \A i \in 1 .. Len(<<c>>) : ~ IsCleanup(<<c>>[i])
      BY <1>1, <2>2, Single DEF CallTypes
    <3>2. Gone({a}) = {}
      BY <1>3 DEF Gone
    <3>3. QED
      BY <1>1, <1>2, <3>1, <3>2, SendsOthers
  <2>3. QED
    BY <2>1, <2>2
<1>5. rendered' \subseteq ShownTabs /\ latest' \in [Documents -> [status : Nat, page : Nat]]
  BY <1>1, <1>2 DEF PageTypes
<1>6. QED
  BY <1>2, <1>3, <1>4, <1>5, TabStep

LEMMA PageArrived ==
  ASSUME PageInvariant, NEW a \in replies, PageArrives(a)
  PROVE  PageInvariant'
<1>1. CallTypes /\ PageTypes
  BY DEF PageInvariant, TypesHold
<1>2. Arrives(a, {"read"}) /\ UNCHANGED main /\ a.call.kind = "read"
  BY DEF PageArrives, Arrives
<1>3. a.value # 0 => a.value \in Sessions
  BY <1>1, <1>2, ArrivalTyped DEF SettledKinds
<1>4. \A t \in ShownTabs :
        (IF a.value = 0 THEN Failure(t) ELSE [t EXCEPT !.page = a.value]) \in ShownTabs
  BY <1>3, TabsTyped
<1>5. \/ UNCHANGED tabs
      \/ tabs' = {IF t.document = a.call.document
                  THEN (IF a.value = 0 THEN Failure(t) ELSE [t EXCEPT !.page = a.value])
                  ELSE t : t \in tabs}
  BY <1>1 DEF PageArrives, Update, PageTypes, ShownTabs
<1>6. tabs' \subseteq ShownTabs
  <2>1. tabs \subseteq ShownTabs
    BY <1>1 DEF PageTypes
  <2>2. CASE tabs' = {IF t.document = a.call.document
                     THEN (IF a.value = 0 THEN Failure(t) ELSE [t EXCEPT !.page = a.value])
                     ELSE t : t \in tabs}
    <3>1. \A t \in tabs : (IF t.document = a.call.document
                     THEN (IF a.value = 0 THEN Failure(t) ELSE [t EXCEPT !.page = a.value])
                     ELSE t)
                           \in ShownTabs
      BY <1>4, <2>1
    <3>2. QED
      BY <2>2, <3>1
  <2>3. QED
    BY <1>5, <2>1, <2>2
<1>7. QED
  BY <1>2, <1>6, ArrivalStep DEF SettledKinds

LEMMA ConfigureArrived ==
  ASSUME PageInvariant, NEW a \in replies, ConfigureArrives(a)
  PROVE  PageInvariant'
<1>1. CallTypes /\ PageTypes
  BY DEF PageInvariant, TypesHold
<1>2. Arrives(a, {"configure"}) /\ a.call.kind = "configure"
  BY DEF ConfigureArrives, Arrives
<1>3. /\ a.value # 0 => a.value \in Sessions
      /\ a.call.document \in Documents /\ a.call.number \in Nat
  BY <1>1, <1>2, ArrivalTyped DEF SettledKinds
<1>4. PICK new : new = [document |-> a.call.document, session |-> a.value]
  OBVIOUS
<1>5. \/ UNCHANGED <<tabs, main>>
      \/ /\ tabs' = {IF t.document = a.call.document THEN Failure(Configured(t)) ELSE t : t \in tabs}
         /\ UNCHANGED main
      \/ /\ a.value # 0
         /\ tabs' = {IF t.document = a.call.document
                     THEN [t EXCEPT !.session = a.value] ELSE t : t \in tabs}
         /\ main' = Append(main, Call("first_page", None, new, {}, a.call.number))
  BY <1>1, <1>4 DEF ConfigureArrives, Update, PageTypes, ShownTabs
<1>6. CASE UNCHANGED <<tabs, main>>
  BY <1>1, <1>2, <1>6, ArrivalStep DEF SettledKinds, PageTypes
<1>7. CASE /\ tabs' = {IF t.document = a.call.document
                       THEN Failure(Configured(t)) ELSE t : t \in tabs}
           /\ UNCHANGED main
  <2>1. tabs' \subseteq ShownTabs
    BY <1>1, <1>7, TabsTyped DEF PageTypes
  <2>2. QED
    BY <1>2, <1>7, <2>1, ArrivalStep DEF SettledKinds
<1>8. CASE /\ a.value # 0
           /\ tabs' = {IF t.document = a.call.document
                       THEN [t EXCEPT !.session = a.value] ELSE t : t \in tabs}
           /\ main' = Append(main, Call("first_page", None, new, {}, a.call.number))
  <2>1. tabs' \subseteq ShownTabs
    <3>1. tabs \subseteq ShownTabs
      BY <1>1 DEF PageTypes
    <3>2. \A t \in ShownTabs : [t EXCEPT !.session = a.value] \in ShownTabs
      BY <1>3, <1>8, TabsTyped
    <3>3. \A t \in tabs : (IF t.document = a.call.document
                          THEN [t EXCEPT !.session = a.value] ELSE t) \in ShownTabs
      BY <3>1, <3>2
    <3>4. QED
      BY <1>8, <3>3
  <2>2. new \in Opened
    BY <1>3, <1>4, <1>8 DEF Opened
  <2>3. /\ Call("first_page", None, new, {}, a.call.number) \in SentCalls
        /\ ~ IsCleanup(Call("first_page", None, new, {}, a.call.number))
    BY <1>3, <2>2, CallTyped DEF Call, IsCleanup
  <2>4. QED
    BY <1>2, <1>8, <2>1, <2>3, ArrivalStep DEF SettledKinds
<1>9. QED
  BY <1>5, <1>6, <1>7, <1>8

LEMMA FirstPageArrived ==
  ASSUME PageInvariant, NEW a \in replies, FirstPageArrives(a)
  PROVE  PageInvariant'
<1>1. CallTypes /\ PageTypes
  BY DEF PageInvariant, TypesHold
<1>2. Arrives(a, {"first_page"}) /\ UNCHANGED main /\ a.call.kind = "first_page"
  BY DEF FirstPageArrives, Arrives
<1>3. a.value # 0 => a.value \in Sessions
  BY <1>1, <1>2, ArrivalTyped DEF SettledKinds
<1>4. \A t \in ShownTabs :
        Configured(IF a.value = 0 THEN Failure(t)
                   ELSE [t EXCEPT !.session = a.value, !.page = a.value]) \in ShownTabs
  <2>1. \A t \in ShownTabs :
          (IF a.value = 0 THEN Failure(t)
           ELSE [t EXCEPT !.session = a.value, !.page = a.value]) \in ShownTabs
    BY <1>3, TabsTyped
  <2>2. QED
    BY <2>1, TabsTyped
<1>5. \/ UNCHANGED tabs
      \/ tabs' = {IF t.document = a.call.document
                  THEN Configured(IF a.value = 0 THEN Failure(t)
                                  ELSE [t EXCEPT !.session = a.value, !.page = a.value])
                  ELSE t : t \in tabs}
  BY <1>1 DEF FirstPageArrives, Update, PageTypes, ShownTabs
<1>6. tabs' \subseteq ShownTabs
  <2>1. tabs \subseteq ShownTabs
    BY <1>1 DEF PageTypes
  <2>2. CASE tabs' = {IF t.document = a.call.document
                     THEN Configured(IF a.value = 0 THEN Failure(t)
                                     ELSE [t EXCEPT !.session = a.value, !.page = a.value])
                     ELSE t : t \in tabs}
    <3>1. \A t \in tabs : (IF t.document = a.call.document
                     THEN Configured(IF a.value = 0 THEN Failure(t)
                                     ELSE [t EXCEPT !.session = a.value, !.page = a.value])
                     ELSE t)
                           \in ShownTabs
      BY <1>4, <2>1
    <3>2. QED
      BY <2>2, <3>1
  <2>3. QED
    BY <1>5, <2>1, <2>2
<1>7. QED
  BY <1>2, <1>6, ArrivalStep DEF SettledKinds

LEMMA Rendered ==
  ASSUME PageInvariant, Render
  PROVE  PageInvariant'
<1>1. CallTypes /\ PageTypes
  BY DEF PageInvariant, TypesHold
<1>2. rendered' = tabs
      /\ UNCHANGED <<tabs, closedPending, deferred, cleaned, latest, phase, waits, result, backend,
                     main, replies, bounds>>
  BY DEF Render
<1>3. Sends({})
  BY <1>1, <1>2, SendsNothing
<1>4. /\ tabs' \subseteq ShownTabs /\ rendered' \subseteq ShownTabs
      /\ latest' \in [Documents -> [status : Nat, page : Nat]]
  BY <1>1, <1>2 DEF PageTypes
<1>5. QED
  BY <1>2, <1>3, <1>4, TabStep

-----------------------------------------------------------------------------
(* The invariant *)

LEMMA TurnKeeps == PageInvariant /\ Next => PageInvariant'
<1> SUFFICES ASSUME PageInvariant, Next PROVE PageInvariant'
  OBVIOUS
<1>1. ASSUME NEW r \in Requests, OpenPaths(r) \/ OpenFile(r)
      PROVE  PageInvariant'
  BY <1>1, OpensPaths, OpensFile
<1>2. ASSUME NEW t \in rendered, ClosePending(t) \/ CloseTab(t) \/ LoadPage(t) \/ ConfigureCsv(t)
      PROVE  PageInvariant'
  BY <1>2, PendingClosed, TabClosed, PageAsked, ConfigureAsked
<1>3. ASSUME NEW r \in Requests, ServeItem(r) \/ ServeRejection(r)
      PROVE  PageInvariant'
  BY <1>3, ItemServed, RejectionServed
<1>4. ASSUME Execute
      PROVE  PageInvariant'
  BY <1>4, CommandExecuted
<1>5. ASSUME NEW r \in Requests, ApplyOpenResponse(r) \/ FailOpen(r)
      PROVE  PageInvariant'
  BY <1>5, ResponseApplied, OpenFails
<1>6. ASSUME NEW a \in replies,
             Settle(a) \/ PageArrives(a) \/ ConfigureArrives(a) \/ FirstPageArrives(a)
      PROVE  PageInvariant'
  BY <1>6, Settled, PageArrived, ConfigureArrived, FirstPageArrived
<1>7. ASSUME Render
      PROVE  PageInvariant'
  BY <1>7, Rendered
<1>8. QED
  BY <1>1, <1>2, <1>3, <1>4, <1>5, <1>6, <1>7 DEF Next, User, Serve, Answer

LEMMA StutterKeeps == PageInvariant /\ UNCHANGED vars => PageInvariant'
<1> SUFFICES ASSUME PageInvariant, UNCHANGED vars PROVE PageInvariant'
  OBVIOUS
<1>1. UNCHANGED <<tabs, rendered, closedPending, deferred, cleaned, latest, phase, waits, result,
                  open, closed, previous, sessions, cancelled, main, replies>>
  BY DEF vars, page, backend
<1>2. Outstanding' = Outstanding
  BY <1>1 DEF Outstanding
<1>3. TypesHold'
  BY <1>1 DEF PageInvariant, TypesHold, PageTypes, BackendTypes, CallTypes
<1>4. OpensGoOn' /\ ResultsAgree' /\ CleanupsOnce'
  BY <1>1, <1>2 DEF PageInvariant, OpensGoOn, Barriers, ResultsAgree, CleanupsOnce
<1>5. QED
  BY <1>3, <1>4 DEF PageInvariant

LEMMA PageInitially == Init => PageInvariant
<1> SUFFICES ASSUME Init PROVE PageInvariant
  OBVIOUS
<1>1. MaxSession \in Nat /\ None \notin Requests
  BY TabsAssumption
<1>2. /\ tabs = {} /\ rendered = {} /\ closedPending = {}
      /\ deferred = [p \in Paths |-> None]
      /\ cleaned = {}
      /\ latest = [d \in Documents |-> [status |-> 0, page |-> 0]]
      /\ phase = [r \in Requests |-> "new"]
      /\ waits = [r \in Requests |-> {}]
      /\ result = [r \in Requests |-> [p \in {} |-> NotOpened]]
      /\ open = [d \in {} |-> {}] /\ closed = {}
      /\ previous = [d \in Documents |-> 0] /\ sessions = 0
      /\ cancelled = {} /\ main = <<>> /\ replies = {}
  BY DEF Init, Registry!Init
<1>3. PageTypes
  BY <1>2 DEF PageTypes
<1>4. BackendTypes
  <2>1. \A r \in Requests : DOMAIN result[r] = {}
    BY <1>2
  <2>2. \A r \in Requests : /\ DOMAIN result[r] \subseteq PathsOf[r]
                            /\ result[r] \in [DOMAIN result[r] -> Opened \union {NotOpened}]
    BY <1>2, <2>1
  <2>3. DOMAIN open = {} /\ open \in [DOMAIN open -> [file : Paths, session : Sessions]]
    BY <1>2
  <2>4. QED
    BY <1>1, <1>2, <2>2, <2>3 DEF BackendTypes
<1>5. CallTypes
  BY <1>2, EmptySeq DEF CallTypes
<1>6. Outstanding = {}
  BY <1>2 DEF Outstanding, Range
<1>7. ResultsAgree
  <2>1. \A r \in Requests : DOMAIN result[r] = {}
    BY <1>2
  <2>2. \A p \in Paths : deferred[p] = None
    BY <1>2
  <2>3. QED
    BY <2>1, <2>2 DEF ResultsAgree
<1>8. OpensGoOn
  BY <1>2 DEF OpensGoOn
<1>9. CleanupsOnce
  <2>1. 1 .. Len(main) = {}
    BY <1>2
  <2>2. QED
    BY <1>2, <1>6, <2>1 DEF CleanupsOnce
<1>10. QED
  BY <1>3, <1>4, <1>5, <1>7, <1>8, <1>9 DEF PageInvariant, TypesHold

LEMMA PageInvariantAlways == Spec => []PageInvariant
<1>1. PageInvariant /\ [Next]_vars => PageInvariant'
  BY TurnKeeps, StutterKeeps
<1>2. QED
  BY <1>1, PageInitially, PTL DEF Spec

-----------------------------------------------------------------------------
(* Sessions: the calls for pages *)

IsPage(c) == c.kind \in PageKinds

LEMMA PagesTyped ==
  ASSUME PageInvariant
  PROVE  /\ main \in Seq(SentCalls) /\ Len(main) \in Nat
         /\ \A c \in Outstanding : c \in SentCalls
         /\ \A c \in Outstanding : IsPage(c) =>
              c.document \in Documents /\ c.session \in Sessions /\ c.number \in Nat
         /\ \A i \in 1 .. Len(main) : main[i] \in Outstanding
         /\ \A a \in replies : a.call \in Outstanding /\ a.value \in 0 .. MaxSession
<1>1. main \in Seq(SentCalls) /\ replies \subseteq [call : SentCalls, value : 0 .. MaxSession]
  BY DEF PageInvariant, TypesHold, CallTypes
<1>2. Len(main) \in Nat /\ \A i \in 1 .. Len(main) : main[i] \in SentCalls
  BY <1>1, LenProperties, ElementOfSeq
<1>3. /\ \A i \in 1 .. Len(main) : main[i] \in Outstanding
      /\ \A a \in replies : a.call \in Outstanding
  <2>1. \A i \in 1 .. Len(main) : main[i] \in Range(main)
    BY <1>1, LenProperties DEF Range
  <2>2. QED
    BY <2>1 DEF Outstanding
<1>4. \A c \in Outstanding : c \in SentCalls
  <2>1. \A c \in Range(main) : c \in SentCalls
    BY <1>1, <1>2, LenProperties DEF Range
  <2>2. QED
    BY <1>1, <2>1 DEF Outstanding
<1>5. \A c \in SentCalls : IsPage(c) =>
        c.document \in Documents /\ c.session \in Sessions /\ c.number \in Nat
  <2> SUFFICES ASSUME NEW c \in SentCalls, IsPage(c)
               PROVE  c.document \in Documents /\ c.session \in Sessions /\ c.number \in Nat
    OBVIOUS
  <2>1. Identity(c) \in Opened /\ c.number \in Nat
    BY DEF SentCalls, Calls, IsPage, PageKinds
  <2>2. QED
    BY <2>1 DEF Identity, Opened
<1>6. QED
  BY <1>1, <1>2, <1>3, <1>4, <1>5

LEMMA ShownFacts ==
  \A t \in ShownTabs : /\ t.session \in Nat /\ (t.status = "ready" <=> t.document \in Documents)
                       /\ (t.status = "ready" => t.request = None)
                       /\ (t.status # "ready" => t.request \in Requests)
BY TabsAssumption DEF ShownTabs, Tabs, Documents

LEMMA ShownTyped ==
  ASSUME PageTypes
  PROVE  /\ \A t \in tabs \union rendered : t.session \in Nat
         /\ \A t \in tabs \union rendered : t.status = "ready" <=> t.document \in Documents
         /\ \A t \in tabs \union rendered : t.status = "ready" => t.request = None
         /\ \A t \in tabs \union rendered : t.status # "ready" => t.request \in Requests
BY ShownFacts DEF PageTypes

\* The page calls on the main thread are those it had k places further on, and
\* perhaps a new one at the end.
Queued(k, new) ==
  \A i \in 1 .. Len(main') : IsPage(main'[i]) =>
    \/ i + k \in 1 .. Len(main) /\ main'[i] = main[i + k]
    \/ i + k = Len(main) + 1 /\ main'[i] \in new

LEMMA TurnsArePages ==
  \A c, e : SameTurn(c, e) => IsPage(c) /\ IsPage(e) /\ SameTurn(e, c)
BY DEF SameTurn, IsPage, PageKinds

LEMMA TurnsKept ==
  ASSUME TurnsOnce, Len(main) \in Nat, Len(main') \in Nat, NEW k \in Nat, NEW new,
         Queued(k, new), replies' \subseteq replies,
         \A c \in new : \A i \in 1 .. Len(main) : ~ SameTurn(c, main[i]),
         \A c \in new : \A a \in replies' : ~ SameTurn(c, a.call)
  PROVE  TurnsOnce'
<1>1. \A i, j \in 1 .. Len(main') : SameTurn(main'[i], main'[j]) => i = j
  <2> SUFFICES ASSUME NEW i \in 1 .. Len(main'), NEW j \in 1 .. Len(main'),
                      SameTurn(main'[i], main'[j])
               PROVE  i = j
    OBVIOUS
  <2>1. IsPage(main'[i]) /\ IsPage(main'[j]) /\ SameTurn(main'[j], main'[i])
    BY TurnsArePages
  <2>2. i + k = j + k
    BY <2>1 DEF Queued, TurnsOnce
  <2>3. QED
    BY <2>2
<1>2. \A a \in replies', i \in 1 .. Len(main') : ~ SameTurn(main'[i], a.call)
  <2> SUFFICES ASSUME NEW a \in replies', NEW i \in 1 .. Len(main'), SameTurn(main'[i], a.call)
               PROVE  FALSE
    OBVIOUS
  <2>1. IsPage(main'[i])
    BY TurnsArePages
  <2>2. QED
    BY <2>1 DEF Queued, TurnsOnce
<1>3. QED
  BY <1>1, <1>2 DEF TurnsOnce

LEMMA ConfiguresKept ==
  ASSUME ConfiguresFirst, PageInvariant, Len(main') \in Nat, NEW k \in Nat, NEW new, Queued(k, new),
         replies' \subseteq replies,
         \A c \in Outstanding : Newest(c)' => Newest(c),
         \A c, e \in new : c = e,
         \A c \in new : c.kind = "configure" =>
           \A e \in Outstanding : e.document = c.document => ~ (e.kind = "read" /\ Newest(e)'),
         \A a \in replies' : a.call.kind = "configure" /\ Newest(a.call)' /\ a.value # 0 =>
           (a.call.document \in DOMAIN open' => a.value <= open'[a.call.document].session)
  PROVE  ConfiguresFirst'
<1>1. /\ Len(main) \in Nat /\ \A i \in 1 .. Len(main) : main[i] \in Outstanding
      /\ \A a \in replies : a.call \in Outstanding
      /\ \A c, i : c = main'[i] /\ Newest(main[i])' => Newest(c)'
  <2>1. \A c, i : c = main'[i] /\ Newest(main[i])' => Newest(c)'
    BY DEF Newest, LatestOf
  <2>2. QED
    BY <2>1, PagesTyped
<1>2. \A i \in 1 .. Len(main') : main'[i].kind = "configure" /\ Newest(main[i])' =>
        \A j \in 1 .. Len(main') :
          main'[j].kind = "read" /\ Newest(main[j])' /\ main'[j].document = main'[i].document
            => i < j
  <2> SUFFICES ASSUME NEW i \in 1 .. Len(main'), main'[i].kind = "configure", Newest(main[i])',
                      NEW j \in 1 .. Len(main'), main'[j].kind = "read", Newest(main[j])',
                      main'[j].document = main'[i].document
               PROVE  i < j
    OBVIOUS
  <2>1. IsPage(main'[i]) /\ IsPage(main'[j])
    BY DEF IsPage, PageKinds
  <2>2. i + k < j + k
    <3>1. CASE i + k \in 1 .. Len(main) /\ main'[i] = main[i + k]
      <4>1. CASE j + k \in 1 .. Len(main) /\ main'[j] = main[j + k]
        BY <1>1, <3>1, <4>1 DEF ConfiguresFirst
      <4>2. CASE j + k = Len(main) + 1
        BY <1>1, <3>1, <4>2
      <4>3. QED
        BY <2>1, <4>1, <4>2 DEF Queued
    <3>2. CASE i + k = Len(main) + 1 /\ main'[i] \in new
      BY <1>1, <2>1, <3>2 DEF Queued
    <3>3. QED
      BY <2>1, <3>1, <3>2 DEF Queued
  <2>3. QED
    BY <2>2
<1>3. \A i \in 1 .. Len(main') : main'[i].kind = "configure" /\ Newest(main[i])' =>
        \A b \in replies' :
          ~ (b.call.kind = "read" /\ Newest(b.call)' /\ b.call.document = main'[i].document)
  <2> SUFFICES ASSUME NEW i \in 1 .. Len(main'), main'[i].kind = "configure", Newest(main[i])',
                      NEW b \in replies', b.call.kind = "read", Newest(b.call)',
                      b.call.document = main'[i].document
               PROVE  FALSE
    OBVIOUS
  <2>1. IsPage(main'[i])
    BY DEF IsPage, PageKinds
  <2>2. QED
    BY <1>1, <2>1 DEF Queued, ConfiguresFirst
<1>4. \A a \in replies' : a.call.kind = "configure" /\ Newest(a.call)' /\ a.value # 0 =>
        \A b \in replies' :
          b.call.kind = "read" /\ Newest(b.call)' /\ b.call.document = a.call.document
            => b.value = 0
  BY <1>1 DEF ConfiguresFirst
<1>5. QED
  BY <1>2, <1>3, <1>4 DEF ConfiguresFirst

-----------------------------------------------------------------------------
(* Sessions: the commands of the main thread *)

\* A command of the main thread: its call becomes an answer.
LEMMA Moved ==
  ASSUME PageInvariant, NEW kinds, NEW v, Executes(kinds, v)
  PROVE  /\ Outstanding' = Outstanding
         /\ Len(main') = Len(main) - 1 /\ Len(main') \in Nat /\ Head(main) = main[1]
         /\ main[1] \in Outstanding /\ 1 \in 1 .. Len(main) /\ main[1].kind \in kinds
         /\ \A i \in 1 .. Len(main') : i + 1 \in 1 .. Len(main) /\ main'[i] = main[i + 1]
         /\ replies' = replies \union {[call |-> main[1], value |-> v]}
         /\ UNCHANGED <<page, result>>
<1>1. CallTypes /\ CleanupsOnce
  BY DEF PageInvariant, TypesHold
<1>2. main # <<>> /\ main' = Tail(main) /\ Head(main).kind \in kinds
      /\ replies' = replies \union {[call |-> Head(main), value |-> v]}
      /\ UNCHANGED <<page, result>>
  BY DEF Executes
<1>3. /\ Head(main) = main[1] /\ main' \in Seq(SentCalls)
      /\ Len(main') = Len(main) - 1 /\ 1 \in 1 .. Len(main)
      /\ \A i \in 1 .. Len(main') : i + 1 \in 1 .. Len(main) /\ main'[i] = main[i + 1]
  BY <1>1, <1>2, Taken DEF CallTypes
<1>4. Len(main') \in Nat
  BY <1>3, LenProperties
<1>5. Outstanding' = Outstanding
  BY <1>1, CallExecuted
<1>6. QED
  BY <1>2, <1>3, <1>4, <1>5, PagesTyped

LEMMA TurnsMoved ==
  ASSUME PageInvariant, TurnsOnce, NEW kinds, NEW v, Executes(kinds, v)
  PROVE  TurnsOnce'
<1> DEFINE a == [call |-> main[1], value |-> v]
<1>1. /\ Len(main') = Len(main) - 1 /\ Len(main') \in Nat /\ 1 \in 1 .. Len(main)
      /\ \A i \in 1 .. Len(main') : i + 1 \in 1 .. Len(main) /\ main'[i] = main[i + 1]
      /\ replies' = replies \union {a}
  BY Moved
<1>2. a.call = main[1]
  OBVIOUS
<1> HIDE DEF a
<1>3. \A i, j \in 1 .. Len(main') : SameTurn(main'[i], main'[j]) => i = j
  <2>1. \A i, j \in 1 .. Len(main') : SameTurn(main'[i], main'[j]) => i + 1 = j + 1
    BY <1>1 DEF TurnsOnce
  <2>2. QED
    BY <1>1, <2>1
<1>4. \A i \in 1 .. Len(main') : ~ SameTurn(main'[i], a.call)
  <2> SUFFICES ASSUME NEW i \in 1 .. Len(main'), SameTurn(main'[i], a.call)
               PROVE  FALSE
    OBVIOUS
  <2>1. i + 1 = 1
    BY <1>1, <1>2 DEF TurnsOnce
  <2>2. QED
    BY <1>1, <2>1
<1>5. \A b \in replies : ~ SameTurn(a.call, b.call) /\ ~ SameTurn(b.call, a.call)
  BY <1>1, <1>2, TurnsArePages DEF TurnsOnce
<1>6. \A b \in replies : /\ \A i \in 1 .. Len(main') : ~ SameTurn(main'[i], b.call)
                         /\ \A e \in replies : SameTurn(b.call, e.call) => b = e
  BY <1>1 DEF TurnsOnce
<1>7. QED
  BY <1>1, <1>3, <1>4, <1>5, <1>6 DEF TurnsOnce

\* What a command does to the documents, and what it may answer.
Answers(v) ==
  /\ \A e \in DOMAIN open' : /\ e \in DOMAIN open /\ open[e].session <= open'[e].session
                             /\ open'[e].session <= sessions'
  /\ v # 0 =>
       /\ main[1].document \in DOMAIN open
       /\ open[main[1].document].session = main[1].session
       /\ IF main[1].kind = "configure"
          THEN v = sessions + 1 /\ open'[main[1].document].session = v
          ELSE v = main[1].session /\ UNCHANGED open

\* A page is read from the session of its tab.
LEMMA AnswerFits ==
  ASSUME SessionInvariant, NEW kinds, NEW v \in 0 .. MaxSession, Executes(kinds, v), Answers(v)
  PROVE  AnswersFit'
<1>1. /\ main[1] \in Outstanding /\ replies' = replies \union {[call |-> main[1], value |-> v]}
      /\ UNCHANGED <<tabs, latest>> /\ PageInvariant /\ PageTypes /\ BackendTypes
  BY Moved DEF SessionInvariant, PageInvariant, TypesHold, page
<1>2. SUFFICES ASSUME NEW t \in tabs, v # 0, Newest(main[1]), main[1].document = t.document
               PROVE  IF main[1].kind = "configure" THEN t.session < v ELSE t.session = v
  <2>1. \A a \in replies, t \in tabs :
          Newest(a.call) /\ a.call.document = t.document /\ a.value # 0 =>
            IF a.call.kind = "configure" THEN t.session < a.value ELSE t.session = a.value
    BY DEF SessionInvariant, CallsAgree, AnswersFit
  <2>2. \A c : Newest(c)' <=> Newest(c)
    BY <1>1 DEF Newest, LatestOf
  <2>3. [call |-> main[1], value |-> v].call = main[1] /\ [call |-> main[1], value |-> v].value = v
    OBVIOUS
  <2>4. QED
    BY <1>1, <1>2, <2>1, <2>2, <2>3 DEF AnswersFit
<1> DEFINE d == main[1].document
<1>3. d \in DOMAIN open /\ open[d].session = main[1].session
  BY <1>2 DEF Answers
<1>4. t.session <= open[d].session /\ open[d].session <= sessions
  BY <1>2, <1>3 DEF SessionInvariant, TabsAgree, SessionsGrow
<1>5. open[d].session \in Sessions /\ sessions \in Nat /\ t.session \in Nat
  <2>1. MaxSession \in Nat
    BY TabsAssumption
  <2>2. QED
    BY <1>1, <1>2, <1>3, <2>1, ShownTyped DEF BackendTypes
<1>6. CASE main[1].kind = "configure"
  <2>1. v = sessions + 1
    BY <1>2, <1>6 DEF Answers
  <2>2. QED
    BY <1>4, <1>5, <1>6, <2>1 DEF Sessions
<1>7. CASE main[1].kind # "configure"
  <2>1. v = main[1].session
    BY <1>2, <1>7 DEF Answers
  <2>2. main[1].kind \in PageKinds
    BY <1>2 DEF Newest
  <2>3. /\ main[1].kind = "read" => main[1].session <= t.session
        /\ main[1].kind = "first_page" => main[1].session = t.session
    BY <1>1, <1>2 DEF SessionInvariant, CallsAgree, CallsFit
  <2>4. QED
    BY <1>3, <1>4, <1>5, <1>7, <2>1, <2>2, <2>3 DEF PageKinds, Sessions
<1>8. QED
  BY <1>6, <1>7

LEMMA ConfiguresMoved ==
  ASSUME SessionInvariant, NEW kinds, NEW v \in 0 .. MaxSession, Executes(kinds, v),
         Answers(v), PageInvariant'
  PROVE  ConfiguresFirst'
<1> DEFINE a == [call |-> main[1], value |-> v]
<1>1. /\ Outstanding' = Outstanding
      /\ Len(main') = Len(main) - 1 /\ Len(main') \in Nat
      /\ main[1] \in Outstanding /\ 1 \in 1 .. Len(main)
      /\ \A i \in 1 .. Len(main') : i + 1 \in 1 .. Len(main) /\ main'[i] = main[i + 1]
      /\ replies' = replies \union {a}
      /\ UNCHANGED <<tabs, latest>>
      /\ PageInvariant /\ PageTypes /\ BackendTypes
  BY Moved DEF SessionInvariant, PageInvariant, TypesHold, page
<1>2. a.call = main[1] /\ a.value = v
  OBVIOUS
<1> HIDE DEF a
<1>3. ConfiguresFirst /\ AnswersFit /\ CallsFit /\ CallsNumbered
  BY DEF SessionInvariant, CallsAgree
<1>4. /\ \A c : Newest(c)' <=> Newest(c)
      /\ \A i, c : c = main'[i] /\ Newest(main[i])' => Newest(c)
  BY <1>1 DEF Newest, LatestOf
<1>5. \A i \in 1 .. Len(main') : main'[i].kind = "configure" /\ Newest(main[i])' =>
        \A j \in 1 .. Len(main') :
          main'[j].kind = "read" /\ Newest(main[j])' /\ main'[j].document = main'[i].document
            => i < j
  <2> SUFFICES ASSUME NEW i \in 1 .. Len(main'), main'[i].kind = "configure", Newest(main[i])',
                      NEW j \in 1 .. Len(main'), main'[j].kind = "read", Newest(main[j])',
                      main'[j].document = main'[i].document
               PROVE  i < j
    OBVIOUS
  <2>1. i + 1 < j + 1
    <3>1. /\ i + 1 \in 1 .. Len(main) /\ main'[i] = main[i + 1]
          /\ j + 1 \in 1 .. Len(main) /\ main'[j] = main[j + 1]
      BY <1>1
    <3>2. Newest(main[i + 1]) /\ Newest(main[j + 1])
      BY <1>4, <3>1
    <3>3. main[i + 1].kind = "configure" /\ main[j + 1].kind = "read"
          /\ main[j + 1].document = main[i + 1].document
      BY <3>1
    <3>4. QED
      BY <1>3, <3>1, <3>2, <3>3 DEF ConfiguresFirst
  <2>2. QED
    BY <2>1
<1>6. \A i \in 1 .. Len(main') : main'[i].kind = "configure" /\ Newest(main[i])' =>
        \A b \in replies' :
          ~ (b.call.kind = "read" /\ Newest(b.call)' /\ b.call.document = main'[i].document)
  <2> SUFFICES ASSUME NEW i \in 1 .. Len(main'), main'[i].kind = "configure", Newest(main[i])',
                      NEW b \in replies', b.call.kind = "read", Newest(b.call)',
                      b.call.document = main'[i].document
               PROVE  FALSE
    OBVIOUS
  <2>1. CASE b \in replies
    BY <1>1, <1>3, <1>4, <2>1 DEF ConfiguresFirst
  <2>2. CASE b = a
    <3>1. i + 1 < 1
      BY <1>1, <1>2, <1>3, <1>4, <2>2 DEF ConfiguresFirst
    <3>2. QED
      BY <1>1, <3>1
  <2>3. QED
    BY <1>1, <2>1, <2>2
\* What was answered before.
<1>7. ASSUME NEW b \in replies, b.call.kind = "configure", Newest(b.call), b.value # 0
      PROVE  /\ b.call.document \in DOMAIN open' => b.value <= open'[b.call.document].session
             /\ \A e \in replies' :
                  e.call.kind = "read" /\ Newest(e.call) /\ e.call.document = b.call.document
                    => e.value = 0
  <2> DEFINE d == b.call.document
  <2>1. /\ d \in DOMAIN open => b.value <= open[d].session /\ open[d].session \in Nat
        /\ b.value \in Nat
    <3>1. b.value \in 0 .. MaxSession
      BY <1>1, PagesTyped
    <3>2. \A e \in DOMAIN open : open[e].session \in Nat
      BY <1>1 DEF BackendTypes, Sessions
    <3>3. QED
      BY <1>3, <1>7, <3>1, <3>2, TabsAssumption DEF ConfiguresFirst
  <2>2. d \in DOMAIN open' => b.value <= open'[d].session
    <3>1. SUFFICES ASSUME d \in DOMAIN open' PROVE b.value <= open'[d].session
      OBVIOUS
    <3>2. d \in DOMAIN open /\ open[d].session <= open'[d].session
      BY <3>1 DEF Answers
    <3>3. open'[d].session \in Nat
      <4>1. BackendTypes'
        BY DEF PageInvariant, TypesHold
      <4>2. QED
        BY <3>1, <4>1 DEF BackendTypes, Sessions
    <3>4. QED
      BY <2>1, <3>2, <3>3
  <2>3. \A e \in replies : e.call.kind = "read" /\ Newest(e.call) /\ e.call.document = d
                             => e.value = 0
    BY <1>3, <1>7 DEF ConfiguresFirst
  <2>4. main[1].kind = "read" /\ Newest(main[1]) /\ main[1].document = d => v = 0
    <3>1. SUFFICES ASSUME main[1].kind = "read", Newest(main[1]), main[1].document = d, v # 0
                   PROVE  FALSE
      OBVIOUS
    <3>2. PICK t \in tabs : t.document = d
      BY <1>1, <1>3, <3>1 DEF CallsNumbered, PageKinds
    <3>3. main[1].session <= t.session
      BY <1>1, <1>3, <3>1, <3>2 DEF CallsFit
    <3>4. t.session < b.value
      BY <1>3, <1>7, <3>2 DEF AnswersFit
    <3>5. d \in DOMAIN open /\ open[d].session = main[1].session
      BY <3>1 DEF Answers
    <3>6. t.session \in Nat
      BY <1>1, ShownTyped
    <3>7. QED
      BY <2>1, <3>3, <3>4, <3>5, <3>6
  <2>5. QED
    BY <1>1, <1>2, <2>2, <2>3, <2>4
\* What is answered now.
<1>8. ASSUME main[1].kind = "configure", Newest(main[1]), v # 0
      PROVE  /\ main[1].document \in DOMAIN open' => v <= open'[main[1].document].session
             /\ \A e \in replies' :
                  e.call.kind = "read" /\ Newest(e.call) /\ e.call.document = main[1].document
                    => e.value = 0
  <2>1. open'[main[1].document].session = v /\ v \in Nat
    BY <1>8, TabsAssumption DEF Answers
  <2>2. \A e \in replies :
          ~ (e.call.kind = "read" /\ Newest(e.call) /\ e.call.document = main[1].document)
    BY <1>1, <1>3, <1>8 DEF ConfiguresFirst
  <2>3. a.call.kind # "read"
    BY <1>2, <1>8
  <2>4. QED
    BY <1>1, <2>1, <2>2, <2>3
<1>9. \A b \in replies' : b.call.kind = "configure" /\ Newest(b.call) /\ b.value # 0 =>
        /\ b.call.document \in DOMAIN open' => b.value <= open'[b.call.document].session
        /\ \A e \in replies' :
             e.call.kind = "read" /\ Newest(e.call) /\ e.call.document = b.call.document
               => e.value = 0
  BY <1>1, <1>2, <1>7, <1>8
<1>10. QED
  BY <1>4, <1>5, <1>6, <1>9 DEF ConfiguresFirst

\* The tabs stay as they are and the sessions of their documents grow.
LEMMA DocumentsMoved ==
  ASSUME SessionInvariant, PageInvariant', UNCHANGED <<tabs, rendered, result>>,
         sessions <= sessions',
         \A e \in DOMAIN open' : /\ e \in DOMAIN open /\ open[e].session <= open'[e].session
                                 /\ open'[e].session <= sessions'
  PROVE  TabsOpened' /\ SessionsGrow'
<1>1. TabsOpened /\ SessionsGrow /\ BackendTypes /\ PageTypes /\ BackendTypes'
  BY DEF SessionInvariant, TabsAgree, PageInvariant, TypesHold
<1>2. TabsOpened'
  BY <1>1 DEF TabsOpened
<1>3. ASSUME NEW d \in DOMAIN open'
      PROVE  /\ open'[d].session <= sessions'
             /\ \A t \in tabs : t.document = d => t.session <= open'[d].session
             /\ \A r \in Requests : \A p \in DOMAIN result[r] :
                  result[r][p].document = d => result[r][p].session <= open'[d].session
  <2>1. d \in DOMAIN open /\ open[d].session <= open'[d].session /\ open'[d].session <= sessions'
    OBVIOUS
  <2>2. open[d].session \in Nat /\ open'[d].session \in Nat
    BY <1>1, <2>1 DEF BackendTypes, Sessions
  <2>3. \A t \in tabs : t.document = d => t.session <= open'[d].session
    <3>1. \A t \in tabs : t.session \in Nat
      BY <1>1, ShownTyped
    <3>2. QED
      BY <1>1, <2>1, <2>2, <3>1 DEF SessionsGrow
  <2>4. \A r \in Requests : \A p \in DOMAIN result[r] :
          result[r][p].document = d => result[r][p].session <= open'[d].session
    <3>1. \A r \in Requests : \A p \in DOMAIN result[r] : result[r][p].session \in Nat
      BY <1>1 DEF BackendTypes, Opened, NotOpened, Sessions
    <3>2. QED
      BY <1>1, <2>1, <2>2, <3>1 DEF SessionsGrow
  <2>5. QED
    BY <2>1, <2>3, <2>4
<1>4. SessionsGrow'
  BY <1>3 DEF SessionsGrow
<1>5. QED
  BY <1>2, <1>4

LEMMA CallMoved ==
  ASSUME SessionInvariant, PageInvariant', NEW kinds, NEW v \in 0 .. MaxSession, Executes(kinds, v),
         Answers(v), sessions <= sessions'
  PROVE  TabsAgree' /\ CallsAgree'
<1>1. /\ Outstanding' = Outstanding /\ UNCHANGED <<tabs, rendered, latest, result>>
      /\ PageInvariant
  BY Moved DEF SessionInvariant, page
<1>2. TabsConsistent'
  BY <1>1 DEF SessionInvariant, TabsAgree, TabsConsistent
<1>3. CallsNumbered' /\ CallsFit'
  <2>1. \A c : (Newest(c)' <=> Newest(c)) /\ LatestOf(c)' = LatestOf(c)
    BY <1>1 DEF Newest, LatestOf
  <2>2. CallsNumbered'
    BY <1>1, <2>1 DEF SessionInvariant, CallsAgree, CallsNumbered
  <2>3. CallsFit'
    BY <1>1, <2>1 DEF SessionInvariant, CallsAgree, CallsFit
  <2>4. QED
    BY <2>2, <2>3
<1>4. TurnsOnce'
  BY <1>1, TurnsMoved DEF SessionInvariant, CallsAgree
<1>5. ConfiguresFirst' /\ AnswersFit'
  BY ConfiguresMoved, AnswerFits
<1>6. TabsOpened' /\ SessionsGrow'
  BY <1>1, DocumentsMoved DEF Answers
<1>7. QED
  BY <1>2, <1>3, <1>4, <1>5, <1>6 DEF TabsAgree, CallsAgree

LEMMA CommandKeepsSessions ==
  ASSUME SessionInvariant, PageInvariant', Execute
  PROVE  TabsAgree' /\ CallsAgree'
<1>1. BackendTypes /\ SessionsGrow /\ MaxSession \in Nat
  BY TabsAssumption DEF SessionInvariant, PageInvariant, TypesHold, TabsAgree
<1>2. /\ sessions \in Nat /\ 0 \in 0 .. MaxSession
      /\ \A e \in DOMAIN open : open[e].session \in Nat /\ open[e].session <= sessions
  BY <1>1 DEF BackendTypes, Sessions, SessionsGrow
<1>3. UNCHANGED <<open, sessions>> => \A e \in DOMAIN open' :
        e \in DOMAIN open /\ open[e].session <= open'[e].session /\ open'[e].session <= sessions'
  BY <1>2
<1>4. ASSUME NEW kinds, NEW v, Executes(kinds, v)
      PROVE  Head(main) = main[1]
  BY <1>4, Moved DEF SessionInvariant
<1>5. CASE ServeCancel
  <2>1. Executes({"cancel"}, 0) /\ UNCHANGED <<open, sessions>>
    BY <1>5 DEF ServeCancel
  <2>2. Answers(0)
    BY <1>3, <2>1 DEF Answers
  <2>3. QED
    BY <1>2, <2>1, <2>2, CallMoved
<1>6. CASE ServeClose
  <2>1. /\ Executes({"close", "cleanup"}, 0) /\ UNCHANGED sessions
        /\ UNCHANGED open \/ Registry!Close(Head(main).document)
    BY <1>6 DEF ServeClose
  <2>2. \A e \in DOMAIN open' :
          e \in DOMAIN open /\ open[e].session <= open'[e].session /\ open'[e].session <= sessions'
    <3>1. CASE UNCHANGED open
      BY <1>3, <2>1, <3>1
    <3>2. CASE Registry!Close(Head(main).document)
      <4>1. \A e \in DOMAIN open' : e \in DOMAIN open /\ open'[e] = open[e]
        BY <3>2 DEF Registry!Close
      <4>2. QED
        BY <1>2, <2>1, <4>1
    <3>3. QED
      BY <2>1, <3>1, <3>2
  <2>3. Answers(0)
    BY <2>2 DEF Answers
  <2>4. QED
    BY <1>2, <2>1, <2>3, CallMoved
<1>7. CASE ServeConfigure
  <2>1. /\ Executes({"configure"}, sessions + 1) /\ Current(Head(main)) /\ sessions < MaxSession
        /\ Registry!Replace(Head(main).document, sessions + 1) /\ sessions' = sessions + 1
    BY <1>7 DEF ServeConfigure
  <2>2. Head(main) = main[1] /\ main[1].kind = "configure"
    BY <1>4, <2>1 DEF Executes
  <2>3. sessions + 1 \in 0 .. MaxSession /\ sessions <= sessions'
    BY <1>1, <1>2, <2>1
  <2>4. /\ main[1].document \in DOMAIN open /\ DOMAIN open' = DOMAIN open
        /\ open'[main[1].document].session = sessions + 1
        /\ \A e \in DOMAIN open : e # main[1].document => open'[e] = open[e]
    BY <1>1, <2>1, <2>2 DEF Registry!Replace, BackendTypes
  <2>5. \A e \in DOMAIN open' :
          e \in DOMAIN open /\ open[e].session <= open'[e].session /\ open'[e].session <= sessions'
    <3>1. ASSUME NEW e \in DOMAIN open
          PROVE  open[e].session <= open'[e].session /\ open'[e].session <= sessions'
      <4>1. CASE e = main[1].document
        BY <1>2, <2>1, <2>4, <4>1
      <4>2. CASE e # main[1].document
        BY <1>2, <2>1, <2>4, <4>2
      <4>3. QED
        BY <4>1, <4>2
    <3>2. QED
      BY <2>4, <3>1
  <2>6. Answers(sessions + 1)
    BY <2>1, <2>2, <2>4, <2>5 DEF Answers, Current
  <2>7. QED
    BY <2>1, <2>3, <2>6, CallMoved
<1>8. CASE ServeRead
  <2>1. /\ Executes({"read", "first_page"}, Head(main).session) /\ Current(Head(main))
        /\ UNCHANGED <<open, sessions>>
    BY <1>8 DEF ServeRead, backend
  <2>2. Head(main) = main[1] /\ main[1].kind # "configure"
    BY <1>4, <2>1 DEF Executes
  <2>3. main[1].session \in 0 .. MaxSession
    <3>1. main[1].session = open[main[1].document].session
      BY <2>1, <2>2 DEF Current
    <3>2. QED
      BY <1>1, <2>1, <2>2, <3>1 DEF BackendTypes, Sessions, Current
  <2>4. Answers(main[1].session)
    BY <1>3, <2>1, <2>2 DEF Answers, Current
  <2>5. QED
    BY <1>2, <2>1, <2>2, <2>3, <2>4, CallMoved
<1>9. CASE ServeError
  <2>1. Executes({"configure", "read", "first_page"}, 0) /\ UNCHANGED <<open, sessions>>
    BY <1>9 DEF ServeError, backend
  <2>2. Answers(0)
    BY <1>3, <2>1 DEF Answers
  <2>3. QED
    BY <1>2, <2>1, <2>2, CallMoved
<1>10. QED
  BY <1>5, <1>6, <1>7, <1>8, <1>9 DEF Execute

-----------------------------------------------------------------------------
(* Sessions: steps without a page call *)

\* No page call comes and none goes.
PagesStay ==
  /\ Len(main') \in Nat /\ replies' \subseteq replies
  /\ \E k \in Nat : Queued(k, {})
  /\ \A c \in Outstanding' : IsPage(c) => c \in Outstanding
  /\ \A c \in Outstanding : IsPage(c) => c \in Outstanding'

LEMMA OpenLeaves ==
  ASSUME PageInvariant, UNCHANGED replies,
         \/ UNCHANGED main
         \/ main # <<>> /\ Head(main).kind = "open" /\ main' = Tail(main)
  PROVE  PagesStay
<1>1. main \in Seq(SentCalls) /\ Len(main) \in Nat
  BY PagesTyped
<1>2. CASE UNCHANGED main
  <2>1. Outstanding' = Outstanding
    BY <1>2 DEF Outstanding
  <2>2. Queued(0, {})
    BY <1>1, <1>2 DEF Queued
  <2>3. QED
    BY <1>1, <1>2, <2>1, <2>2 DEF PagesStay
<1>3. CASE main # <<>> /\ Head(main).kind = "open" /\ main' = Tail(main)
  <2>1. /\ main' \in Seq(SentCalls) /\ Range(main) = {Head(main)} \union Range(main')
        /\ \A i \in 1 .. Len(main') : i + 1 \in 1 .. Len(main) /\ main'[i] = main[i + 1]
    BY <1>1, <1>3, Taken
  <2>2. Len(main') \in Nat
    BY <2>1, LenProperties
  <2>3. ~ IsPage(Head(main))
    BY <1>3 DEF IsPage, PageKinds
  <2>4. /\ \A c \in Outstanding' : IsPage(c) => c \in Outstanding
        /\ \A c \in Outstanding : IsPage(c) => c \in Outstanding'
    BY <2>1, <2>3 DEF Outstanding
  <2>5. Queued(1, {})
    BY <2>1 DEF Queued
  <2>6. QED
    BY <2>2, <2>4, <2>5 DEF PagesStay
<1>4. QED
  BY <1>2, <1>3

LEMMA OthersLeave ==
  ASSUME PageInvariant, NEW added \in Seq(SentCalls), main' = main \o added,
         \A i \in 1 .. Len(added) : ~ IsPage(added[i]),
         replies' \subseteq replies, \A a \in replies : IsPage(a.call) => a \in replies'
  PROVE  PagesStay
<1>1. main \in Seq(SentCalls) /\ Len(main) \in Nat
  BY PagesTyped
<1>2. /\ main' \in Seq(SentCalls) /\ Range(main') = Range(main) \union Range(added)
      /\ \A i \in 1 .. Len(main') : \/ i \in 1 .. Len(main) /\ main'[i] = main[i]
                                    \/ i - Len(main) \in 1 .. Len(added)
                                       /\ main'[i] = added[i - Len(main)]
  BY <1>1, Joined
<1>3. Len(main') \in Nat
  BY <1>2, LenProperties
<1>4. \A c \in Range(added) : ~ IsPage(c)
  BY LenProperties DEF Range
<1>5. /\ \A c \in Outstanding' : IsPage(c) => c \in Outstanding
      /\ \A c \in Outstanding : IsPage(c) => c \in Outstanding'
  BY <1>2, <1>4 DEF Outstanding
<1>6. Queued(0, {})
  <2>1. \A i \in 1 .. Len(main') : IsPage(main'[i]) => i \in 1 .. Len(main) /\ main'[i] = main[i]
    BY <1>2
  <2>2. \A i \in 1 .. Len(main) : i + 0 = i
    BY <1>1
  <2>3. QED
    BY <2>1, <2>2 DEF Queued
<1>7. QED
  BY <1>3, <1>5, <1>6 DEF PagesStay

LEMMA CallsStay ==
  ASSUME SessionInvariant, PagesStay,
         \A c \in Outstanding : IsPage(c) => c.number <= LatestOf(c)',
         \A c \in Outstanding : Newest(c)' =>
           /\ Newest(c)
           /\ \A t \in tabs' : t.document = c.document => t \in tabs
           /\ \A t \in tabs : t.document = c.document => t \in tabs',
         \A d \in DOMAIN open' : \/ d \in DOMAIN open /\ open'[d] = open[d]
                                 \/ \A t \in tabs : t.document # d
  PROVE  CallsAgree'
<1>1. /\ PageInvariant /\ CallsNumbered /\ TurnsOnce /\ CallsFit /\ AnswersFit /\ ConfiguresFirst
      /\ \A a \in replies : a.call \in Outstanding
      /\ Len(main) \in Nat /\ Len(main') \in Nat /\ replies' \subseteq replies
      /\ \A c \in Outstanding' : IsPage(c) => c \in Outstanding
  BY PagesTyped DEF SessionInvariant, CallsAgree, PagesStay
<1>2. \A c : (Newest(c) => IsPage(c)) /\ (Newest(c)' => IsPage(c))
  BY DEF Newest, IsPage
<1>3. CallsNumbered'
  <2>1. \A c \in Outstanding : IsPage(c) /\ Newest(c) => \E t \in tabs : t.document = c.document
    BY <1>1 DEF CallsNumbered, IsPage
  <2>2. QED
    BY <1>1, <2>1 DEF CallsNumbered, IsPage
<1>4. CallsFit'
  BY <1>1, <1>2 DEF CallsFit
<1>5. AnswersFit'
  BY <1>1, <1>2 DEF AnswersFit
<1>6. PICK k \in Nat : Queued(k, {})
  BY DEF PagesStay
<1>7. TurnsOnce'
  BY <1>1, <1>6, TurnsKept
<1>8. \A a \in replies' : a.call.kind = "configure" /\ Newest(a.call)' /\ a.value # 0 =>
        (a.call.document \in DOMAIN open' => a.value <= open'[a.call.document].session)
  <2> SUFFICES ASSUME NEW a \in replies', a.call.kind = "configure", Newest(a.call)', a.value # 0,
                      a.call.document \in DOMAIN open'
               PROVE  a.value <= open'[a.call.document].session
    OBVIOUS
  <2>1. a \in replies /\ a.call \in Outstanding /\ Newest(a.call) /\ IsPage(a.call)
    BY <1>1, <1>2
  <2>2. \E t \in tabs : t.document = a.call.document
    BY <1>1, <2>1 DEF CallsNumbered, IsPage
  <2>3. a.call.document \in DOMAIN open /\ open'[a.call.document] = open[a.call.document]
    BY <2>2
  <2>4. QED
    BY <1>1, <2>1, <2>3 DEF ConfiguresFirst
<1>9. ConfiguresFirst'
  BY <1>1, <1>6, <1>8, ConfiguresKept
<1>10. QED
  BY <1>3, <1>4, <1>5, <1>7, <1>9 DEF CallsAgree

\* The tabs that show a document stay as they are.
LEMMA TabsStay ==
  ASSUME SessionInvariant, PageInvariant', PagesStay, UNCHANGED latest,
         \A t \in tabs : t.status = "ready" => t \in tabs',
         \A t \in tabs' : t.status = "ready" => t \in tabs,
         UNCHANGED rendered \/ rendered' = tabs',
         \A r \in Requests : \A p \in DOMAIN result[r] :
           p \in DOMAIN result'[r] /\ result'[r][p] = result[r][p],
         \A d \in DOMAIN open' : \/ d \in DOMAIN open /\ open'[d] = open[d]
                                 \/ \A t \in tabs : t.document # d
  PROVE  TabsConsistent' /\ TabsOpened' /\ CallsAgree'
<1>1. /\ PageInvariant /\ PageTypes /\ PageTypes' /\ TabsConsistent /\ TabsOpened /\ CallsNumbered
  BY DEF SessionInvariant, TabsAgree, CallsAgree, PageInvariant, TypesHold
<1>2. /\ \A t \in tabs : t.status = "ready" <=> t.document \in Documents
      /\ \A t \in tabs' : t.status = "ready" <=> t.document \in Documents
      /\ \A t \in tabs : t.session \in Nat
  BY <1>1, ShownFacts DEF PageTypes
<1>3. \A c \in Outstanding : IsPage(c) => c.document \in Documents
  BY <1>1, PagesTyped
<1>4. \A c : /\ LatestOf(c)' = LatestOf(c) /\ (Newest(c)' <=> Newest(c))
             /\ (Newest(c) => IsPage(c))
  BY DEF LatestOf, Newest, IsPage
<1>5. CallsAgree'
  <2>1. \A c \in Outstanding : IsPage(c) => c.number <= LatestOf(c)'
    BY <1>1, <1>4 DEF CallsNumbered, IsPage
  <2>2. \A c \in Outstanding : Newest(c)' =>
           /\ Newest(c)
           /\ \A t \in tabs' : t.document = c.document => t \in tabs
           /\ \A t \in tabs : t.document = c.document => t \in tabs'
    BY <1>2, <1>3, <1>4
  <2>3. QED
    BY <2>1, <2>2, CallsStay
<1>6. TabsConsistent'
  <2>1. ASSUME NEW t \in tabs', t.status = "ready"
        PROVE  /\ \A u \in tabs' : u.document = t.document => u = t
               /\ \/ t.page = t.session \/ t.configuring \/ t.failed
                  \/ \E c \in Outstanding' :
                       c.kind = "read" /\ c.document = t.document /\ c.number = latest'[t.document].page
    <3>1. t \in tabs /\ t.document \in Documents
      BY <1>2, <2>1
    <3>2. \A u \in tabs' : u.document = t.document => u = t
      BY <1>1, <1>2, <2>1, <3>1 DEF TabsConsistent
    <3>3. \/ t.page = t.session \/ t.configuring \/ t.failed
          \/ \E c \in Outstanding :
               c.kind = "read" /\ c.document = t.document /\ c.number = latest[t.document].page
      BY <1>1, <2>1, <3>1 DEF TabsConsistent
    <3>4. \A c \in Outstanding : c.kind = "read" => c \in Outstanding'
      BY DEF PagesStay, IsPage, PageKinds
    <3>5. QED
      BY <3>2, <3>3, <3>4
  <2>2. QED
    BY <2>1 DEF TabsConsistent
<1>7. TabsOpened'
  <2>1. \A t \in tabs' \union rendered' : t.status = "ready" =>
          \E r \in Requests : t.path \in DOMAIN result'[r]
                              /\ result'[r][t.path].document = t.document
    BY <1>1 DEF TabsOpened
  <2>2. ASSUME NEW t \in rendered', t.status = "ready"
        PROVE  /\ \E u \in tabs' : u.document = t.document
               /\ \A u \in tabs' : u.document = t.document => t.session <= u.session
    <3>1. CASE UNCHANGED rendered
      <4>1. t.document \in Documents /\ t \in rendered
        BY <1>1, <2>2, <3>1, ShownTyped
      <4>2. \A u \in tabs' : u.document = t.document => u \in tabs
        BY <1>2, <4>1
      <4>3. PICK u \in tabs : u.document = t.document
        BY <1>1, <2>2, <4>1 DEF TabsOpened
      <4>4. u \in tabs'
        BY <1>2, <4>1, <4>3
      <4>5. QED
        BY <1>1, <2>2, <4>1, <4>2, <4>3, <4>4 DEF TabsOpened
    <3>2. CASE rendered' = tabs'
      <4>1. t \in tabs'
        BY <3>2
      <4>2. \A u \in tabs' : u.document = t.document => u = t
        BY <1>6, <2>2, <4>1 DEF TabsConsistent
      <4>3. t.session <= t.session
        BY <1>2, <2>2, <4>1
      <4>4. QED
        BY <4>1, <4>2, <4>3
    <3>3. QED
      BY <3>1, <3>2
  <2>3. QED
    BY <2>1, <2>2 DEF TabsOpened
<1>8. QED
  BY <1>5, <1>6, <1>7

\* A task that leaves the shown documents and the page calls alone.
LEMMA PageStays ==
  ASSUME SessionInvariant, PageInvariant', PagesStay,
         UNCHANGED <<latest, open, sessions, result>>,
         \A t \in tabs : t.status = "ready" => t \in tabs',
         \A t \in tabs' : t.status = "ready" => t \in tabs,
         UNCHANGED rendered \/ rendered' = tabs'
  PROVE  TabsAgree' /\ CallsAgree'
<1>1. SessionsGrow /\ BackendTypes /\ PageTypes' 
  BY DEF SessionInvariant, TabsAgree, PageInvariant, TypesHold
<1>2. TabsConsistent' /\ TabsOpened' /\ CallsAgree'
  BY TabsStay
<1>3. SessionsGrow'
  <2>1. \A t \in tabs' : t.status = "ready" <=> t.document \in Documents
    BY <1>1, ShownFacts DEF PageTypes
  <2>2. \A d \in DOMAIN open : d \in Documents
    BY <1>1 DEF BackendTypes
  <2>3. QED
    BY <1>1, <2>1, <2>2 DEF SessionsGrow
<1>4. QED
  BY <1>2, <1>3 DEF TabsAgree

LEMMA OpensPathsKeeps ==
  ASSUME SessionInvariant, PageInvariant', NEW r \in Requests, OpenPaths(r)
  PROVE  TabsAgree' /\ CallsAgree'
<1>1. PageInvariant /\ PageTypes /\ PageTypes'
  BY DEF SessionInvariant, PageInvariant, TypesHold
<1>2. /\ tabs' = tabs \union {Pending(r, p, "loading") : p \in PathsOf[r]}
      /\ \/ main' = Append(main, OpenCall(r))
         \/ UNCHANGED main
      /\ UNCHANGED <<rendered, latest, result, backend, replies>>
  BY DEF OpenPaths
<1>3. PagesStay
  <2>1. OpenCall(r) \in SentCalls /\ ~ IsPage(OpenCall(r))
    BY CallTyped DEF OpenCall, Call, IsPage, PageKinds
  <2>2. CASE main' = Append(main, OpenCall(r))
    <3>1. /\ <<OpenCall(r)>> \in Seq(SentCalls) /\ main' = main \o <<OpenCall(r)>>
          /\ \A i \in 1 .. Len(<<OpenCall(r)>>) : ~ IsPage(<<OpenCall(r)>>[i])
      BY <1>1, <2>1, <2>2, PagesTyped, Single
    <3>2. QED
      BY <1>1, <1>2, <3>1, OthersLeave
  <2>3. CASE UNCHANGED main
    BY <1>1, <1>2, <2>3, OpenLeaves
  <2>4. QED
    BY <1>2, <2>2, <2>3
<1>4. \A t \in tabs' : t.status = "ready" => t \in tabs
  BY <1>2 DEF Pending
<1>5. QED
  BY <1>2, <1>3, <1>4, PageStays DEF backend

LEMMA OpensFileKeeps ==
  ASSUME SessionInvariant, PageInvariant', NEW r \in Requests, OpenFile(r)
  PROVE  TabsAgree' /\ CallsAgree'
<1>1. UNCHANGED <<page, result, backend, main, replies>> /\ PageInvariant
  BY DEF OpenFile, SessionInvariant
<1>2. PagesStay
  BY <1>1, OpenLeaves
<1>3. QED
  BY <1>1, <1>2, PageStays DEF page, backend

LEMMA CleanupLeaves ==
  ASSUME PageInvariant, NEW files, OpenedFiles(files), NEW first \in Seq(SentCalls),
         \A i \in 1 .. Len(first) : ~ IsPage(first[i]),
         NEW calls \in SetToSeqs({CleanupCall(f[1], f[2]) : f \in {e \in files : e[1] \notin cleaned}}),
         main' = (main \o first) \o calls, UNCHANGED replies
  PROVE  PagesStay
<1> DEFINE new == {e \in files : e[1] \notin cleaned}
<1>1. new \in SUBSET (Opened \X Paths)
  BY DEF OpenedFiles
<1>2. calls \in SetToSeqs({CleanupCall(f[1], f[2]) : f \in new})
  OBVIOUS
<1> HIDE DEF new
<1>3. /\ calls \in Seq(SentCalls)
      /\ \A i \in 1 .. Len(calls) : \E f \in new : calls[i] = CleanupCall(f[1], f[2])
  BY <1>1, <1>2, CleanupsListed
<1>4. \A i \in 1 .. Len(calls) : ~ IsPage(calls[i])
  <2>1. \A o, p : ~ IsPage(CleanupCall(o, p))
    BY DEF CleanupCall, Call, IsPage, PageKinds
  <2>2. QED
    BY <1>3, <2>1
<1>5. main \in Seq(SentCalls)
  BY PagesTyped
<1> DEFINE added == first \o calls
<1>6. added \in Seq(SentCalls) /\ main' = main \o added
  BY <1>3, <1>5, ConcatProperties, ConcatAssociative
<1>7. \A i \in 1 .. Len(added) : ~ IsPage(added[i])
  BY <1>3, <1>4, Joined
<1> HIDE DEF added
<1>8. QED
  BY <1>6, <1>7, OthersLeave

LEMMA CleaningLeaves ==
  ASSUME PageInvariant, NEW files, OpenedFiles(files), Cleanup(files), UNCHANGED replies
  PROVE  PagesStay
<1>1. PICK calls \in SetToSeqs({CleanupCall(f[1], f[2]) : f \in {e \in files : e[1] \notin cleaned}}) :
        main' = main \o calls
  BY DEF Cleanup
<1>2. /\ <<>> \in Seq(SentCalls) /\ main = main \o <<>>
      /\ \A i \in 1 .. Len(<<>>) : ~ IsPage(<<>>[i])
  BY PagesTyped, NothingSent
<1>3. main' = (main \o <<>>) \o calls
  BY <1>1, <1>2
<1>4. QED
  BY <1>2, <1>3, CleanupLeaves

LEMMA OpenFailsKeeps ==
  ASSUME SessionInvariant, PageInvariant', NEW r \in Requests, FailOpen(r)
  PROVE  TabsAgree' /\ CallsAgree'
<1>1. PageInvariant /\ PageTypes /\ ResultsAgree
  BY DEF SessionInvariant, PageInvariant, TypesHold
<1>2. UNCHANGED <<rendered, latest, result, backend, replies>>
  BY DEF FailOpen
<1>3. CASE r \in Dialogs
  <2>1. UNCHANGED <<tabs, main>>
    BY <1>3 DEF FailOpen
  <2>2. PagesStay
    BY <1>1, <1>2, <2>1, OpenLeaves
  <2>3. QED
    BY <1>2, <2>1, <2>2, PageStays DEF backend
<1>4. CASE r \notin Dialogs
  <2>1. /\ Cleanup(Unretained(r, PathsOf[r], [p \in PathsOf[r] |-> NotOpened]))
        /\ tabs' = {IF t.request = r THEN [t EXCEPT !.status = "error"] ELSE t : t \in tabs}
    BY <1>4 DEF FailOpen
  <2>2. PathsOf[r] \in SUBSET Paths
    BY TabsAssumption
  <2>3. PagesStay
    BY <1>1, <1>2, <2>1, <2>2, UnretainedOpened, CleaningLeaves
  <2>4. \A t \in tabs : t.status = "ready" => t.request # r
    BY <1>1, ShownTyped, TabsAssumption
  <2>5. /\ \A t \in tabs : t.status = "ready" => t \in tabs'
        /\ \A t \in tabs' : t.status = "ready" => t \in tabs
    <3>1. \A t \in tabs : t.status = "ready" => t \in tabs'
      BY <2>1, <2>4
    <3>2. \A t \in tabs : [t EXCEPT !.status = "error"].status # "ready"
      BY <1>1 DEF PageTypes, ShownTabs, Tabs
    <3>3. \A t \in tabs' : t.status = "ready" => t \in tabs
      BY <2>1, <3>2
    <3>4. QED
      BY <3>1, <3>3
  <2>6. QED
    BY <1>2, <2>3, <2>5, PageStays DEF backend
<1>5. QED
  BY <1>3, <1>4

LEMMA PendingClosedKeeps ==
  ASSUME SessionInvariant, PageInvariant', NEW t \in rendered, ClosePending(t)
  PROVE  TabsAgree' /\ CallsAgree'
<1>1. PageInvariant /\ PageTypes /\ ResultsAgree
  BY DEF SessionInvariant, PageInvariant, TypesHold
<1> DEFINE r == t.request
           group == {u \in rendered : u.status = "loading" /\ u.request = r}
           ps == {u.path : u \in group}
           files == Unretained(r, ps, [p \in ps |-> NotOpened])
<1>2. /\ t.status = "loading"
      /\ tabs' = {u \in tabs : \A v \in group : ~ Same(u, v)} /\ rendered' = tabs'
      /\ \E calls \in SetToSeqs({CleanupCall(f[1], f[2]) :
                                   f \in {e \in files : e[1] \notin cleaned}}) :
           main' = Append(main, CancelCall(r, ps)) \o calls
      /\ UNCHANGED <<latest, result, backend, replies>>
  BY Zenon DEF ClosePending
<1>3. r \in Requests /\ \A u \in group : u.path \in Paths
  BY <1>1, <1>2 DEF PageTypes, ShownTabs, Tabs
<1>4. ps \in SUBSET Paths
  BY <1>3
<1>5. \A u \in tabs : u.status = "ready" => \A v \in group : ~ Same(u, v)
  <2>1. \A v \in group : v.request \in Requests
    BY <1>3
  <2>2. \A u \in tabs : u.status = "ready" => u.request \notin Requests
    BY <1>1, ShownTyped, TabsAssumption
  <2>3. QED
    BY <2>1, <2>2 DEF Same
<1> HIDE DEF r, group, ps, files
<1>6. OpenedFiles(files)
  BY <1>1, <1>4, UnretainedOpened DEF files
<1>7. CancelCall(r, ps) \in SentCalls /\ ~ IsPage(CancelCall(r, ps))
  BY <1>3, <1>4, CallTyped DEF CancelCall, Call, IsPage, PageKinds
<1>8. PagesStay
  <2>1. PICK calls \in SetToSeqs({CleanupCall(f[1], f[2]) :
                                   f \in {e \in files : e[1] \notin cleaned}}) :
           main' = Append(main, CancelCall(r, ps)) \o calls
    BY <1>2
  <2>2. PICK first : first = <<CancelCall(r, ps)>>
    OBVIOUS
  <2>3. /\ first \in Seq(SentCalls) /\ Append(main, CancelCall(r, ps)) = main \o first
        /\ \A i \in 1 .. Len(first) : ~ IsPage(first[i])
    BY <2>2, <1>1, <1>7, Single, PagesTyped
  <2>4. main' = (main \o first) \o calls
    BY <2>1, <2>3
  <2>5. QED
    BY <1>1, <1>2, <1>6, <2>3, <2>4, CleanupLeaves
<1>9. /\ \A u \in tabs : u.status = "ready" => u \in tabs'
      /\ \A u \in tabs' : u.status = "ready" => u \in tabs
  BY <1>2, <1>5
<1>10. QED
  BY <1>2, <1>8, <1>9, PageStays DEF backend

LEMMA SettledKeeps ==
  ASSUME SessionInvariant, PageInvariant', NEW a \in replies, Settle(a)
  PROVE  TabsAgree' /\ CallsAgree'
<1>1. PageInvariant
  BY DEF SessionInvariant
<1>2. PICK freed : freed = Freed(waits')
  OBVIOUS
<1>3. /\ replies' = replies \ {a} /\ a.call.kind \in {"close", "cleanup", "cancel"}
      /\ \E calls \in SetToSeqs({OpenCall(r) : r \in freed}) : main' = main \o calls
      /\ UNCHANGED <<tabs, rendered, latest, result, backend>>
  BY <1>2 DEF Settle
<1>4. PagesStay
  <2>1. PICK calls \in SetToSeqs({OpenCall(r) : r \in freed}) : main' = main \o calls
    BY <1>3
  <2>2. /\ calls \in Seq(SentCalls)
        /\ \A i \in 1 .. Len(calls) : calls[i].kind = "open"
    BY <1>2, <2>1, OpensListed DEF Freed
  <2>3. /\ \A i \in 1 .. Len(calls) : ~ IsPage(calls[i])
        /\ ~ IsPage(a.call)
    BY <1>3, <2>2 DEF IsPage, PageKinds
  <2>4. QED
    BY <1>1, <1>3, <2>1, <2>2, <2>3, OthersLeave
<1>5. QED
  BY <1>3, <1>4, PageStays DEF backend

LEMMA RenderedKeeps ==
  ASSUME SessionInvariant, PageInvariant', Render
  PROVE  TabsAgree' /\ CallsAgree'
<1>1. /\ PageInvariant /\ rendered' = tabs'
      /\ UNCHANGED <<tabs, latest, result, backend, main, replies>>
  BY DEF Render, SessionInvariant
<1>2. PagesStay
  BY <1>1, OpenLeaves
<1>3. QED
  BY <1>1, <1>2, PageStays DEF backend

LEMMA RejectionKeeps ==
  ASSUME SessionInvariant, PageInvariant', NEW r \in Requests, ServeRejection(r)
  PROVE  TabsAgree' /\ CallsAgree'
<1>1. /\ PageInvariant /\ UNCHANGED <<page, result, backend, replies>>
      /\ \/ UNCHANGED main
         \/ main # <<>> /\ Head(main) = OpenCall(r) /\ main' = Tail(main)
  BY DEF ServeRejection, Serving, Answered, SessionInvariant
<1>2. OpenCall(r).kind = "open"
  BY DEF OpenCall, Call
<1>3. PagesStay
  BY <1>1, <1>2, OpenLeaves
<1>4. QED
  BY <1>1, <1>3, PageStays DEF page, backend

LEMMA ItemKeeps ==
  ASSUME SessionInvariant, PageInvariant', NEW r \in Requests, ServeItem(r)
  PROVE  TabsAgree' /\ CallsAgree'
<1>1. /\ PageInvariant /\ BackendTypes /\ PageTypes /\ ResultsAgree /\ SessionsGrow /\ TabsOpened
  BY DEF SessionInvariant, PageInvariant, TypesHold, TabsAgree
<1>2. PICK p \in Paths : OpenItem(r, p)
  BY DEF ServeItem
<1>3. /\ BackendTypes'
      /\ DOMAIN result'[r] = DOMAIN result[r] \union {p} /\ p \notin DOMAIN result[r]
      /\ \A s \in Requests : \A q \in DOMAIN result[s] :
           q \in DOMAIN result'[s] /\ result'[s][q] = result[s][q]
      /\ \A s \in Requests : s # r => result'[s] = result[s]
  BY <1>1, <1>2, OpenItemTypes
<1>4. /\ UNCHANGED <<page, replies>>
      /\ \/ UNCHANGED main
         \/ main # <<>> /\ Head(main) = OpenCall(r) /\ main' = Tail(main)
  BY DEF ServeItem, Serving, Answered
<1>5. OpenCall(r).kind = "open"
  BY DEF OpenCall, Call
<1>6. PagesStay
  BY <1>1, <1>4, <1>5, OpenLeaves
<1>7. \/ result'[r][p] = NotOpened /\ UNCHANGED <<open, sessions>>
      \/ \E d \in DOMAIN open : /\ result'[r][p] = [document |-> d, session |-> open[d].session]
                                /\ UNCHANGED <<open, sessions>>
      \/ \E d \in Documents : /\ result'[r][p] = [document |-> d, session |-> sessions + 1]
                              /\ Registry!Open(d, p, sessions + 1) /\ sessions' = sessions + 1
  <2>1. r \in Requests /\ result = [s \in Requests |-> result[s]]
    BY <1>1 DEF BackendTypes
  <2>2. ASSUME NEW o, result' = [result EXCEPT ![r] =
                        [q \in DOMAIN result[r] \union {p} |-> IF q = p THEN o ELSE result[r][q]]]
        PROVE  result'[r][p] = o
    BY <2>1, <2>2
  <2>3. PICK next : next = Cardinality(DOMAIN open \union closed) + 1
    OBVIOUS
  <2>4. QED
    BY <1>2, <2>2, <2>3 DEF OpenItem, backend
\* A new document has no tab and no result yet.
<1>8. /\ \A d \in DOMAIN open' :
           \/ d \in DOMAIN open /\ open'[d] = open[d]
           \/ /\ d \notin DOMAIN open \union closed
              /\ open'[d].session = sessions + 1 /\ sessions' = sessions + 1
              /\ result'[r][p] = [document |-> d, session |-> sessions + 1]
      /\ sessions' \in {sessions, sessions + 1}
  <2>1. CASE UNCHANGED <<open, sessions>>
    BY <2>1
  <2>2. ASSUME NEW d \in Documents,
               result'[r][p] = [document |-> d, session |-> sessions + 1],
               Registry!Open(d, p, sessions + 1), sessions' = sessions + 1
        PROVE  /\ \A e \in DOMAIN open' :
                    \/ e \in DOMAIN open /\ open'[e] = open[e]
                    \/ /\ e \notin DOMAIN open \union closed
                       /\ open'[e].session = sessions + 1 /\ sessions' = sessions + 1
                       /\ result'[r][p] = [document |-> e, session |-> sessions + 1]
               /\ sessions' \in {sessions, sessions + 1}
    <3>1. /\ d \notin DOMAIN open \union closed /\ DOMAIN open' = DOMAIN open \union {d}
          /\ open'[d].session = sessions + 1
          /\ \A e \in DOMAIN open : e # d => open'[e] = open[e]
      BY <2>2 DEF Registry!Open
    <3>2. QED
      BY <2>2, <3>1
  <2>3. QED
    BY <1>7, <2>1, <2>2
<1>9. ASSUME NEW d, d \in Documents \ (DOMAIN open \union closed)
      PROVE  /\ \A t \in tabs : t.document # d
             /\ \A s \in Requests : \A q \in DOMAIN result[s] : result[s][q].document # d
  <2>1. d # 0
    BY <1>9 DEF Documents
  <2>2. \A s \in Requests : \A q \in DOMAIN result[s] : result[s][q].document # d
    BY <1>1, <1>9, <2>1 DEF ResultsAgree, NotOpened
  <2>3. \A t \in tabs : t.document # d
    <3>1. \A t \in tabs : t.status = "ready" <=> t.document \in Documents
      BY <1>1, ShownTyped
    <3>2. QED
      BY <1>1, <1>9, <2>2, <3>1 DEF TabsOpened
  <2>4. QED
    BY <2>2, <2>3
<1>10. \A d \in DOMAIN open' : d \in Documents
  BY <1>3 DEF BackendTypes
<1>11. TabsConsistent' /\ TabsOpened' /\ CallsAgree'
  <2>1. \A d \in DOMAIN open' : \/ d \in DOMAIN open /\ open'[d] = open[d]
                                \/ \A t \in tabs : t.document # d
    BY <1>8, <1>9, <1>10
  <2>2. QED
    BY <1>3, <1>4, <1>6, <2>1, TabsStay DEF page
<1>12. ASSUME NEW d \in DOMAIN open'
       PROVE  /\ open'[d].session <= sessions'
              /\ \A t \in tabs : t.document = d => t.session <= open'[d].session
              /\ \A s \in Requests : \A q \in DOMAIN result'[s] :
                   result'[s][q].document = d => result'[s][q].session <= open'[d].session
  <2>1. sessions \in Nat /\ d \in Documents /\ d # 0
    BY <1>1, <1>10, TabsAssumption DEF BackendTypes, Documents
  <2>2. \A s \in Requests : \A q \in DOMAIN result'[s] :
          \/ q \in DOMAIN result[s] /\ result'[s][q] = result[s][q]
          \/ s = r /\ q = p
    BY <1>3
  <2>3. CASE d \in DOMAIN open /\ open'[d] = open[d]
    <3>1. open[d].session \in Nat
      BY <1>1, <2>3 DEF BackendTypes, Sessions
    <3>2. /\ open[d].session <= sessions
          /\ \A t \in tabs : t.document = d => t.session <= open[d].session
          /\ \A s \in Requests : \A q \in DOMAIN result[s] :
               result[s][q].document = d => result[s][q].session <= open[d].session
      BY <1>1, <2>3 DEF SessionsGrow
    <3>3. result'[r][p].document = d => result'[r][p].session <= open[d].session
      <4>1. CASE result'[r][p] = NotOpened
        BY <2>1, <4>1 DEF NotOpened
      <4>2. CASE \E e \in DOMAIN open : result'[r][p] = [document |-> e, session |-> open[e].session]
        BY <3>1, <4>2
      <4>3. CASE \E e \in Documents : /\ result'[r][p] = [document |-> e, session |-> sessions + 1]
                                      /\ Registry!Open(e, p, sessions + 1)
        BY <2>3, <4>3 DEF Registry!Open
      <4>4. QED
        BY <1>7, <4>1, <4>2, <4>3
    <3>4. open'[d].session <= sessions'
      BY <1>8, <2>1, <2>3, <3>1, <3>2
    <3>5. QED
      BY <2>2, <2>3, <3>2, <3>3, <3>4
  <2>4. CASE /\ d \notin DOMAIN open \union closed
             /\ open'[d].session = sessions + 1 /\ sessions' = sessions + 1
             /\ result'[r][p] = [document |-> d, session |-> sessions + 1]
    <3>1. /\ \A t \in tabs : t.document # d
          /\ \A s \in Requests : \A q \in DOMAIN result[s] : result[s][q].document # d
      BY <1>9, <2>1, <2>4
    <3>2. QED
      BY <2>1, <2>2, <2>4, <3>1
  <2>5. QED
    BY <1>8, <2>3, <2>4
<1>13. SessionsGrow'
  BY <1>4, <1>12 DEF SessionsGrow, page
<1>14. QED
  BY <1>11, <1>13 DEF TabsAgree

\* An answer to an open adds tabs only for documents that none shows.
LEMMA ResponseKeeps ==
  ASSUME SessionInvariant, PageInvariant', NEW r \in Requests, ApplyOpenResponse(r)
  PROVE  TabsAgree' /\ CallsAgree'
<1>1. /\ PageInvariant /\ CallTypes /\ ResultsAgree /\ PageTypes /\ BackendTypes /\ PageTypes'
      /\ TabsConsistent /\ TabsOpened /\ SessionsGrow /\ CallsNumbered
  BY DEF SessionInvariant, PageInvariant, TypesHold, TabsAgree, CallsAgree
<1>2. /\ phase[r] = "answered"
      /\ UNCHANGED <<rendered, latest, result, backend, replies>>
  BY DEF ApplyOpenResponse
<1> DEFINE discarded == {p \in PathsOf[r] : <<r, p>> \in closedPending}
           opened == {p \in PathsOf[r] : result[r][p] # NotOpened}
           late == {p \in opened \intersect discarded :
                      ~ \E t \in rendered : /\ t.document = result[r][p].document
                                            /\ t.session = result[r][p].session}
           reopened == {p \in late : ReopenOwners(r, p) # {}}
           replaced == {p \in reopened : deferred[p] # None /\ deferred[p].opened # result[r][p]}
           shown == {t.document : t \in tabs}
           accepted == {q \in opened \ discarded : result[r][q].document \notin shown}
<1>3. /\ Cleanup(Unretained(r, PathsOf[r] \ discarded, result[r])
                 \union {<<deferred[p].opened, p>> : p \in replaced}
                 \union {<<result[r][p], p>> : p \in late \ reopened})
      /\ tabs' =
           {t \in tabs : ~ \E p \in PathsOf[r] \ discarded : Same(t, Pending(r, p, "loading"))}
           \union {Ready(result[r][p], p) : p \in accepted}
           \union {Pending(r, p, "error") : p \in PathsOf[r] \ (opened \union discarded)}
  BY Zenon DEF ApplyOpenResponse
<1>4. /\ late \subseteq opened /\ reopened \subseteq late
      /\ opened = {p \in PathsOf[r] : result[r][p] # NotOpened}
      /\ \A p \in replaced : p \in reopened /\ deferred[p] # None
      /\ \A p \in accepted : p \in opened /\ \A t \in tabs : t.document # result[r][p].document
  OBVIOUS
<1> HIDE DEF discarded, opened, late, reopened, replaced, shown, accepted
<1>5. PathsOf[r] \in SUBSET Paths /\ DOMAIN result[r] = PathsOf[r]
  BY <1>1, <1>2, TabsAssumption DEF CallTypes
<1>6. \A p \in opened : /\ p \in Paths /\ p \in DOMAIN result[r] /\ result[r][p] \in Opened
                        /\ result[r][p] # NotOpened
  BY <1>1, <1>4, <1>5 DEF BackendTypes
<1>7. PagesStay
  <2>1. /\ \A p \in replaced : p \in Paths /\ deferred[p] # None
        /\ \A p \in late : p \in Paths /\ p \in DOMAIN result[r] /\ result[r][p] \in Opened
    BY <1>4, <1>6
  <2>2. /\ replaced \in SUBSET Paths /\ late \ reopened \in SUBSET DOMAIN result[r]
        /\ DOMAIN result[r] \in SUBSET Paths /\ PathsOf[r] \ discarded \in SUBSET Paths
    BY <1>5, <2>1
  <2>3. OpenedFiles(Unretained(r, PathsOf[r] \ discarded, result[r])
                    \union {<<deferred[p].opened, p>> : p \in replaced}
                    \union {<<result[r][p], p>> : p \in late \ reopened})
    BY <1>1, <2>1, <2>2, ResponseFiles
  <2>4. QED
    BY <1>1, <1>2, <1>3, <2>3, CleaningLeaves
<1>8. \A t \in tabs : t.status = "ready" => t \in tabs'
  <2>1. \A t \in tabs : t.status = "ready" => t.request \notin Requests
    BY <1>1, ShownTyped, TabsAssumption
  <2>2. \A t \in tabs : \A p : t.status = "ready" => ~ Same(t, Pending(r, p, "loading"))
    BY <2>1 DEF Same, Pending
  <2>3. QED
    BY <1>3, <2>2
<1>9. \A t \in tabs' : t.status = "ready" =>
        \/ t \in tabs
        \/ \E p \in opened : /\ t = Ready(result[r][p], p)
                             /\ \A u \in tabs : u.document # result[r][p].document
  <2>1. \A p : Pending(r, p, "error").status # "ready"
    BY DEF Pending
  <2>2. QED
    BY <1>3, <1>4, <2>1
<1>10. \A p \in opened : /\ Ready(result[r][p], p).document = result[r][p].document
                         /\ Ready(result[r][p], p).session = result[r][p].session
                         /\ Ready(result[r][p], p).page = result[r][p].session
                         /\ Ready(result[r][p], p).path = p
  BY DEF Ready
<1>11. /\ \A t \in tabs : t.status = "ready" <=> t.document \in Documents
       /\ \A t \in tabs' : t.status = "ready" <=> t.document \in Documents
       /\ \A t \in rendered : t.status = "ready" <=> t.document \in Documents
  BY <1>1, ShownFacts DEF PageTypes
<1>12. \A d \in Documents, t \in tabs' : t.document = d /\ (\E u \in tabs : u.document = d) => t \in tabs
  BY <1>9, <1>10, <1>11
<1>13. CallsAgree'
  <2>1. \A c : /\ LatestOf(c)' = LatestOf(c) /\ (Newest(c)' <=> Newest(c))
               /\ (Newest(c) => IsPage(c))
    BY <1>2 DEF LatestOf, Newest, IsPage
  <2>2. \A c \in Outstanding : IsPage(c) =>
          /\ c.document \in Documents /\ c.number <= LatestOf(c)
          /\ Newest(c) => \E t \in tabs : t.document = c.document
    BY <1>1, PagesTyped DEF CallsNumbered, IsPage
  <2>3. \A c \in Outstanding : Newest(c)' =>
           /\ Newest(c)
           /\ \A t \in tabs' : t.document = c.document => t \in tabs
           /\ \A t \in tabs : t.document = c.document => t \in tabs'
    BY <1>8, <1>11, <1>12, <2>1, <2>2
  <2>4. \A d \in DOMAIN open' : d \in DOMAIN open /\ open'[d] = open[d]
    BY <1>2 DEF backend
  <2>5. QED
    BY <1>7, <2>1, <2>2, <2>3, <2>4, CallsStay
<1>14. TabsConsistent'
  <2>1. ASSUME NEW t \in tabs', t.status = "ready"
        PROVE  /\ \A u \in tabs' : u.document = t.document => u = t
               /\ \/ t.page = t.session \/ t.configuring \/ t.failed
                  \/ \E c \in Outstanding' :
                       c.kind = "read" /\ c.document = t.document /\ c.number = latest'[t.document].page
    <3>1. t.document \in Documents
      BY <1>11, <2>1
    <3>2. CASE t \in tabs
      <4>1. \A u \in tabs' : u.document = t.document => u = t
        BY <1>1, <1>12, <2>1, <3>1, <3>2 DEF TabsConsistent
      <4>2. \A c \in Outstanding : c.kind = "read" => c \in Outstanding'
        BY <1>7 DEF PagesStay, IsPage, PageKinds
      <4>3. QED
        BY <1>1, <1>2, <2>1, <3>2, <4>1, <4>2 DEF TabsConsistent
    <3>3. CASE \E p \in opened : /\ t = Ready(result[r][p], p)
                                 /\ \A u \in tabs : u.document # result[r][p].document
      <4>1. PICK p \in opened : /\ t = Ready(result[r][p], p)
                                /\ \A u \in tabs : u.document # result[r][p].document
        BY <3>3
      <4>2. t.document = result[r][p].document /\ t.page = t.session
        BY <1>10, <4>1
      <4>3. ASSUME NEW u \in tabs', u.document = t.document
            PROVE  u = t
        <5>1. PICK q \in opened : u = Ready(result[r][q], q)
          BY <1>9, <1>11, <3>1, <4>1, <4>2, <4>3
        <5>2. result[r][q].document = result[r][p].document
          BY <1>10, <4>2, <4>3, <5>1
        <5>3. q = p
          BY <1>1, <1>6, <5>2 DEF ResultsAgree
        <5>4. QED
          BY <4>1, <5>1, <5>3
      <4>4. QED
        BY <4>2, <4>3
    <3>4. QED
      BY <1>9, <2>1, <3>2, <3>3
  <2>2. QED
    BY <2>1 DEF TabsConsistent
<1>15. TabsOpened'
  <2>1. \A t \in tabs' \union rendered' : t.status = "ready" =>
          \E s \in Requests : t.path \in DOMAIN result'[s]
                              /\ result'[s][t.path].document = t.document
    <3>1. ASSUME NEW t \in tabs', t.status = "ready"
          PROVE  \E s \in Requests : t.path \in DOMAIN result[s]
                                     /\ result[s][t.path].document = t.document
      <4>1. CASE t \in tabs
        BY <1>1, <3>1, <4>1 DEF TabsOpened
      <4>2. CASE \E p \in opened : t = Ready(result[r][p], p)
        BY <1>6, <1>10, <4>2
      <4>3. QED
        BY <1>9, <3>1, <4>1, <4>2
    <3>2. \A t \in rendered : t.status = "ready" =>
            \E s \in Requests : t.path \in DOMAIN result[s] /\ result[s][t.path].document = t.document
      BY <1>1 DEF TabsOpened
    <3>3. QED
      BY <1>2, <3>1, <3>2
  <2>2. \A t \in rendered' : t.status = "ready" =>
          /\ \E u \in tabs' : u.document = t.document
          /\ \A u \in tabs' : u.document = t.document => t.session <= u.session
    <3> SUFFICES ASSUME NEW t \in rendered, t.status = "ready"
                 PROVE  /\ \E u \in tabs' : u.document = t.document
                        /\ \A u \in tabs' : u.document = t.document => t.session <= u.session
      BY <1>2
    <3>1. PICK u \in tabs : u.document = t.document
      BY <1>1 DEF TabsOpened
    <3>2. u \in tabs' /\ t.document \in Documents
      BY <1>8, <1>11, <3>1
    <3>3. \A x \in tabs' : x.document = t.document => x \in tabs
      BY <1>12, <3>1, <3>2
    <3>4. QED
      BY <1>1, <3>1, <3>2, <3>3 DEF TabsOpened
  <2>3. QED
    BY <2>1, <2>2 DEF TabsOpened
<1>16. SessionsGrow'
  <2>1. ASSUME NEW d \in DOMAIN open, NEW t \in tabs', t.document = d
        PROVE  t.session <= open[d].session
    <3>1. t.status = "ready"
      BY <1>1, <1>11, <2>1 DEF BackendTypes
    <3>2. CASE t \in tabs
      BY <1>1, <2>1, <3>2 DEF SessionsGrow
    <3>3. CASE \E p \in opened : t = Ready(result[r][p], p)
      BY <1>1, <1>6, <1>10, <2>1, <3>3 DEF SessionsGrow
    <3>4. QED
      BY <1>9, <3>1, <3>2, <3>3
  <2>2. QED
    BY <1>1, <1>2, <2>1 DEF SessionsGrow, backend
<1>17. QED
  BY <1>13, <1>14, <1>15, <1>16 DEF TabsAgree

LEMMA TabClosedKeeps ==
  ASSUME SessionInvariant, PageInvariant', NEW t \in rendered, CloseTab(t)
  PROVE  TabsAgree' /\ CallsAgree'
<1>1. /\ PageInvariant /\ ResultsAgree /\ PageTypes /\ BackendTypes /\ PageTypes'
      /\ TabsConsistent /\ TabsOpened /\ SessionsGrow /\ CallsNumbered
  BY DEF SessionInvariant, PageInvariant, TypesHold, TabsAgree, CallsAgree
<1>2. /\ tabs' = {u \in tabs : ~ Same(u, t)} /\ rendered' = tabs' /\ Invalidated(t.document)
      /\ main' = IF t.status = "ready" THEN Append(main, CloseCall(t)) ELSE main
      /\ UNCHANGED <<result, backend, replies>>
  BY DEF CloseTab
<1>3. /\ \A u \in tabs \union rendered : u.status = "ready" <=> u.document \in Documents
      /\ \A u \in tabs \union rendered : u.status = "ready" => u.request = None
      /\ \A u \in tabs \union rendered : u.status # "ready" => u.request \in Requests
      /\ \A u \in tabs : u.session \in Nat
  BY <1>1, ShownTyped
<1>4. CASE t.status # "ready"
  <2>1. UNCHANGED latest
    BY <1>1, <1>2, <1>3, <1>4 DEF Invalidated, PageTypes
  <2>2. PagesStay
    BY <1>1, <1>2, <1>4, OpenLeaves
  <2>3. \A u \in tabs : u.status = "ready" => ~ Same(u, t)
    BY <1>3, <1>4, TabsAssumption DEF Same
  <2>4. QED
    BY <1>2, <2>1, <2>2, <2>3, PageStays DEF backend
<1>5. CASE t.status = "ready"
  <2> DEFINE d == t.document
  <2>1. d \in Documents
    BY <1>3, <1>5
  <2>2. \A u \in tabs : Same(u, t) <=> u.document = d
    <3> SUFFICES ASSUME NEW u \in tabs, u.document = d
                 PROVE  u.path = t.path /\ u.request = t.request
      BY DEF Same
    <3>1. u.status = "ready"
      BY <1>3, <2>1
    <3>2. PICK r \in Requests : u.path \in DOMAIN result[r] /\ result[r][u.path].document = d
      BY <1>1, <3>1 DEF TabsOpened
    <3>3. PICK s \in Requests : t.path \in DOMAIN result[s] /\ result[s][t.path].document = d
      BY <1>1, <1>5 DEF TabsOpened
    <3>4. result[r][u.path] # NotOpened
      BY <2>1, <3>2 DEF NotOpened, Documents
    <3>5. u.path = t.path
      BY <1>1, <3>2, <3>3, <3>4 DEF ResultsAgree
    <3>6. QED
      BY <1>3, <1>5, <3>1, <3>5
  <2>3. tabs' = {u \in tabs : u.document # d}
    BY <1>2, <2>2
  <2>4. PagesStay
    <3>1. CloseCall(t) \in SentCalls /\ ~ IsPage(CloseCall(t))
      BY <1>1, <1>5, CallTyped DEF PageTypes, CloseCall, Call, IsPage, PageKinds
    <3>2. /\ <<CloseCall(t)>> \in Seq(SentCalls) /\ main' = main \o <<CloseCall(t)>>
          /\ \A i \in 1 .. Len(<<CloseCall(t)>>) : ~ IsPage(<<CloseCall(t)>>[i])
      BY <1>1, <1>2, <1>5, <3>1, PagesTyped, Single
    <3>3. QED
      BY <1>1, <1>2, <3>2, OthersLeave
  <2>5. /\ \A e \in Documents : e # d => latest'[e] = latest[e]
        /\ latest'[d].page = latest[d].page + 1 /\ latest'[d].status = latest[d].status + 1
        /\ latest[d].page \in Nat /\ latest[d].status \in Nat
    BY <1>1, <1>2, <2>1 DEF Invalidated, PageTypes
  <2>6. ASSUME NEW c \in Outstanding, IsPage(c)
        PROVE  /\ c.number <= LatestOf(c)'
               /\ Newest(c)' => Newest(c) /\ c.document # d
    <3>1. c.document \in Documents /\ c.number \in Nat /\ c.number <= LatestOf(c)
      BY <1>1, <2>6, PagesTyped DEF CallsNumbered, IsPage
    <3>2. CASE c.document = d
      <4>1. LatestOf(c)' = LatestOf(c) + 1 /\ LatestOf(c) \in Nat
        BY <2>5, <3>2 DEF LatestOf
      <4>2. QED
        BY <3>1, <3>2, <4>1 DEF Newest
    <3>3. CASE c.document # d
      <4>1. LatestOf(c)' = LatestOf(c)
        BY <2>5, <3>1, <3>3 DEF LatestOf
      <4>2. QED
        BY <3>1, <3>3, <4>1 DEF Newest
    <3>4. QED
      BY <3>2, <3>3
  <2>7. CallsAgree'
    <3>1. \A c : Newest(c)' => IsPage(c)
      BY DEF Newest, IsPage
    <3>2. \A c \in Outstanding : Newest(c)' =>
           /\ Newest(c)
           /\ \A u \in tabs' : u.document = c.document => u \in tabs
           /\ \A u \in tabs : u.document = c.document => u \in tabs'
      BY <2>3, <2>6, <3>1
    <3>3. \A e \in DOMAIN open' : e \in DOMAIN open /\ open'[e] = open[e]
      BY <1>2 DEF backend
    <3>4. QED
      BY <2>4, <2>6, <3>2, <3>3, CallsStay
  <2>8. TabsConsistent'
    <3>1. ASSUME NEW u \in tabs', u.status = "ready"
          PROVE  /\ \A x \in tabs' : x.document = u.document => x = u
                 /\ \/ u.page = u.session \/ u.configuring \/ u.failed
                    \/ \E c \in Outstanding' : /\ c.kind = "read" /\ c.document = u.document
                                               /\ c.number = latest'[u.document].page
      <4>1. u \in tabs /\ u.document # d /\ u.document \in Documents
        BY <1>3, <2>3, <3>1
      <4>2. latest'[u.document] = latest[u.document]
        BY <2>5, <4>1
      <4>3. \A c \in Outstanding : c.kind = "read" => c \in Outstanding'
        BY <2>4 DEF PagesStay, IsPage, PageKinds
      <4>4. QED
        BY <1>1, <2>3, <3>1, <4>1, <4>2, <4>3 DEF TabsConsistent
    <3>2. QED
      BY <3>1 DEF TabsConsistent
  <2>9. TabsOpened'
    <3>1. ASSUME NEW u \in tabs', u.status = "ready"
          PROVE  /\ \E r \in Requests : u.path \in DOMAIN result'[r]
                                        /\ result'[r][u.path].document = u.document
                 /\ \A x \in tabs' : x.document = u.document => u.session <= x.session
      <4>1. u \in tabs /\ u.session \in Nat
        BY <1>3, <2>3
      <4>2. \A x \in tabs' : x.document = u.document => x = u
        BY <2>8, <3>1 DEF TabsConsistent
      <4>3. QED
        BY <1>1, <1>2, <3>1, <4>1, <4>2 DEF TabsOpened
    <3>2. QED
      BY <1>2, <3>1 DEF TabsOpened
  <2>10. SessionsGrow'
    BY <1>1, <1>2, <2>3 DEF SessionsGrow, backend
  <2>11. QED
    BY <2>7, <2>8, <2>9, <2>10 DEF TabsAgree
<1>6. QED
  BY <1>4, <1>5

-----------------------------------------------------------------------------
(* Sessions: page calls and their answers *)

\* Some answers are taken and at most one page call is sent.
LEMMA CallsChange ==
  ASSUME SessionInvariant, NEW new, \A c, e \in new : c = e,
         Queued(0, new), Len(main') \in Nat, replies' \subseteq replies, UNCHANGED open,
         \A e \in Outstanding' : e \in Outstanding \/ e \in new,
         \A e \in Outstanding : IsPage(e) => e.number <= LatestOf(e)',
         \A e \in Outstanding : Newest(e)' => Newest(e),
         \A u \in tabs : \E x \in tabs' : x.document = u.document,
         \A c \in new : /\ c.number <= LatestOf(c)'
                        /\ \E x \in tabs' : x.document = c.document,
         CallsFit', AnswersFit',
         \A c \in new : \A i \in 1 .. Len(main) : ~ SameTurn(c, main[i]),
         \A c \in new : \A a \in replies' : ~ SameTurn(c, a.call),
         \A c \in new : c.kind = "configure" =>
           \A e \in Outstanding : e.document = c.document => ~ (e.kind = "read" /\ Newest(e)')
  PROVE  CallsAgree'
<1>1. /\ PageInvariant /\ CallsNumbered /\ TurnsOnce /\ ConfiguresFirst
      /\ \A a \in replies : a.call \in Outstanding
      /\ Len(main) \in Nat
  BY PagesTyped DEF SessionInvariant, CallsAgree
<1>2. CallsNumbered'
  <2>1. \A e \in Outstanding : IsPage(e) /\ Newest(e) => \E u \in tabs : u.document = e.document
    BY <1>1 DEF CallsNumbered, IsPage
  <2>2. ASSUME NEW e \in Outstanding', e.kind \in PageKinds
        PROVE  /\ e.number <= LatestOf(e)'
               /\ Newest(e)' => \E x \in tabs' : x.document = e.document
    <3>1. CASE e \in Outstanding
      BY <2>1, <2>2, <3>1 DEF IsPage
    <3>2. CASE e \in new
      BY <3>2
    <3>3. QED
      BY <3>1, <3>2
  <2>3. QED
    BY <2>2 DEF CallsNumbered
<1>3. TurnsOnce'
  BY <1>1, TurnsKept
<1>4. \A a \in replies' : a.call.kind = "configure" /\ Newest(a.call)' /\ a.value # 0 =>
        (a.call.document \in DOMAIN open' => a.value <= open'[a.call.document].session)
  BY <1>1 DEF ConfiguresFirst
<1>5. ConfiguresFirst'
  BY <1>1, <1>4, ConfiguresKept
<1>6. QED
  BY <1>2, <1>3, <1>5 DEF CallsAgree

\* Every tab of a document changes in the same way and goes on showing it.
LEMMA TabsUpdated ==
  ASSUME SessionInvariant, PageInvariant', NEW d \in Documents, NEW g,
         tabs' = {IF u.document = d THEN g[u] ELSE u : u \in tabs},
         \A u \in tabs : u.document = d =>
           /\ g[u].document = d /\ g[u].path = u.path
           /\ u.session <= g[u].session
           /\ d \in DOMAIN open => g[u].session <= open[d].session,
         UNCHANGED rendered \/ rendered' = tabs',
         UNCHANGED <<open, sessions, result>>
  PROVE  /\ \A x \in tabs' : \E u \in tabs : /\ x.document = u.document
                                             /\ x = IF u.document = d THEN g[u] ELSE u
         /\ \A u \in tabs : \E x \in tabs' : x.document = u.document
         /\ \A x, y \in tabs' : x.status = "ready" /\ y.document = x.document => y = x
         /\ TabsOpened' /\ SessionsGrow'
<1>1. /\ PageTypes /\ PageTypes' /\ BackendTypes /\ TabsConsistent /\ TabsOpened /\ SessionsGrow
  BY DEF SessionInvariant, PageInvariant, TypesHold, TabsAgree
<1>2. /\ \A u \in tabs \union rendered : u.status = "ready" <=> u.document \in Documents
      /\ \A x \in tabs' : x.status = "ready" <=> x.document \in Documents
      /\ \A u \in tabs \union rendered : u.session \in Nat
      /\ \A x \in tabs' : x.session \in Nat
  BY <1>1, ShownFacts DEF PageTypes
<1>3. \A x \in tabs' : \E u \in tabs :
        /\ x.document = u.document /\ x.path = u.path /\ u.session <= x.session
        /\ x = IF u.document = d THEN g[u] ELSE u
        /\ \/ x.session <= u.session
           \/ x.document \in DOMAIN open /\ x.session <= open[x.document].session
           \/ x.document \notin DOMAIN open
  <2>1. ASSUME NEW u \in tabs, NEW x, x = IF u.document = d THEN g[u] ELSE u
        PROVE  /\ x.document = u.document /\ x.path = u.path /\ u.session <= x.session
               /\ \/ x.session <= u.session
                  \/ x.document \in DOMAIN open /\ x.session <= open[x.document].session
                  \/ x.document \notin DOMAIN open
    <3>1. u.session <= u.session
      BY <1>2
    <3>2. CASE u.document = d
      BY <2>1, <3>2
    <3>3. CASE u.document # d
      <4>1. x = u
        BY <2>1, <3>3
      <4>2. x.document = u.document /\ x.path = u.path /\ x.session = u.session
        BY <4>1
      <4>3. u.session <= x.session /\ x.session <= u.session
        BY <1>2, <4>2
      <4>4. QED
        BY <4>2, <4>3
    <3>4. QED
      BY <3>2, <3>3
  <2>2. QED
    BY <2>1
<1>4. \A u \in tabs : \E x \in tabs' : x.document = u.document
  <2> SUFFICES ASSUME NEW u \in tabs PROVE \E x \in tabs' : x.document = u.document
    OBVIOUS
  <2>1. (IF u.document = d THEN g[u] ELSE u) \in tabs'
    OBVIOUS
  <2>2. (IF u.document = d THEN g[u] ELSE u).document = u.document
    OBVIOUS
  <2>3. QED
    BY <2>1, <2>2
<1>5. \A x, y \in tabs' : x.status = "ready" /\ y.document = x.document => y = x
  <2> SUFFICES ASSUME NEW x \in tabs', NEW y \in tabs', x.status = "ready",
                      y.document = x.document
               PROVE  y = x
    OBVIOUS
  <2>1. PICK u \in tabs : x.document = u.document /\ x = IF u.document = d THEN g[u] ELSE u
    BY <1>3
  <2>2. PICK v \in tabs : y.document = v.document /\ y = IF v.document = d THEN g[v] ELSE v
    BY <1>3
  <2>3. u.status = "ready"
    BY <1>2, <2>1
  <2>4. v = u
    BY <1>1, <2>1, <2>2, <2>3 DEF TabsConsistent
  <2>5. QED
    BY <2>1, <2>2, <2>4
<1>6. TabsOpened'
  <2>1. ASSUME NEW x \in tabs', x.status = "ready"
        PROVE  \E r \in Requests : x.path \in DOMAIN result[r]
                                   /\ result[r][x.path].document = x.document
    <3>1. PICK u \in tabs : x.document = u.document /\ x.path = u.path
      BY <1>3
    <3>2. u.status = "ready"
      BY <1>2, <2>1, <3>1
    <3>3. QED
      BY <1>1, <3>1, <3>2 DEF TabsOpened
  <2>2. CASE UNCHANGED rendered
    <3>1. \A x \in rendered : x.status = "ready" =>
            \E r \in Requests : x.path \in DOMAIN result[r]
                                /\ result[r][x.path].document = x.document
      BY <1>1 DEF TabsOpened
    <3>2. ASSUME NEW t \in rendered, t.status = "ready"
          PROVE  /\ \E x \in tabs' : x.document = t.document
                 /\ \A x \in tabs' : x.document = t.document => t.session <= x.session
      <4>1. \E u \in tabs : u.document = t.document
        BY <1>1, <3>2 DEF TabsOpened
      <4>2. ASSUME NEW x \in tabs', x.document = t.document
            PROVE  t.session <= x.session
        <5>1. PICK u \in tabs : x.document = u.document /\ u.session <= x.session
          BY <1>3
        <5>2. t.session <= u.session
          BY <1>1, <3>2, <4>2, <5>1 DEF TabsOpened
        <5>3. QED
          BY <1>2, <5>1, <5>2
      <4>3. QED
        BY <1>4, <4>1, <4>2
    <3>3. QED
      BY <2>1, <2>2, <3>1, <3>2 DEF TabsOpened
  <2>3. CASE rendered' = tabs'
    <3>1. \A x, y \in tabs' : x.status = "ready" /\ y.document = x.document => x.session <= y.session
      BY <1>2, <1>5
    <3>2. QED
      BY <2>1, <2>3, <3>1 DEF TabsOpened
  <2>4. QED
    BY <2>2, <2>3
<1>7. SessionsGrow'
  <2>1. ASSUME NEW e \in DOMAIN open, NEW x \in tabs', x.document = e
        PROVE  x.session <= open[e].session
    <3>1. PICK u \in tabs :
            /\ x.document = u.document
            /\ \/ x.session <= u.session
               \/ x.document \in DOMAIN open /\ x.session <= open[x.document].session
               \/ x.document \notin DOMAIN open
      BY <1>3
    <3>2. u.session <= open[e].session /\ open[e].session \in Nat
      BY <1>1, <2>1, <3>1 DEF SessionsGrow, BackendTypes, Sessions
    <3>3. QED
      BY <1>2, <2>1, <3>1, <3>2
  <2>2. QED
    BY <1>1, <2>1 DEF SessionsGrow
<1>8. QED
  BY <1>3, <1>4, <1>5, <1>6, <1>7

\* The calls and answers when one call is sent at the end.
LEMMA CallSent ==
  ASSUME PageInvariant, NEW c \in SentCalls, main' = Append(main, c), replies' \subseteq replies
  PROVE  /\ Queued(0, {c}) /\ Len(main') \in Nat
         /\ \A e \in Outstanding' : e \in Outstanding \/ e = c
         /\ c \in Outstanding'
         /\ UNCHANGED replies => \A e \in Outstanding : e \in Outstanding'
<1>1. main \in Seq(SentCalls) /\ Len(main) \in Nat
  BY PagesTyped
<1>2. PICK s : s = <<c>>
  OBVIOUS
<1>3. /\ s \in Seq(SentCalls) /\ Len(s) = 1 /\ s[1] = c /\ main' = main \o s /\ Range(s) = {c}
  BY <1>1, <1>2, Single
<1>4. /\ main' \in Seq(SentCalls) /\ Range(main') = Range(main) \union {c}
      /\ Len(main') = Len(main) + 1
      /\ \A i \in 1 .. Len(main') : \/ i \in 1 .. Len(main) /\ main'[i] = main[i]
                                    \/ i - Len(main) \in 1 .. 1 /\ main'[i] = s[i - Len(main)]
  <2>1. /\ main \o s \in Seq(SentCalls) /\ Len(main \o s) = Len(main) + Len(s)
        /\ \A i \in 1 .. Len(main \o s) :
             \/ i \in 1 .. Len(main) /\ (main \o s)[i] = main[i]
             \/ i - Len(main) \in 1 .. Len(s) /\ (main \o s)[i] = s[i - Len(main)]
        /\ Range(main \o s) = Range(main) \union Range(s)
    <3>1. s \in Seq(SentCalls) /\ main \in Seq(SentCalls)
      BY <1>1, <1>3
    <3>2. QED
      BY <3>1, Joined
  <2>2. Len(s) = 1 /\ main' = main \o s /\ Range(s) = {c}
    BY <1>3
  <2>3. QED
    BY <2>1, <2>2
<1>5. \A i \in 1 .. Len(main') : \/ i \in 1 .. Len(main) /\ main'[i] = main[i]
                                 \/ i = Len(main) + 1 /\ main'[i] = c
  BY <1>1, <1>3, <1>4
<1>6. Queued(0, {c})
  <2>1. \A i \in 1 .. Len(main') : i + 0 = i
    BY <1>1, <1>4
  <2>2. QED
    BY <1>5, <2>1 DEF Queued
<1>7. QED
  BY <1>1, <1>4, <1>6 DEF Outstanding

\* A page is asked for: older answers for the document are not taken any more.
LEMMA PageAskedKeeps ==
  ASSUME SessionInvariant, PageInvariant', NEW t \in rendered, LoadPage(t)
  PROVE  TabsAgree' /\ CallsAgree'
<1>1. /\ PageInvariant /\ PageTypes /\ BackendTypes /\ PageTypes'
      /\ TabsConsistent /\ TabsOpened /\ CallsNumbered /\ CallsFit /\ AnswersFit
  BY DEF SessionInvariant, PageInvariant, TypesHold, TabsAgree, CallsAgree
<1>2. PICK d : d = t.document
  OBVIOUS
<1>3. PICK n : n = latest[d].page + 1
  OBVIOUS
<1>4. PICK c : c = Call("read", None, t, {}, n)
  OBVIOUS
<1>5. PICK g : g = [u \in Tabs |-> [u EXCEPT !.failed = FALSE]]
  OBVIOUS
<1>6. /\ t.status = "ready" /\ latest' = [latest EXCEPT ![d].page = n] /\ main' = Append(main, c)
      /\ tabs' = {IF u.document = d THEN g[u] ELSE u : u \in tabs} /\ rendered' = tabs'
      /\ UNCHANGED <<open, sessions, result, replies>>
  BY <1>2, <1>3, <1>4, <1>5 DEF LoadPage, Update, backend
<1>7. t \in ShownTabs /\ d \in Documents /\ t.session \in Nat
  BY <1>1, <1>2, <1>6, ShownFacts DEF PageTypes
<1>8. /\ latest'[d].page = n /\ n = latest[d].page + 1 /\ latest[d].page \in Nat /\ n \in Nat
      /\ latest'[d].status = latest[d].status
      /\ \A e \in Documents : e # d => latest'[e] = latest[e]
  BY <1>1, <1>3, <1>6, <1>7 DEF PageTypes
<1>9. c.kind = "read" /\ c.document = d /\ c.session = t.session /\ c.number = n
  BY <1>2, <1>4 DEF Call
<1>10. c \in SentCalls
  BY <1>4, <1>6, <1>7, <1>8, CallTyped
<1>11. /\ Queued(0, {c}) /\ Len(main') \in Nat /\ c \in Outstanding'
       /\ \A e \in Outstanding' : e \in Outstanding \/ e = c
       /\ \A e \in Outstanding : e \in Outstanding'
  BY <1>1, <1>6, <1>10, CallSent
<1>12. \A u \in tabs : /\ u \in ShownTabs /\ g[u].document = u.document /\ g[u].path = u.path
                       /\ g[u].session = u.session /\ g[u].configuring = u.configuring
                       /\ g[u].status = u.status
  <2>1. \A u \in tabs : u \in ShownTabs /\ u \in Tabs
    BY <1>1 DEF PageTypes, ShownTabs
  <2>2. \A u \in tabs : g[u] = [u EXCEPT !.failed = FALSE]
    BY <1>5, <2>1
  <2>3. QED
    BY <2>1, <2>2 DEF Tabs
<1>13. /\ \A x \in tabs' : \E u \in tabs : /\ x.document = u.document
                                           /\ x = IF u.document = d THEN g[u] ELSE u
       /\ \A u \in tabs : \E x \in tabs' : x.document = u.document
       /\ \A x, y \in tabs' : x.status = "ready" /\ y.document = x.document => y = x
       /\ TabsOpened' /\ SessionsGrow'
  <2>1. \A u \in tabs : u.session \in Nat
    BY <1>1, ShownTyped
  <2>2. \A u \in tabs : u.document = d /\ d \in DOMAIN open => u.session <= open[d].session
    BY DEF SessionInvariant, TabsAgree, SessionsGrow
  <2>3. \A u \in tabs : u.document = d =>
           /\ g[u].document = d /\ g[u].path = u.path
           /\ u.session <= g[u].session
           /\ d \in DOMAIN open => g[u].session <= open[d].session
    BY <1>12, <2>1, <2>2
  <2>4. QED
    BY <1>6, <1>7, <2>3, TabsUpdated
<1>14. \A x \in tabs' : \E u \in tabs :
         x.document = u.document /\ x.session = u.session /\ x.configuring = u.configuring
  BY <1>12, <1>13
<1>15. \A e \in Outstanding : IsPage(e) =>
         /\ e.number <= LatestOf(e)'
         /\ Newest(e)' => Newest(e) /\ ~ (e.kind = "read" /\ e.document = d)
  <2> SUFFICES ASSUME NEW e \in Outstanding, IsPage(e)
               PROVE  /\ e.number <= LatestOf(e)'
                      /\ Newest(e)' => Newest(e) /\ ~ (e.kind = "read" /\ e.document = d)
    OBVIOUS
  <2>1. e.document \in Documents /\ e.number \in Nat /\ e.number <= LatestOf(e)
    BY <1>1, PagesTyped DEF CallsNumbered, IsPage
  <2>2. CASE e.kind = "read" /\ e.document = d
    <3>1. LatestOf(e)' = latest[d].page + 1 /\ LatestOf(e) = latest[d].page
      BY <1>8, <2>2 DEF LatestOf
    <3>2. QED
      BY <1>8, <2>1, <2>2, <3>1 DEF Newest
  <2>3. CASE ~ (e.kind = "read" /\ e.document = d)
    <3>1. LatestOf(e)' = LatestOf(e)
      BY <1>8, <2>1, <2>3 DEF LatestOf
    <3>2. QED
      BY <2>1, <2>3, <3>1 DEF Newest
  <2>4. QED
    BY <2>2, <2>3
<1>16. LatestOf(c)' = n
  BY <1>8, <1>9 DEF LatestOf
<1>17. \A e : Newest(e)' => IsPage(e)
  BY DEF Newest, IsPage
<1>18. CallsFit'
  <2>1. ASSUME NEW e \in Outstanding', NEW x \in tabs', Newest(e)', e.document = x.document
        PROVE  /\ e.kind = "read" => e.session <= x.session
               /\ e.kind = "configure" => x.configuring
               /\ e.kind = "first_page" => e.session = x.session
    <3>1. PICK u \in tabs :
            x.document = u.document /\ x.session = u.session /\ x.configuring = u.configuring
      BY <1>14
    <3>2. CASE e \in Outstanding
      BY <1>1, <1>15, <1>17, <2>1, <3>1, <3>2 DEF CallsFit
    <3>3. CASE e = c
      <4>1. t.session <= u.session
        BY <1>1, <1>2, <1>6, <1>9, <2>1, <3>1, <3>3 DEF TabsOpened
      <4>2. QED
        BY <1>9, <3>1, <3>3, <4>1
    <3>4. QED
      BY <1>11, <3>2, <3>3
  <2>2. QED
    BY <2>1 DEF CallsFit
<1>19. AnswersFit'
  <2>1. ASSUME NEW a \in replies', NEW x \in tabs', Newest(a.call)', a.call.document = x.document,
               a.value # 0
        PROVE  IF a.call.kind = "configure" THEN x.session < a.value ELSE x.session = a.value
    <3>1. PICK u \in tabs :
            x.document = u.document /\ x.session = u.session /\ x.configuring = u.configuring
      BY <1>14
    <3>2. a \in replies /\ a.call \in Outstanding
      BY <1>1, <1>6, PagesTyped
    <3>3. Newest(a.call)
      BY <1>15, <1>17, <2>1, <3>2
    <3>4. QED
      BY <1>1, <2>1, <3>1, <3>2, <3>3 DEF AnswersFit
  <2>2. QED
    BY <2>1 DEF AnswersFit
<1>20. CallsAgree'
  <2>1. \A e \in Outstanding' : e \in Outstanding \/ e \in {c}
    BY <1>11
  <2>2. \A e \in {c} : /\ e.number <= LatestOf(e)'
                       /\ \E x \in tabs' : x.document = e.document
    <3>1. \E u \in tabs : u.document = d
      BY <1>1, <1>2, <1>6 DEF TabsOpened
    <3>2. QED
      BY <1>8, <1>9, <1>13, <1>16, <3>1
  <2>3. /\ \A e, f : SameTurn(e, f) => e.kind # "read"
        /\ \A e \in {c} : e.kind = "read"
    BY <1>9 DEF SameTurn
  <2>4. /\ \A e \in {c} : \A i \in 1 .. Len(main) : ~ SameTurn(e, main[i])
        /\ \A e \in {c} : \A a \in replies' : ~ SameTurn(e, a.call)
        /\ \A e \in {c} : e.kind = "configure" =>
             \A f \in Outstanding : f.document = e.document => ~ (f.kind = "read" /\ Newest(f)')
    BY <2>3
  <2>5. \A e \in Outstanding : Newest(e)' => Newest(e)
    BY <1>15, <1>17
  <2>6. /\ \A e, f \in {c} : e = f
        /\ replies' \subseteq replies /\ UNCHANGED open
        /\ \A e \in Outstanding : IsPage(e) => e.number <= LatestOf(e)'
    BY <1>6, <1>15
  <2>7. QED
    BY <1>11, <1>13, <1>18, <1>19, <2>1, <2>2, <2>4, <2>5, <2>6, CallsChange
<1>21. TabsConsistent'
  <2>1. ASSUME NEW x \in tabs', x.status = "ready"
        PROVE  \/ x.page = x.session \/ x.configuring \/ x.failed
               \/ \E e \in Outstanding' :
                    e.kind = "read" /\ e.document = x.document /\ e.number = latest'[x.document].page
    <3>1. CASE x.document = d
      BY <1>8, <1>9, <1>11, <3>1
    <3>2. CASE x.document # d
      <4>1. x \in tabs
        BY <1>13, <3>2
      <4>2. latest'[x.document] = latest[x.document]
        BY <1>1, <1>8, <2>1, <3>2, <4>1, ShownTyped
      <4>3. QED
        BY <1>1, <1>11, <2>1, <4>1, <4>2 DEF TabsConsistent
    <3>3. QED
      BY <3>1, <3>2
  <2>2. QED
    BY <1>13, <2>1 DEF TabsConsistent
<1>22. QED
  BY <1>13, <1>20, <1>21 DEF TabsAgree

\* A new header mode: no older answer for the document is taken any more.
LEMMA ConfigureAskedKeeps ==
  ASSUME SessionInvariant, PageInvariant', NEW t \in rendered, ConfigureCsv(t)
  PROVE  TabsAgree' /\ CallsAgree'
<1>1. /\ PageInvariant /\ PageTypes /\ BackendTypes /\ PageTypes'
      /\ TabsConsistent /\ TabsOpened /\ CallsNumbered /\ CallsFit /\ AnswersFit
  BY DEF SessionInvariant, PageInvariant, TypesHold, TabsAgree, CallsAgree
<1>2. PICK d : d = t.document
  OBVIOUS
<1>3. PICK n : n = latest[d].status + 1
  OBVIOUS
<1>4. PICK c : c = Call("configure", None, t, {}, n)
  OBVIOUS
<1>5. PICK g : g = [u \in Tabs |-> [u EXCEPT !.configuring = TRUE, !.failed = FALSE]]
  OBVIOUS
<1>6. /\ t.status = "ready" /\ Invalidated(d) /\ main' = Append(main, c)
      /\ tabs' = {IF u.document = d THEN g[u] ELSE u : u \in tabs} /\ rendered' = tabs'
      /\ UNCHANGED <<open, sessions, result, replies>>
  BY <1>2, <1>3, <1>4, <1>5 DEF ConfigureCsv, Update, backend
<1>7. t \in ShownTabs /\ d \in Documents
  BY <1>1, <1>2, <1>6, ShownFacts DEF PageTypes
<1>8. /\ latest'[d].page = latest[d].page + 1 /\ latest'[d].status = n
      /\ n = latest[d].status + 1
      /\ latest[d].page \in Nat /\ latest[d].status \in Nat /\ n \in Nat
      /\ \A e \in Documents : e # d => latest'[e] = latest[e]
  BY <1>1, <1>3, <1>6, <1>7 DEF PageTypes, Invalidated
<1>9. c.kind = "configure" /\ c.document = d /\ c.number = n
  BY <1>2, <1>4 DEF Call
<1>10. c \in SentCalls
  BY <1>4, <1>6, <1>7, <1>8, CallTyped
<1>11. /\ Queued(0, {c}) /\ Len(main') \in Nat
       /\ \A e \in Outstanding' : e \in Outstanding \/ e = c
       /\ \A e \in Outstanding : e \in Outstanding'
  BY <1>1, <1>6, <1>10, CallSent
<1>12. \A u \in tabs : /\ g[u].document = u.document /\ g[u].path = u.path
                       /\ g[u].session = u.session /\ g[u].configuring
  <2>1. \A u \in tabs : u \in Tabs
    BY <1>1 DEF PageTypes, ShownTabs
  <2>2. \A u \in tabs : g[u] = [u EXCEPT !.configuring = TRUE, !.failed = FALSE]
    BY <1>5, <2>1
  <2>3. QED
    BY <2>1, <2>2 DEF Tabs
<1>13. /\ \A x \in tabs' : \E u \in tabs : /\ x.document = u.document
                                           /\ x = IF u.document = d THEN g[u] ELSE u
       /\ \A u \in tabs : \E x \in tabs' : x.document = u.document
       /\ \A x, y \in tabs' : x.status = "ready" /\ y.document = x.document => y = x
       /\ TabsOpened' /\ SessionsGrow'
  <2>1. \A u \in tabs : u.session \in Nat
    BY <1>1, ShownTyped
  <2>2. \A u \in tabs : u.document = d /\ d \in DOMAIN open => u.session <= open[d].session
    BY DEF SessionInvariant, TabsAgree, SessionsGrow
  <2>3. \A u \in tabs : u.document = d =>
           /\ g[u].document = d /\ g[u].path = u.path
           /\ u.session <= g[u].session
           /\ d \in DOMAIN open => g[u].session <= open[d].session
    BY <1>12, <2>1, <2>2
  <2>4. QED
    BY <1>6, <1>7, <2>3, TabsUpdated
<1>14. \A x \in tabs' : IF x.document = d THEN x.configuring ELSE x \in tabs
  BY <1>12, <1>13
<1>15. \A e \in Outstanding : IsPage(e) =>
         /\ e.number <= LatestOf(e) /\ e.number <= LatestOf(e)'
         /\ Newest(e)' => Newest(e) /\ e.document # d
         /\ e.kind # "read" /\ e.document = d => e.number # n
  <2> SUFFICES ASSUME NEW e \in Outstanding, IsPage(e)
               PROVE  /\ e.number <= LatestOf(e) /\ e.number <= LatestOf(e)'
                      /\ Newest(e)' => Newest(e) /\ e.document # d
                      /\ e.kind # "read" /\ e.document = d => e.number # n
    OBVIOUS
  <2>1. e.document \in Documents /\ e.number \in Nat /\ e.number <= LatestOf(e)
    BY <1>1, PagesTyped DEF CallsNumbered, IsPage
  <2>2. CASE e.document = d
    <3>1. LatestOf(e)' = LatestOf(e) + 1 /\ LatestOf(e) \in Nat
      BY <1>8, <2>2 DEF LatestOf
    <3>2. e.kind # "read" => LatestOf(e)' = n
      BY <1>8, <2>2 DEF LatestOf
    <3>3. QED
      BY <2>1, <2>2, <3>1, <3>2 DEF Newest
  <2>3. CASE e.document # d
    <3>1. LatestOf(e)' = LatestOf(e)
      BY <1>8, <2>1, <2>3 DEF LatestOf
    <3>2. QED
      BY <2>1, <2>3, <3>1 DEF Newest
  <2>4. QED
    BY <2>2, <2>3
<1>16. LatestOf(c)' = n
  BY <1>8, <1>9 DEF LatestOf
<1>17. \A e : Newest(e)' => IsPage(e)
  BY DEF Newest, IsPage
<1>18. CallsFit'
  <2>1. ASSUME NEW e \in Outstanding', NEW x \in tabs', Newest(e)', e.document = x.document
        PROVE  /\ e.kind = "read" => e.session <= x.session
               /\ e.kind = "configure" => x.configuring
               /\ e.kind = "first_page" => e.session = x.session
    <3>1. CASE e \in Outstanding
      <4>1. Newest(e) /\ e.document # d
        BY <1>15, <1>17, <2>1, <3>1
      <4>2. x \in tabs
        BY <1>14, <2>1, <4>1
      <4>3. QED
        BY <1>1, <2>1, <3>1, <4>1, <4>2 DEF CallsFit
    <3>2. CASE e = c
      BY <1>9, <1>14, <2>1, <3>2
    <3>3. QED
      BY <1>11, <3>1, <3>2
  <2>2. QED
    BY <2>1 DEF CallsFit
<1>19. AnswersFit'
  <2>1. ASSUME NEW a \in replies', NEW x \in tabs', Newest(a.call)', a.call.document = x.document,
               a.value # 0
        PROVE  IF a.call.kind = "configure" THEN x.session < a.value ELSE x.session = a.value
    <3>1. a \in replies /\ a.call \in Outstanding
      BY <1>1, <1>6, PagesTyped
    <3>2. Newest(a.call) /\ a.call.document # d
      BY <1>15, <1>17, <2>1, <3>1
    <3>3. x \in tabs
      BY <1>14, <2>1, <3>2
    <3>4. QED
      BY <1>1, <2>1, <3>1, <3>2, <3>3 DEF AnswersFit
  <2>2. QED
    BY <2>1 DEF AnswersFit
<1>20. CallsAgree'
  <2>1. \A e \in Outstanding' : e \in Outstanding \/ e \in {c}
    BY <1>11
  <2>2. \A e \in {c} : /\ e.number <= LatestOf(e)'
                       /\ \E x \in tabs' : x.document = e.document
    <3>1. \E u \in tabs : u.document = d
      BY <1>1, <1>2, <1>6 DEF TabsOpened
    <3>2. QED
      BY <1>8, <1>9, <1>13, <1>16, <3>1
  <2>3. \A e \in Outstanding : ~ SameTurn(c, e)
    <3>1. ASSUME NEW e \in Outstanding, SameTurn(c, e)
          PROVE  FALSE
      <4>1. IsPage(e)
        BY <3>1, TurnsArePages
      <4>2. e.kind # "read" /\ e.document = d /\ e.number = n
        BY <1>9, <3>1 DEF SameTurn
      <4>3. QED
        BY <1>15, <4>1, <4>2
    <3>2. QED
      BY <3>1
  <2>4. /\ \A e \in {c} : \A i \in 1 .. Len(main) : ~ SameTurn(e, main[i])
        /\ \A e \in {c} : \A a \in replies' : ~ SameTurn(e, a.call)
    BY <1>1, <1>6, <2>3, PagesTyped
  <2>5. /\ \A e \in Outstanding : Newest(e)' => Newest(e)
        /\ \A e \in {c} : e.kind = "configure" =>
             \A f \in Outstanding : f.document = e.document => ~ (f.kind = "read" /\ Newest(f)')
    BY <1>9, <1>15, <1>17
  <2>6. /\ \A e, f \in {c} : e = f
        /\ replies' \subseteq replies /\ UNCHANGED open
        /\ \A e \in Outstanding : IsPage(e) => e.number <= LatestOf(e)'
    BY <1>6, <1>15
  <2>7. QED
    BY <1>11, <1>13, <1>18, <1>19, <2>1, <2>2, <2>4, <2>5, <2>6, CallsChange
<1>21. TabsConsistent'
  <2>1. ASSUME NEW x \in tabs', x.status = "ready"
        PROVE  \/ x.page = x.session \/ x.configuring \/ x.failed
               \/ \E e \in Outstanding' :
                    e.kind = "read" /\ e.document = x.document /\ e.number = latest'[x.document].page
    <3>1. CASE x.document = d
      BY <1>14, <3>1
    <3>2. CASE x.document # d
      <4>1. x \in tabs
        BY <1>14, <3>2
      <4>2. latest'[x.document] = latest[x.document]
        BY <1>1, <1>8, <2>1, <3>2, <4>1, ShownTyped
      <4>3. QED
        BY <1>1, <1>11, <2>1, <4>1, <4>2 DEF TabsConsistent
    <3>3. QED
      BY <3>1, <3>2
  <2>2. QED
    BY <1>13, <2>1 DEF TabsConsistent
<1>22. QED
  BY <1>13, <1>20, <1>21 DEF TabsAgree

\* When an answer is taken, no other call has its turn.
LEMMA TurnGone ==
  ASSUME PageInvariant, TurnsOnce, NEW a \in replies, replies' = replies \ {a}
  PROVE  /\ \A i \in 1 .. Len(main) : ~ SameTurn(a.call, main[i])
         /\ \A b \in replies' : ~ SameTurn(a.call, b.call)
         /\ \A e \in Range(main) \union {b.call : b \in replies'} : ~ SameTurn(a.call, e)
<1>1. \A i \in 1 .. Len(main) : ~ SameTurn(a.call, main[i])
  BY TurnsArePages DEF TurnsOnce
<1>2. \A b \in replies' : ~ SameTurn(a.call, b.call)
  BY DEF TurnsOnce
<1>3. \A e \in Range(main) : ~ SameTurn(a.call, e)
  BY <1>1, PagesTyped, LenProperties DEF Range
<1>4. QED
  BY <1>1, <1>2, <1>3

LEMMA AnswerTaken ==
  ASSUME SessionInvariant, NEW a \in replies, NEW kinds, kinds \subseteq PageKinds, Arrives(a, kinds)
  PROVE  /\ a.call.kind \in kinds /\ replies' = replies \ {a} /\ replies' \subseteq replies
         /\ UNCHANGED <<rendered, latest, result, open, sessions>>
         /\ \A c : LatestOf(c)' = LatestOf(c) /\ (Newest(c)' <=> Newest(c))
         /\ a.call \in Outstanding /\ a.call.document \in Documents /\ a.call \in SentCalls
         /\ a.value \in Nat
         /\ \A i \in 1 .. Len(main) : ~ SameTurn(a.call, main[i])
         /\ \A b \in replies' : ~ SameTurn(a.call, b.call)
         /\ \A e \in Range(main) \union {b.call : b \in replies'} : ~ SameTurn(a.call, e)
<1>1. PageInvariant /\ TurnsOnce
  BY DEF SessionInvariant, CallsAgree
<1>2. /\ a.call.kind \in kinds /\ replies' = replies \ {a}
      /\ UNCHANGED <<rendered, latest, result, open, sessions>>
  BY DEF Arrives, backend
<1>3. \A c : LatestOf(c)' = LatestOf(c) /\ (Newest(c)' <=> Newest(c))
  BY <1>2 DEF LatestOf, Newest
<1>4. /\ a.call \in Outstanding /\ a.call.document \in Documents /\ a.call \in SentCalls
      /\ a.value \in Nat
  <2>1. a.call \in Outstanding /\ a.value \in 0 .. MaxSession /\ IsPage(a.call)
    BY <1>1, <1>2, PagesTyped DEF IsPage
  <2>2. QED
    BY <1>1, <2>1, PagesTyped, TabsAssumption
<1>5. QED
  BY <1>1, <1>2, <1>3, <1>4, TurnGone

\* An answer that a newer request has overtaken.
LEMMA StaleKeeps ==
  ASSUME SessionInvariant, PageInvariant', NEW a \in replies, NEW kinds, kinds \subseteq PageKinds,
         Arrives(a, kinds), ~ Newest(a.call), UNCHANGED <<tabs, main>>
  PROVE  TabsAgree' /\ CallsAgree'
<1>1. /\ PageInvariant /\ TabsConsistent /\ TabsOpened /\ SessionsGrow
      /\ CallsNumbered /\ CallsFit /\ AnswersFit
  BY DEF SessionInvariant, TabsAgree, CallsAgree
<1>2. /\ replies' = replies \ {a} /\ replies' \subseteq replies
      /\ UNCHANGED <<rendered, latest, result, open, sessions>>
      /\ \A c : LatestOf(c)' = LatestOf(c) /\ (Newest(c)' <=> Newest(c))
  BY AnswerTaken
<1>3. /\ Outstanding' \subseteq Outstanding
      /\ \A c \in Outstanding : c # a.call => c \in Outstanding'
  BY <1>2 DEF Outstanding
<1>4. TabsConsistent'
  <2>1. \A c : c.kind = "read" /\ c.number = latest[c.document].page => Newest(c)
    BY DEF Newest, LatestOf, PageKinds
  <2>2. QED
    BY <1>1, <1>2, <1>3, <2>1 DEF TabsConsistent
<1>5. TabsOpened' /\ SessionsGrow'
  BY <1>1, <1>2 DEF TabsOpened, SessionsGrow
<1>6. CallsFit'
  BY <1>1, <1>2, <1>3 DEF CallsFit
<1>7. AnswersFit'
  BY <1>1, <1>2 DEF AnswersFit
<1>8. CallsAgree'
  <2>1. Len(main') \in Nat /\ Queued(0, {})
    <3>1. Len(main) \in Nat /\ \A i \in 1 .. Len(main) : i + 0 = i
      BY <1>1, PagesTyped
    <3>2. QED
      BY <3>1 DEF Queued
  <2>2. \A e \in Outstanding : IsPage(e) => e.number <= LatestOf(e)'
    BY <1>1, <1>2 DEF CallsNumbered, IsPage
  <2>3. /\ \A c, e \in {} : c = e
        /\ \A e \in Outstanding' : e \in Outstanding \/ e \in {}
        /\ \A e \in Outstanding : Newest(e)' => Newest(e)
        /\ \A u \in tabs : \E x \in tabs' : x.document = u.document
    BY <1>2, <1>3
  <2>4. QED
    BY <1>2, <1>6, <1>7, <2>1, <2>2, <2>3, CallsChange
<1>9. QED
  BY <1>4, <1>5, <1>8 DEF TabsAgree

\* An answer that leaves the tabs of its document with the rows of their session or
\* with an error.
LEMMA AppliedKeeps ==
  ASSUME SessionInvariant, PageInvariant', NEW a \in replies, NEW kinds, kinds \subseteq PageKinds,
         Arrives(a, kinds), Newest(a.call), UNCHANGED main, NEW g,
         tabs' = {IF u.document = a.call.document THEN g[u] ELSE u : u \in tabs},
         \A u \in tabs : u.document = a.call.document =>
           /\ g[u].document = u.document /\ g[u].path = u.path /\ g[u].session = u.session
           /\ a.call.kind = "read" => g[u].configuring = u.configuring
           /\ g[u].page = g[u].session \/ g[u].configuring \/ g[u].failed
  PROVE  TabsAgree' /\ CallsAgree'
<1>1. /\ PageInvariant /\ PageTypes /\ TabsConsistent /\ TabsOpened /\ SessionsGrow
      /\ CallsNumbered /\ CallsFit /\ AnswersFit
  BY DEF SessionInvariant, PageInvariant, TypesHold, TabsAgree, CallsAgree
<1>2. PICK d : d = a.call.document
  OBVIOUS
<1>3. /\ replies' = replies \ {a} /\ replies' \subseteq replies
      /\ UNCHANGED <<rendered, latest, result, open, sessions>>
      /\ \A c : LatestOf(c)' = LatestOf(c) /\ (Newest(c)' <=> Newest(c))
      /\ d \in Documents
      /\ a.call.kind \in PageKinds
      /\ \A e \in Range(main) \union {b.call : b \in replies'} : ~ SameTurn(a.call, e)
  BY <1>2, AnswerTaken
<1>4. /\ Outstanding' \subseteq Outstanding
      /\ \A c \in Outstanding : c # a.call => c \in Outstanding'
  BY <1>3 DEF Outstanding
<1>5. /\ \A x \in tabs' : \E u \in tabs : /\ x.document = u.document
                                          /\ x = IF u.document = d THEN g[u] ELSE u
      /\ \A u \in tabs : \E x \in tabs' : x.document = u.document
      /\ \A x, y \in tabs' : x.status = "ready" /\ y.document = x.document => y = x
      /\ TabsOpened' /\ SessionsGrow'
  <2>1. \A u \in tabs : u.session \in Nat
    BY <1>1, ShownTyped
  <2>2. \A u \in tabs : u.document = d /\ d \in DOMAIN open => u.session <= open[d].session
    BY <1>1 DEF SessionsGrow
  <2>3. \A u \in tabs : u.document = d =>
           /\ g[u].document = d /\ g[u].path = u.path
           /\ u.session <= g[u].session
           /\ d \in DOMAIN open => g[u].session <= open[d].session
    BY <1>2, <2>1, <2>2
  <2>4. tabs' = {IF u.document = d THEN g[u] ELSE u : u \in tabs} /\ UNCHANGED rendered
        /\ UNCHANGED <<open, sessions, result>>
    BY <1>2, <1>3
  <2>5. QED
    BY <1>2, <1>3, <2>3, <2>4, TabsUpdated
<1>6. \A x \in tabs' : \E u \in tabs :
        /\ x.document = u.document /\ x.session = u.session
        /\ u.document # d \/ a.call.kind = "read" => x.configuring = u.configuring
        /\ u.document # d => x = u
        /\ u.document = d => x.page = x.session \/ x.configuring \/ x.failed
  <2>1. ASSUME NEW x \in tabs'
        PROVE  \E u \in tabs :
                 /\ x.document = u.document /\ x.session = u.session
                 /\ u.document # d \/ a.call.kind = "read" => x.configuring = u.configuring
                 /\ u.document # d => x = u
                 /\ u.document = d => x.page = x.session \/ x.configuring \/ x.failed
    <3>1. PICK u \in tabs : x.document = u.document /\ x = IF u.document = d THEN g[u] ELSE u
      BY <1>5
    <3>2. CASE u.document = d
      BY <1>2, <3>1, <3>2
    <3>3. CASE u.document # d
      <4>1. x = u
        BY <3>1, <3>3
      <4>2. QED
        BY <3>3, <4>1
    <3>4. QED
      BY <3>2, <3>3
  <2>2. QED
    BY <2>1
<1>7. \A e \in Outstanding' : e.kind = "configure" /\ Newest(e) /\ e.document = d =>
        a.call.kind = "read"
  <2>1. ASSUME NEW e \in Outstanding', e.kind = "configure", Newest(e), e.document = d,
               a.call.kind # "read"
        PROVE  SameTurn(a.call, e)
    <3>1. a.call.number = latest[d].status /\ e.number = latest[d].status
      BY <1>2, <2>1 DEF Newest, LatestOf
    <3>2. QED
      BY <1>2, <1>3, <2>1, <3>1 DEF SameTurn, PageKinds
  <2>2. Outstanding' = Range(main) \union {b.call : b \in replies'}
    BY DEF Outstanding
  <2>3. QED
    BY <1>3, <2>1, <2>2
<1>8. CallsFit'
  <2>1. ASSUME NEW e \in Outstanding', NEW x \in tabs', Newest(e)', e.document = x.document
        PROVE  /\ e.kind = "read" => e.session <= x.session
               /\ e.kind = "configure" => x.configuring
               /\ e.kind = "first_page" => e.session = x.session
    <3>1. PICK u \in tabs :
            /\ x.document = u.document /\ x.session = u.session
            /\ u.document # d \/ a.call.kind = "read" => x.configuring = u.configuring
      BY <1>6
    <3>2. e \in Outstanding /\ Newest(e)
      BY <1>3, <1>4, <2>1
    <3>3. /\ e.kind = "read" => e.session <= u.session
          /\ e.kind = "configure" => u.configuring
          /\ e.kind = "first_page" => e.session = u.session
      BY <1>1, <2>1, <3>1, <3>2 DEF CallsFit
    <3>4. e.kind = "configure" => u.document # d \/ a.call.kind = "read"
      BY <1>7, <2>1, <3>1, <3>2
    <3>5. QED
      BY <3>1, <3>3, <3>4
  <2>2. QED
    BY <2>1 DEF CallsFit
<1>9. AnswersFit'
  <2>1. ASSUME NEW b \in replies', NEW x \in tabs', Newest(b.call)', b.call.document = x.document,
               b.value # 0
        PROVE  IF b.call.kind = "configure" THEN x.session < b.value ELSE x.session = b.value
    <3>1. PICK u \in tabs : x.document = u.document /\ x.session = u.session
      BY <1>6
    <3>2. b \in replies /\ Newest(b.call)
      BY <1>3, <2>1
    <3>3. QED
      BY <1>1, <2>1, <3>1, <3>2 DEF AnswersFit
  <2>2. QED
    BY <2>1 DEF AnswersFit
<1>10. CallsAgree'
  <2>1. Len(main') \in Nat /\ Queued(0, {})
    <3>1. Len(main) \in Nat /\ \A i \in 1 .. Len(main) : i + 0 = i
      BY <1>1, PagesTyped
    <3>2. QED
      BY <3>1 DEF Queued
  <2>2. \A e \in Outstanding : IsPage(e) => e.number <= LatestOf(e)'
    BY <1>1, <1>3 DEF CallsNumbered, IsPage
  <2>3. /\ \A c, e \in {} : c = e
        /\ \A e \in Outstanding' : e \in Outstanding \/ e \in {}
        /\ \A e \in Outstanding : Newest(e)' => Newest(e)
    BY <1>3, <1>4
  <2>4. QED
    BY <1>3, <1>5, <1>8, <1>9, <2>1, <2>2, <2>3, CallsChange
<1>11. TabsConsistent'
  <2>1. ASSUME NEW x \in tabs', x.status = "ready"
        PROVE  \/ x.page = x.session \/ x.configuring \/ x.failed
               \/ \E e \in Outstanding' :
                    e.kind = "read" /\ e.document = x.document /\ e.number = latest'[x.document].page
    <3>1. CASE x.document = d
      BY <1>6, <3>1
    <3>2. CASE x.document # d
      <4>1. x \in tabs
        BY <1>6, <3>2
      <4>2. QED
        BY <1>1, <1>2, <1>3, <1>4, <2>1, <3>2, <4>1 DEF TabsConsistent
    <3>3. QED
      BY <3>1, <3>2
  <2>2. QED
    BY <1>5, <2>1 DEF TabsConsistent
<1>12. QED
  BY <1>5, <1>10, <1>11 DEF TabsAgree

LEMMA PageArrivedKeeps ==
  ASSUME SessionInvariant, PageInvariant', NEW a \in replies, PageArrives(a)
  PROVE  TabsAgree' /\ CallsAgree'
<1>1. /\ PageTypes /\ AnswersFit
  BY DEF SessionInvariant, PageInvariant, TypesHold, CallsAgree
<1>2. Arrives(a, {"read"}) /\ UNCHANGED main /\ a.call.kind = "read" /\ {"read"} \subseteq PageKinds
  BY DEF PageArrives, Arrives, PageKinds
<1>3. Newest(a.call) <=> latest[a.call.document].page = a.call.number
  BY <1>2 DEF Newest, LatestOf, PageKinds
<1>4. CASE ~ Newest(a.call)
  <2>1. UNCHANGED <<tabs, main>>
    BY <1>2, <1>3, <1>4 DEF PageArrives
  <2>2. QED
    BY <1>2, <1>4, <2>1, StaleKeeps
<1>5. CASE Newest(a.call)
  <2>1. PICK g : g = [t \in Tabs |-> IF a.value = 0 THEN Failure(t) ELSE [t EXCEPT !.page = a.value]]
    OBVIOUS
  <2>2. tabs' = {IF u.document = a.call.document THEN g[u] ELSE u : u \in tabs}
    BY <1>3, <1>5, <2>1 DEF PageArrives, Update
  <2>3. ASSUME NEW u \in tabs, u.document = a.call.document
        PROVE  /\ g[u].document = u.document /\ g[u].path = u.path /\ g[u].session = u.session
               /\ g[u].configuring = u.configuring
               /\ g[u].page = g[u].session \/ g[u].failed
    <3>1. u \in Tabs
      BY <1>1 DEF PageTypes, ShownTabs
    <3>2. CASE a.value = 0
      <4>1. g[u] = [u EXCEPT !.failed = TRUE]
        BY <2>1, <3>1, <3>2 DEF Failure
      <4>2. QED
        BY <3>1, <4>1 DEF Tabs
    <3>3. CASE a.value # 0
      <4>1. g[u] = [u EXCEPT !.page = a.value]
        BY <2>1, <3>1, <3>3
      <4>2. u.session = a.value
        BY <1>1, <1>2, <1>5, <2>3, <3>3 DEF AnswersFit
      <4>3. QED
        BY <3>1, <4>1, <4>2 DEF Tabs
    <3>4. QED
      BY <3>2, <3>3
  <2>4. QED
    BY <1>2, <1>5, <2>2, <2>3, AppliedKeeps
<1>6. QED
  BY <1>4, <1>5

LEMMA FirstPageKeeps ==
  ASSUME SessionInvariant, PageInvariant', NEW a \in replies, FirstPageArrives(a)
  PROVE  TabsAgree' /\ CallsAgree'
<1>1. /\ PageTypes /\ AnswersFit
  BY DEF SessionInvariant, PageInvariant, TypesHold, CallsAgree
<1>2. /\ Arrives(a, {"first_page"}) /\ UNCHANGED main /\ a.call.kind = "first_page"
      /\ {"first_page"} \subseteq PageKinds
  BY DEF FirstPageArrives, Arrives, PageKinds
<1>3. Newest(a.call) <=> latest[a.call.document].status = a.call.number
  BY <1>2 DEF Newest, LatestOf, PageKinds
<1>4. CASE ~ Newest(a.call)
  <2>1. UNCHANGED <<tabs, main>>
    BY <1>2, <1>3, <1>4 DEF FirstPageArrives
  <2>2. QED
    BY <1>2, <1>4, <2>1, StaleKeeps
<1>5. CASE Newest(a.call)
  <2>1. PICK g : g = [t \in Tabs |->
                        Configured(IF a.value = 0 THEN Failure(t)
                                   ELSE [t EXCEPT !.session = a.value, !.page = a.value])]
    OBVIOUS
  <2>2. tabs' = {IF u.document = a.call.document THEN g[u] ELSE u : u \in tabs}
    BY <1>3, <1>5, <2>1 DEF FirstPageArrives, Update
  <2>3. ASSUME NEW u \in tabs, u.document = a.call.document
        PROVE  /\ g[u].document = u.document /\ g[u].path = u.path /\ g[u].session = u.session
               /\ g[u].page = g[u].session \/ g[u].failed
    <3>1. u \in Tabs
      BY <1>1 DEF PageTypes, ShownTabs
    <3>2. CASE a.value = 0
      <4>1. g[u] = Configured(Failure(u))
        BY <2>1, <3>1, <3>2
      <4>2. QED
        BY <3>1, <4>1 DEF Tabs, Configured, Failure
    <3>3. CASE a.value # 0
      <4>1. g[u] = Configured([u EXCEPT !.session = a.value, !.page = a.value])
        BY <2>1, <3>1, <3>3
      <4>2. u.session = a.value
        BY <1>1, <1>2, <1>5, <2>3, <3>3 DEF AnswersFit
      <4>3. QED
        BY <3>1, <4>1, <4>2 DEF Tabs, Configured
    <3>4. QED
      BY <3>2, <3>3
  <2>4. QED
    BY <1>2, <1>5, <2>2, <2>3, AppliedKeeps
<1>6. QED
  BY <1>4, <1>5

\* The new session: its first page is asked for in the same turn.
LEMMA SessionTaken ==
  ASSUME SessionInvariant, PageInvariant', NEW a \in replies, Arrives(a, {"configure"}),
         Newest(a.call), a.value # 0, NEW g,
         \A u \in tabs : /\ g[u].document = u.document /\ g[u].path = u.path
                         /\ g[u].session = a.value /\ g[u].configuring = u.configuring,
         tabs' = {IF u.document = a.call.document THEN g[u] ELSE u : u \in tabs},
         NEW c \in SentCalls, c.kind = "first_page", c.document = a.call.document,
         c.session = a.value, c.number = a.call.number, main' = Append(main, c)
  PROVE  TabsAgree' /\ CallsAgree'
<1>1. /\ PageInvariant /\ PageTypes /\ BackendTypes /\ CallTypes
      /\ TabsConsistent /\ TabsOpened /\ SessionsGrow
      /\ CallsNumbered /\ CallsFit /\ AnswersFit /\ ConfiguresFirst
  BY DEF SessionInvariant, PageInvariant, TypesHold, TabsAgree, CallsAgree
<1>2. PICK d : d = a.call.document
  OBVIOUS
<1>3. /\ replies' = replies \ {a} /\ replies' \subseteq replies
      /\ UNCHANGED <<rendered, latest, result, open, sessions>>
      /\ \A e : LatestOf(e)' = LatestOf(e) /\ (Newest(e)' <=> Newest(e))
      /\ d \in Documents /\ a.call.kind = "configure"
      /\ a.call \in Outstanding /\ a.value \in Nat
      /\ \A i \in 1 .. Len(main) : ~ SameTurn(a.call, main[i])
      /\ \A b \in replies' : ~ SameTurn(a.call, b.call)
      /\ \A e \in Range(main) \union {b.call : b \in replies'} : ~ SameTurn(a.call, e)
  BY <1>2, AnswerTaken DEF PageKinds
<1>4. a.call.number = latest[d].status
  BY <1>2, <1>3 DEF Newest, LatestOf
<1>5. /\ c.kind = "first_page" /\ c.document = d /\ c.session = a.value
      /\ c.number = a.call.number
  BY <1>2
<1>7. /\ Queued(0, {c}) /\ Len(main') \in Nat
      /\ \A e \in Outstanding' : e \in Outstanding \/ e = c
  BY <1>1, <1>3, CallSent
\* What is left of the calls for the document after this answer.
<1>8. /\ \A e \in Outstanding' : \/ e = c
                                 \/ e \in Outstanding /\ ~ SameTurn(a.call, e)
      /\ \A e \in Outstanding : e # a.call => e \in Outstanding'
  <2>1. Range(main') = Range(main) \union {c}
    <3>1. PICK s : s = <<c>>
      OBVIOUS
    <3>2. s \in Seq(SentCalls) /\ main' = main \o s /\ Range(s) = {c} /\ main \in Seq(SentCalls)
      BY <1>1, <3>1, Single DEF CallTypes
    <3>3. Range(main \o s) = Range(main) \union Range(s)
      <4>1. s \in Seq(SentCalls) /\ main \in Seq(SentCalls)
        BY <3>2
      <4>2. QED
        BY <4>1, Joined
    <3>4. QED
      BY <3>2, <3>3
  <2>2. QED
    BY <1>3, <2>1 DEF Outstanding
<1>9. \A e : e.kind \in {"configure", "first_page"} /\ Newest(e) /\ e.document = d =>
        SameTurn(a.call, e)
  BY <1>2, <1>3, <1>4 DEF Newest, LatestOf, SameTurn
<1>10. \A e : SameTurn(c, e) => SameTurn(a.call, e)
  BY <1>2, <1>3, <1>5 DEF SameTurn
<1>11. \A u \in tabs : u.document = d =>
         /\ g[u].document = d /\ g[u].path = u.path /\ g[u].session = a.value
         /\ g[u].configuring /\ u.session < a.value
  <2> SUFFICES ASSUME NEW u \in tabs, u.document = d
               PROVE  /\ g[u].document = d /\ g[u].path = u.path /\ g[u].session = a.value
                      /\ g[u].configuring /\ u.session < a.value
    OBVIOUS
  <2>1. u.configuring
    BY <1>1, <1>2, <1>3 DEF CallsFit
  <2>2. u.session < a.value
    BY <1>1, <1>2, <1>3 DEF AnswersFit
  <2>3. QED
    BY <2>1, <2>2
<1>12. /\ \A x \in tabs' : \E u \in tabs : /\ x.document = u.document
                                           /\ x = IF u.document = d THEN g[u] ELSE u
       /\ \A u \in tabs : \E x \in tabs' : x.document = u.document
       /\ \A x, y \in tabs' : x.status = "ready" /\ y.document = x.document => y = x
       /\ TabsOpened' /\ SessionsGrow'
  <2>1. \A u \in tabs : u.session \in Nat
    BY <1>1, ShownTyped
  <2>2. d \in DOMAIN open => a.value <= open[d].session
    BY <1>1, <1>2, <1>3 DEF ConfiguresFirst
  <2>3. \A u \in tabs : u.document = d =>
           /\ g[u].document = d /\ g[u].path = u.path
           /\ u.session <= g[u].session
           /\ d \in DOMAIN open => g[u].session <= open[d].session
    BY <1>3, <1>11, <2>1, <2>2
  <2>4. tabs' = {IF u.document = d THEN g[u] ELSE u : u \in tabs} /\ UNCHANGED rendered
        /\ UNCHANGED <<open, sessions, result>>
    BY <1>2, <1>3
  <2>5. QED
    BY <1>3, <2>3, <2>4, TabsUpdated
<1>13. \A x \in tabs' : IF x.document = d THEN x.session = a.value /\ x.configuring ELSE x \in tabs
  BY <1>11, <1>12
<1>14. \A e \in Outstanding' : Newest(e) /\ e.document = d =>
         e = c \/ (e \in Outstanding /\ e.kind = "read")
  BY <1>8, <1>9 DEF Newest, PageKinds
<1>15. CallsFit'
  <2>1. ASSUME NEW e \in Outstanding', NEW x \in tabs', Newest(e)', e.document = x.document
        PROVE  /\ e.kind = "read" => e.session <= x.session
               /\ e.kind = "configure" => x.configuring
               /\ e.kind = "first_page" => e.session = x.session
    <3>1. Newest(e)
      BY <1>3, <2>1
    <3>2. CASE x.document = d
      <4>1. x.session = a.value /\ x.configuring
        BY <1>13, <3>2
      <4>2. CASE e = c
        BY <1>5, <4>1, <4>2
      <4>3. CASE e \in Outstanding /\ e.kind = "read"
        <5>1. PICK u \in tabs : u.document = d
          BY <1>12, <3>2
        <5>2. e.session <= u.session /\ u.session < a.value
          BY <1>1, <1>11, <2>1, <3>1, <3>2, <4>3, <5>1 DEF CallsFit
        <5>3. e.session \in Nat /\ u.session \in Nat
          <6>1. e.session \in Sessions
            BY <1>1, <4>3, PagesTyped DEF IsPage, PageKinds
          <6>2. QED
            BY <1>1, <6>1, ShownTyped DEF Sessions
        <5>4. QED
          BY <1>3, <4>1, <4>3, <5>2, <5>3
      <4>4. QED
        BY <1>14, <2>1, <3>1, <3>2, <4>2, <4>3
    <3>3. CASE x.document # d
      <4>1. x \in tabs /\ e \in Outstanding
        BY <1>5, <1>7, <1>13, <2>1, <3>3
      <4>2. QED
        BY <1>1, <2>1, <3>1, <4>1 DEF CallsFit
    <3>4. QED
      BY <3>2, <3>3
  <2>2. QED
    BY <2>1 DEF CallsFit
<1>16. AnswersFit'
  <2>1. ASSUME NEW b \in replies', NEW x \in tabs', Newest(b.call)', b.call.document = x.document,
               b.value # 0
        PROVE  IF b.call.kind = "configure" THEN x.session < b.value ELSE x.session = b.value
    <3>1. Newest(b.call) /\ b \in replies /\ ~ SameTurn(a.call, b.call)
      BY <1>3, <2>1
    <3>2. b.call.document # d
      <4>1. SUFFICES ASSUME b.call.document = d PROVE FALSE
        OBVIOUS
      <4>2. b.call.kind = "read"
        BY <1>9, <3>1, <4>1 DEF Newest, PageKinds
      <4>3. QED
        BY <1>1, <1>2, <1>3, <2>1, <3>1, <4>1, <4>2 DEF ConfiguresFirst
    <3>3. x \in tabs
      BY <1>13, <2>1, <3>2
    <3>4. QED
      BY <1>1, <2>1, <3>1, <3>3 DEF AnswersFit
  <2>2. QED
    BY <2>1 DEF AnswersFit
<1>17. CallsAgree'
  <2>1. \A e \in {c} : /\ e.number <= LatestOf(e)'
                       /\ \E x \in tabs' : x.document = e.document
    <3>1. \E u \in tabs : u.document = d
      BY <1>1, <1>2, <1>3 DEF CallsNumbered, PageKinds
    <3>2. LatestOf(c)' = latest[d].status /\ latest[d].status \in Nat
      BY <1>1, <1>3, <1>5 DEF LatestOf, PageTypes
    <3>3. c.number <= LatestOf(c)'
      BY <1>4, <1>5, <3>2
    <3>4. QED
      BY <1>5, <1>12, <3>1, <3>3
  <2>2. /\ \A e \in {c} : \A i \in 1 .. Len(main) : ~ SameTurn(e, main[i])
        /\ \A e \in {c} : \A b \in replies' : ~ SameTurn(e, b.call)
    BY <1>3, <1>10
  <2>3. /\ \A e \in Outstanding : Newest(e)' => Newest(e)
        /\ \A e \in {c} : e.kind = "configure" =>
             \A f \in Outstanding : f.document = e.document => ~ (f.kind = "read" /\ Newest(f)')
    BY <1>3, <1>5
  <2>4. /\ \A e, f \in {c} : e = f
        /\ \A e \in Outstanding' : e \in Outstanding \/ e \in {c}
    BY <1>7
  <2>5. \A e \in Outstanding : IsPage(e) => e.number <= LatestOf(e)'
    BY <1>1, <1>3 DEF CallsNumbered, IsPage
  <2>6. QED
    BY <1>3, <1>7, <1>12, <1>15, <1>16, <2>1, <2>2, <2>3, <2>4, <2>5, CallsChange
<1>18. TabsConsistent'
  <2>1. ASSUME NEW x \in tabs', x.status = "ready"
        PROVE  \/ x.page = x.session \/ x.configuring \/ x.failed
               \/ \E e \in Outstanding' :
                    e.kind = "read" /\ e.document = x.document /\ e.number = latest'[x.document].page
    <3>1. CASE x.document = d
      BY <1>13, <3>1
    <3>2. CASE x.document # d
      <4>1. x \in tabs
        BY <1>13, <3>2
      <4>2. QED
        BY <1>1, <1>3, <1>8, <2>1, <4>1 DEF TabsConsistent
    <3>3. QED
      BY <3>1, <3>2
  <2>2. QED
    BY <1>12, <2>1 DEF TabsConsistent
<1>19. QED
  BY <1>12, <1>17, <1>18 DEF TabsAgree

LEMMA ConfigureArrivedKeeps ==
  ASSUME SessionInvariant, PageInvariant', NEW a \in replies, ConfigureArrives(a)
  PROVE  TabsAgree' /\ CallsAgree'
<1>1. PageTypes /\ CallTypes
  BY DEF SessionInvariant, PageInvariant, TypesHold
<1>2. Arrives(a, {"configure"}) /\ a.call.kind = "configure" /\ {"configure"} \subseteq PageKinds
  BY DEF ConfigureArrives, Arrives, PageKinds
<1>3. Newest(a.call) <=> latest[a.call.document].status = a.call.number
  BY <1>2 DEF Newest, LatestOf, PageKinds
<1>4. CASE ~ Newest(a.call)
  <2>1. UNCHANGED <<tabs, main>>
    BY <1>3, <1>4 DEF ConfigureArrives
  <2>2. QED
    BY <1>2, <1>4, <2>1, StaleKeeps
<1>5. CASE Newest(a.call) /\ a.value = 0
  <2>1. PICK g : g = [t \in Tabs |-> Failure(Configured(t))]
    OBVIOUS
  <2>2. /\ tabs' = {IF u.document = a.call.document THEN g[u] ELSE u : u \in tabs}
        /\ UNCHANGED main
    BY <1>3, <1>5, <2>1 DEF ConfigureArrives, Update
  <2>3. ASSUME NEW u \in tabs
        PROVE  /\ g[u].document = u.document /\ g[u].path = u.path /\ g[u].session = u.session
               /\ g[u].failed
    <3>1. u \in Tabs
      BY <1>1 DEF PageTypes, ShownTabs
    <3>2. g[u] = Failure(Configured(u))
      BY <2>1, <3>1
    <3>3. QED
      BY <3>1, <3>2 DEF Tabs, Failure, Configured
  <2>4. QED
    BY <1>2, <1>5, <2>2, <2>3, AppliedKeeps
<1>6. CASE Newest(a.call) /\ a.value # 0
  <2>1. PICK g : g = [t \in Tabs |-> [t EXCEPT !.session = a.value]]
    OBVIOUS
  <2>2. PICK o : o = [document |-> a.call.document, session |-> a.value]
    OBVIOUS
  <2>3. PICK c : c = Call("first_page", None, o, {}, a.call.number)
    OBVIOUS
  <2>4. /\ tabs' = {IF u.document = a.call.document THEN g[u] ELSE u : u \in tabs}
        /\ main' = Append(main, c)
    BY <1>3, <1>6, <2>1, <2>2, <2>3 DEF ConfigureArrives, Update
  <2>5. /\ c.kind = "first_page" /\ c.document = a.call.document /\ c.session = a.value
        /\ c.number = a.call.number
    BY <2>2, <2>3 DEF Call
  <2>6. c \in SentCalls
    <3>1. a.call.number \in Nat /\ a.value \in Sessions /\ a.call.document \in Documents
      BY <1>1, <1>2, <1>6, ArrivalTyped DEF SettledKinds
    <3>2. o \in Opened
      BY <2>2, <3>1 DEF Opened
    <3>3. QED
      BY <2>3, <3>1, <3>2, CallTyped
  <2>7. \A u \in tabs : /\ g[u].document = u.document /\ g[u].path = u.path
                        /\ g[u].session = a.value /\ g[u].configuring = u.configuring
    <3> SUFFICES ASSUME NEW u \in tabs
                 PROVE  /\ g[u].document = u.document /\ g[u].path = u.path
                        /\ g[u].session = a.value /\ g[u].configuring = u.configuring
      OBVIOUS
    <3>1. u \in Tabs
      BY <1>1 DEF PageTypes, ShownTabs
    <3>2. g[u] = [u EXCEPT !.session = a.value]
      BY <2>1, <3>1
    <3>3. QED
      BY <3>1, <3>2 DEF Tabs
  <2>8. QED
    BY <1>2, <1>6, <2>4, <2>5, <2>6, <2>7, SessionTaken
<1>7. QED
  BY <1>4, <1>5, <1>6

-----------------------------------------------------------------------------
(* The invariant of the sessions *)

LEMMA SessionTurnKeeps == SessionInvariant /\ Next => SessionInvariant'
<1> SUFFICES ASSUME SessionInvariant, Next PROVE SessionInvariant'
  OBVIOUS
<1>1. PageInvariant'
  BY TurnKeeps DEF SessionInvariant
<1>2. ASSUME NEW r \in Requests, OpenPaths(r) \/ OpenFile(r)
      PROVE  TabsAgree' /\ CallsAgree'
  BY <1>1, <1>2, OpensPathsKeeps, OpensFileKeeps
<1>3. ASSUME NEW t \in rendered, ClosePending(t) \/ CloseTab(t)
      PROVE  TabsAgree' /\ CallsAgree'
  BY <1>1, <1>3, PendingClosedKeeps, TabClosedKeeps
<1>4. ASSUME NEW t \in rendered, LoadPage(t) \/ ConfigureCsv(t)
      PROVE  TabsAgree' /\ CallsAgree'
  BY <1>1, <1>4, PageAskedKeeps, ConfigureAskedKeeps
<1>5. ASSUME NEW r \in Requests, ServeItem(r) \/ ServeRejection(r)
      PROVE  TabsAgree' /\ CallsAgree'
  BY <1>1, <1>5, ItemKeeps, RejectionKeeps
<1>6. ASSUME Execute
      PROVE  TabsAgree' /\ CallsAgree'
  BY <1>1, <1>6, CommandKeepsSessions
<1>7. ASSUME NEW r \in Requests, ApplyOpenResponse(r) \/ FailOpen(r)
      PROVE  TabsAgree' /\ CallsAgree'
  BY <1>1, <1>7, ResponseKeeps, OpenFailsKeeps
<1>8. ASSUME NEW a \in replies, Settle(a) \/ PageArrives(a)
      PROVE  TabsAgree' /\ CallsAgree'
  BY <1>1, <1>8, SettledKeeps, PageArrivedKeeps
<1>9. ASSUME NEW a \in replies, ConfigureArrives(a) \/ FirstPageArrives(a)
      PROVE  TabsAgree' /\ CallsAgree'
  BY <1>1, <1>9, ConfigureArrivedKeeps, FirstPageKeeps
<1>10. ASSUME Render
       PROVE  TabsAgree' /\ CallsAgree'
  BY <1>1, <1>10, RenderedKeeps
<1>11. TabsAgree' /\ CallsAgree'
  BY <1>2, <1>3, <1>4, <1>5, <1>6, <1>7, <1>8, <1>9, <1>10 DEF Next, User, Serve, Answer
<1>12. QED
  BY <1>1, <1>11 DEF SessionInvariant

LEMMA SessionStutterKeeps == SessionInvariant /\ UNCHANGED vars => SessionInvariant'
<1> SUFFICES ASSUME SessionInvariant, UNCHANGED vars PROVE SessionInvariant'
  OBVIOUS
<1>1. UNCHANGED <<tabs, rendered, latest, result, open, sessions, main, replies>>
  BY DEF vars, page, backend
<1>2. /\ Outstanding' = Outstanding
      /\ \A c : LatestOf(c)' = LatestOf(c) /\ (Newest(c)' <=> Newest(c))
  BY <1>1 DEF Outstanding, LatestOf, Newest
<1>3. PageInvariant'
  BY StutterKeeps DEF SessionInvariant
<1>4. TabsAgree'
  BY <1>1, <1>2 DEF SessionInvariant, TabsAgree, TabsConsistent, TabsOpened, SessionsGrow
<1>5. CallsNumbered' /\ CallsFit' /\ AnswersFit'
  BY <1>1, <1>2 DEF SessionInvariant, CallsAgree, CallsNumbered, CallsFit, AnswersFit
<1>6. TurnsOnce'
  BY <1>1 DEF SessionInvariant, CallsAgree, TurnsOnce
<1>7. ConfiguresFirst'
  BY <1>1, <1>2 DEF SessionInvariant, CallsAgree, ConfiguresFirst
<1>8. QED
  BY <1>3, <1>4, <1>5, <1>6, <1>7 DEF SessionInvariant, CallsAgree

LEMMA SessionInitially == Init => SessionInvariant
<1> SUFFICES ASSUME Init PROVE SessionInvariant
  OBVIOUS
<1>1. PageInvariant
  BY PageInitially
<1>2. tabs = {} /\ rendered = {} /\ replies = {} /\ main = <<>> /\ DOMAIN open = {}
  BY DEF Init, Registry!Init
<1>3. Outstanding = {} /\ 1 .. Len(main) = {}
  <2>1. Range(main) = {} /\ Len(main) = 0
    BY <1>2 DEF Range
  <2>2. QED
    BY <1>2, <2>1 DEF Outstanding
<1>4. TabsAgree
  BY <1>2 DEF TabsAgree, TabsConsistent, TabsOpened, SessionsGrow
<1>5. CallsAgree
  BY <1>2, <1>3
     DEF CallsAgree, CallsNumbered, TurnsOnce, CallsFit, AnswersFit, ConfiguresFirst
<1>6. QED
  BY <1>1, <1>4, <1>5 DEF SessionInvariant

LEMMA SessionInvariantAlways == Spec => []SessionInvariant
<1>1. SessionInvariant /\ [Next]_vars => SessionInvariant'
  BY SessionTurnKeeps, SessionStutterKeeps
<1>2. QED
  BY <1>1, SessionInitially, PTL DEF Spec

-----------------------------------------------------------------------------
(* Documents: calls that are sent *)

\* The calls of as are sent and some answers are taken.
Grows(as) ==
  /\ Len(main) \in Nat /\ Len(main') \in Nat /\ Len(main) <= Len(main')
  /\ \A i \in 1 .. Len(main) : i \in 1 .. Len(main') /\ main'[i] = main[i]
  /\ \A i \in 1 .. Len(main') : i \in 1 .. Len(main) \/ main'[i] \in as
  /\ \A c \in as : \E i \in 1 .. Len(main') : main'[i] = c
  /\ \A c \in Outstanding' : c \in Outstanding \/ c \in as
  /\ replies' \subseteq replies

LEMMA GrowsBy ==
  ASSUME PageInvariant, NEW s \in Seq(SentCalls), main' = main \o s, replies' \subseteq replies
  PROVE  Grows(Range(s))
<1>1. main \in Seq(SentCalls) /\ Len(main) \in Nat /\ Len(s) \in Nat
      /\ DOMAIN s = 1 .. Len(s) /\ DOMAIN main = 1 .. Len(main)
  BY PagesTyped, LenProperties
<1>2. /\ main' \in Seq(SentCalls) /\ Len(main') = Len(main) + Len(s)
      /\ \A i \in 1 .. Len(main') : \/ i \in 1 .. Len(main) /\ main'[i] = main[i]
                                    \/ /\ i - Len(main) \in 1 .. Len(s)
                                       /\ main'[i] = s[i - Len(main)]
      /\ Range(main') = Range(main) \union Range(s)
  <2>1. /\ main \o s \in Seq(SentCalls) /\ Len(main \o s) = Len(main) + Len(s)
        /\ \A i \in 1 .. Len(main \o s) :
             \/ i \in 1 .. Len(main) /\ (main \o s)[i] = main[i]
             \/ i - Len(main) \in 1 .. Len(s) /\ (main \o s)[i] = s[i - Len(main)]
        /\ Range(main \o s) = Range(main) \union Range(s)
    BY <1>1, Joined
  <2>2. QED
    BY <2>1
<1>3. /\ Len(main') \in Nat /\ Len(main) <= Len(main')
      /\ \A i \in 1 .. Len(main) : i \in 1 .. Len(main') /\ main'[i] = main[i]
  <2>1. \A i \in 1 .. Len(main) : i \in 1 .. Len(main') /\ ~ (i - Len(main) \in 1 .. Len(s))
    BY <1>1, <1>2
  <2>2. QED
    BY <1>1, <1>2, <2>1
<1>4. \A i \in 1 .. Len(main') : i \in 1 .. Len(main) \/ main'[i] \in Range(s)
  BY <1>1, <1>2 DEF Range
<1>5. ASSUME NEW c \in Range(s)
      PROVE  \E i \in 1 .. Len(main') : main'[i] = c
  <2>1. c \in Range(main') /\ DOMAIN main' = 1 .. Len(main')
    BY <1>2, LenProperties
  <2>2. QED
    BY <2>1 DEF Range
<1>6. \A c \in Outstanding' : c \in Outstanding \/ c \in Range(s)
  BY <1>2 DEF Outstanding
<1>7. QED
  BY <1>1, <1>3, <1>4, <1>5, <1>6 DEF Grows

LEMMA GrowsOne ==
  ASSUME PageInvariant, NEW c \in SentCalls, main' = Append(main, c), replies' \subseteq replies
  PROVE  Grows({c}) /\ Len(main') = Len(main) + 1 /\ main'[Len(main) + 1] = c
<1>1. PICK s : s = <<c>>
  OBVIOUS
<1>2. main \in Seq(SentCalls) /\ Len(main) \in Nat
  BY PagesTyped
<1>3. s \in Seq(SentCalls) /\ main' = main \o s /\ Range(s) = {c}
  BY <1>1, <1>2, Single
<1>4. Len(main') = Len(main) + 1 /\ main'[Len(main) + 1] = c
  BY <1>2
<1>5. QED
  BY <1>3, <1>4, GrowsBy

LEMMA GrowsNone ==
  ASSUME PageInvariant, UNCHANGED main, replies' \subseteq replies
  PROVE  Grows({})
<1>1. main \in Seq(SentCalls) /\ Len(main) \in Nat
  BY PagesTyped
<1>2. \A c \in Outstanding' : c \in Outstanding
  BY DEF Outstanding
<1>3. QED
  BY <1>1, <1>2 DEF Grows

LEMMA KnownKept ==
  ASSUME sessions \in Nat, sessions' \in Nat, sessions <= sessions',
         DOMAIN open \union closed \subseteq DOMAIN open' \union closed'
  PROVE  \A o : Known(o) /\ o.session \in Nat => Known(o)'
BY DEF Known

LEMMA KnownStays ==
  ASSUME UNCHANGED backend
  PROVE  /\ \A o : Known(o) <=> Known(o)'
         /\ \A d : Closable(d)' = Closable(d) /\ open'[d] = open[d]
         /\ UNCHANGED <<open, closed, sessions>>
BY DEF backend, Known, Closable

\* What the page knows after a step of its own.
LEMMA NothingNewerStays ==
  ASSUME NothingNewer, NEW as, Grows(as), UNCHANGED <<backend, result>>,
         \A t \in tabs' \union rendered' : t.status = "ready" => Known(t),
         \A c \in as : c.kind \notin {"open", "cancel"} => Known(c)
  PROVE  NothingNewer'
<1>1. \A o : Known(o) <=> Known(o)'
  BY KnownStays
<1>2. /\ \A c \in Outstanding' : c \in Outstanding \/ c \in as
      /\ replies' \subseteq replies
  BY DEF Grows
<1>3. UNCHANGED <<result, sessions>>
  BY DEF backend
<1>4. QED
  BY <1>1, <1>2, <1>3 DEF NothingNewer

LEMMA ConfiguresOrderedStays ==
  ASSUME ConfiguresOrdered, NEW as, Grows(as), UNCHANGED backend,
         \A a \in replies : a.call.kind = "configure" /\ Newest(a.call)' => Newest(a.call),
         \A c \in as : c.kind = "configure" =>
           /\ Len(main') = Len(main) + 1
           /\ \A e \in Outstanding : ConfigureOf(e, c.document) => e.number < c.number,
         \A i \in 1 .. Len(main) : main[i] \in Outstanding,
         \A a \in replies : a.call \in Outstanding
  PROVE  ConfiguresOrdered'
<1>1. /\ Len(main) \in Nat /\ Len(main') \in Nat /\ Len(main) <= Len(main')
      /\ \A i \in 1 .. Len(main) : i \in 1 .. Len(main') /\ main'[i] = main[i]
      /\ \A i \in 1 .. Len(main') : i \in 1 .. Len(main) \/ main'[i] \in as
      /\ replies' \subseteq replies /\ UNCHANGED open
  BY DEF Grows, backend
<1>2. ASSUME NEW j \in 1 .. Len(main'), NEW d \in Documents, ConfigureOf(main'[j], d)
      PROVE  /\ \A i \in 1 .. j - 1 : ConfigureOf(main'[i], d) => main'[i].number < main'[j].number
             /\ \A a \in replies' : ConfigureOf(a.call, d) => a.call.number < main'[j].number
  <2>1. CASE j \in 1 .. Len(main)
    <3>1. \A i \in 1 .. j - 1 : i \in 1 .. Len(main)
      BY <1>1, <2>1
    <3>2. /\ main'[j] = main[j] /\ ConfigureOf(main[j], d)
          /\ \A i \in 1 .. j - 1 : main'[i] = main[i]
      BY <1>1, <1>2, <2>1, <3>1
    <3>3. /\ \A i \in 1 .. j - 1 : ConfigureOf(main[i], d) => main[i].number < main[j].number
          /\ \A a \in replies : ConfigureOf(a.call, d) => a.call.number < main[j].number
      BY <2>1, <3>2 DEF ConfiguresOrdered
    <3>4. QED
      BY <1>1, <3>2, <3>3
  <2>2. CASE j \notin 1 .. Len(main)
    <3>1. main'[j] \in as /\ main'[j].kind = "configure" /\ main'[j].document = d
      BY <1>1, <1>2, <2>2 DEF ConfigureOf
    <3>2. /\ Len(main') = Len(main) + 1
          /\ \A e \in Outstanding : ConfigureOf(e, d) => e.number < main'[j].number
      BY <3>1
    <3>3. \A i \in 1 .. j - 1 : i \in 1 .. Len(main) /\ main'[i] = main[i]
      BY <1>1, <2>2, <3>2
    <3>4. QED
      BY <1>1, <3>2, <3>3
  <2>3. QED
    BY <2>1, <2>2
<1>3. \A d \in DOMAIN open' : \A a \in replies' :
        ConfigureOf(a.call, d) /\ Newest(a.call)' /\ a.value # 0 => a.value = open'[d].session
  BY <1>1 DEF ConfiguresOrdered, ConfigureOf
<1>4. QED
  BY <1>2, <1>3 DEF ConfiguresOrdered

LEMMA ClosesDoneStays ==
  ASSUME ClosesDone, replies' \subseteq replies, UNCHANGED backend
  PROVE  ClosesDone'
BY DEF ClosesDone, Closable, backend

LEMMA CloseStays ==
  ASSUME NEW as, Grows(as), UNCHANGED backend, NEW d, CloseComes(d)
  PROVE  CloseComes(d)'
<1>1. PICK i \in 1 .. Len(main) :
        /\ CloseOf(main[i], d) /\ main[i].session \in Closable(d)
        /\ \A j \in 1 .. i - 1 : Renews(main[j], d) => main[i].session = open[d].session
  BY DEF CloseComes
<1>2. /\ i \in 1 .. Len(main') /\ main'[i] = main[i]
      /\ \A j \in 1 .. i - 1 : main'[j] = main[j]
  <2>1. \A j \in 1 .. i - 1 : j \in 1 .. Len(main)
    BY <1>1 DEF Grows
  <2>2. QED
    BY <1>1, <2>1 DEF Grows
<1>3. \A j \in 1 .. i - 1 : ConfigureOf(main'[j], d) /\ main'[j].session = open'[d].session
        => main'[i].session = open'[d].session
  BY <1>1, <1>2, KnownStays DEF Renews
<1>4. CloseOf(main'[i], d) /\ main'[i].session \in Closable(d)'
  BY <1>1, <1>2, KnownStays
<1>5. QED
  BY <1>2, <1>3, <1>4 DEF CloseComes, Renews

\* A close that is sent when no header mode, or one of its session, is before it.
LEMMA CloseIsSent ==
  ASSUME NEW as, Grows(as), \A e \in as : e.kind # "configure", UNCHANGED backend,
         NEW d, NEW c \in as, CloseOf(c, d), c.session \in Closable(d),
         \A i \in 1 .. Len(main) : Renews(main[i], d) => c.session = open[d].session
  PROVE  CloseComes(d)'
<1>1. PICK i \in 1 .. Len(main') : main'[i] = c
  BY DEF Grows
<1>2. \A j \in 1 .. i - 1 : ConfigureOf(main'[j], d) /\ main'[j].session = open'[d].session
        => main'[i].session = open'[d].session
  <2>1. \A j \in 1 .. i - 1 : j \in 1 .. Len(main')
    BY DEF Grows
  <2>2. \A j \in 1 .. Len(main') : \/ j \in 1 .. Len(main) /\ main'[j] = main[j]
                                   \/ main'[j].kind # "configure"
    BY DEF Grows
  <2>3. QED
    BY <1>1, <2>1, <2>2, KnownStays DEF Renews, ConfigureOf
<1>3. CloseOf(main'[i], d) /\ main'[i].session \in Closable(d)'
  BY <1>1, KnownStays
<1>4. QED
  BY <1>2, <1>3 DEF CloseComes, Renews

\* The tabs of a document keep their sessions or take the newest.
LEMMA TabClosesStays ==
  ASSUME NEW as, Grows(as), UNCHANGED backend, NEW d, TabCloses(d),
         \E x \in tabs' : x.document = d,
         \A x \in tabs' \union rendered' : x.document = d =>
           \/ x.session = open[d].session
           \/ /\ \E t \in tabs \union rendered : t.document = d /\ x.session = t.session
              /\ \A c \in as : ~ Renews(c, d)
  PROVE  TabCloses(d)'
<1>1. ASSUME NEW x \in tabs' \union rendered', x.document = d
      PROVE  /\ x.session \in Closable(d)'
             /\ \A i \in 1 .. Len(main') :
                  ConfigureOf(main'[i], d) /\ main'[i].session = open'[d].session
                    => x.session = open'[d].session
  <2>1. CASE x.session = open[d].session
    BY <2>1, KnownStays DEF Closable
  <2>2. CASE /\ \E t \in tabs \union rendered : t.document = d /\ x.session = t.session
             /\ \A c \in as : ~ Renews(c, d)
    <3>1. /\ x.session \in Closable(d)
          /\ \A i \in 1 .. Len(main) : Renews(main[i], d) => x.session = open[d].session
      BY <2>2 DEF TabCloses
    <3>2. \A i \in 1 .. Len(main') : \/ i \in 1 .. Len(main) /\ main'[i] = main[i]
                                     \/ ~ Renews(main'[i], d)
      BY <2>2 DEF Grows
    <3>3. QED
      BY <3>1, <3>2, KnownStays DEF Renews
  <2>3. QED
    BY <1>1, <2>1, <2>2
<1>2. QED
  BY <1>1 DEF TabCloses, Renews

\* A document without a tab is still known to a request or kept for a reopen.
LEMMA NeverShownStays ==
  ASSUME NEW as, Grows(as), UNCHANGED <<backend, result>>, NEW d, NeverShown(d),
         \A c \in as : ~ ConfigureOf(c, d), \A t \in tabs' : t.document # d,
         Undecided(d)' \/ \E p \in Paths : deferred'[p] # None /\ deferred'[p].opened.document = d
  PROVE  NeverShown(d)'
<1>1. \A i \in 1 .. Len(main') : ~ ConfigureOf(main'[i], d)
  BY DEF Grows, NeverShown
<1>2. \A r \in Requests : \A p \in DOMAIN result'[r] :
        result'[r][p].document = d => result'[r][p].session = open'[d].session
  BY KnownStays DEF NeverShown
<1>3. QED
  BY <1>1, <1>2 DEF NeverShown

\* Its tab appears with the session that was opened.
LEMMA ShownFirst ==
  ASSUME UNCHANGED <<backend, result>>, NEW d, NeverShown(d), \E x \in tabs' : x.document = d,
         \A x \in tabs' \union rendered' : x.document = d =>
           \E r \in Requests : \E p \in DOMAIN result[r] :
             result[r][p].document = d /\ result[r][p].session = x.session
  PROVE  TabCloses(d)'
<1>1. \A x \in tabs' \union rendered' : x.document = d => x.session = open'[d].session
  BY KnownStays DEF NeverShown
<1>2. QED
  BY <1>1 DEF TabCloses, Closable

-----------------------------------------------------------------------------
(* Documents: the tasks of the page *)

\* What was opened for d is shown, or kept for a reopen, or its cleanup is sent.
KeptBy(as, o) ==
  \/ \E p \in Paths : deferred'[p] # None /\ deferred'[p].opened.document = o.document
  \/ \E x \in tabs' : x.document = o.document
  \/ o \in cleaned
  \/ \E c \in as : CloseOf(c, o.document) /\ c.session = o.session

\* A cleanup that is under way closes the document.
LEMMA CleanupFinds ==
  ASSUME PageInvariant, ClosesDone, NEW d \in DOMAIN open, NEW o, o \in cleaned, o.document = d,
         o.session = open[d].session
  PROVE  CloseComes(d)
<1>1. PICK c \in Outstanding : c.kind = "cleanup" /\ Identity(c) = o
  BY DEF PageInvariant, CleanupsOnce
<1>2. CloseOf(c, d) /\ c.session = open[d].session /\ c.session \in Closable(d)
  BY <1>1 DEF CloseOf, Identity, Closable
<1>3. \A a \in replies : a.call # c
  BY <1>2 DEF ClosesDone
<1>4. PICK i \in 1 .. Len(main) : main[i] = c
  <2>1. c \in Range(main)
    BY <1>3 DEF Outstanding
  <2>2. main \in Seq(SentCalls)
    BY PagesTyped
  <2>3. QED
    BY <2>1, <2>2, LenProperties DEF Range
<1>5. QED
  BY <1>2, <1>4 DEF CloseComes

\* A tab that is rendered shows the document of a tab of the state.
LEMMA RenderedShown ==
  ASSUME SessionInvariant, NEW d \in Documents, NEW t \in tabs \union rendered, t.document = d
  PROVE  t.status = "ready" /\ \E u \in tabs : u.document = d
<1>1. PageTypes /\ TabsOpened
  BY DEF SessionInvariant, PageInvariant, TypesHold, TabsAgree
<1>2. t.status = "ready"
  BY <1>1, ShownTyped
<1>3. QED
  BY <1>1, <1>2 DEF TabsOpened

\* A task of the page: the documents that tabs show stay, those that are shown first were
\* opened by a request, and what a request or a placeholder leaves is kept or cleaned up.
LEMMA PageStepKeeps ==
  ASSUME KeptInvariant, PageTypes', NEW as, Grows(as), UNCHANGED <<backend, result>>,
         \A c \in as : c.kind # "configure" /\ (c.kind \notin {"open", "cancel"} => Known(c)),
         \A t \in tabs : t.document \in Documents => \E x \in tabs' : x.document = t.document,
         \A x \in tabs' \union rendered' : x.document \in Documents =>
           \/ \E t \in tabs \union rendered :
                x.document = t.document /\ x.session = t.session
           \/ /\ \A t \in tabs : t.document # x.document
              /\ \E r \in Requests : \E p \in DOMAIN result[r] :
                   /\ result[r][p].document = x.document
                   /\ result[r][p].session = x.session,
         \A r \in Requests : phase[r] \in {"sent", "answered"} =>
           \/ phase'[r] \in {"sent", "answered"}
           \/ \A p \in DOMAIN result[r] : result[r][p] # NotOpened => KeptBy(as, result[r][p]),
         \A p \in Paths : deferred[p] # None => KeptBy(as, deferred[p].opened),
         \A a \in replies : a.call.kind = "configure" /\ Newest(a.call)' => Newest(a.call)
  PROVE  DocumentsAgree'
<1>1. /\ SessionInvariant /\ PageInvariant /\ PageTypes /\ BackendTypes /\ ResultsAgree
      /\ NothingNewer /\ ConfiguresOrdered /\ ClosesDone /\ DocumentsKept
  BY DEF KeptInvariant, DocumentsAgree, SessionInvariant, PageInvariant, TypesHold
<1>2. \A x \in tabs' \union rendered' : x.status = "ready" <=> x.document \in Documents
  BY ShownFacts DEF PageTypes
<1>3. NothingNewer'
  <2>1. ASSUME NEW x \in tabs' \union rendered', x.status = "ready"
        PROVE  Known(x)
    <3>1. x.document \in Documents
      BY <1>2, <2>1
    <3>2. CASE \E t \in tabs \union rendered : x.document = t.document /\ x.session = t.session
      <4>1. PICK t \in tabs \union rendered : x.document = t.document /\ x.session = t.session
        BY <3>2
      <4>2. Known(t)
        BY <1>1, <3>1, <4>1, RenderedShown DEF NothingNewer
      <4>3. QED
        BY <4>1, <4>2 DEF Known
    <3>3. CASE \E r \in Requests : \E p \in DOMAIN result[r] :
                   result[r][p].document = x.document /\ result[r][p].session = x.session
      <4>0. PICK r \in Requests : \E p \in DOMAIN result[r] :
                   result[r][p].document = x.document /\ result[r][p].session = x.session
        BY <3>3
      <4>1. PICK p \in DOMAIN result[r] :
                   result[r][p].document = x.document /\ result[r][p].session = x.session
        BY <4>0
      <4>2. result[r][p] # NotOpened
        BY <3>1, <4>1 DEF NotOpened, Documents
      <4>3. Known(result[r][p])
        BY <1>1, <4>2 DEF NothingNewer
      <4>4. QED
        BY <4>1, <4>3 DEF Known
    <3>4. QED
      BY <3>1, <3>2, <3>3
  <2>2. QED
    BY <1>1, <2>1, NothingNewerStays
<1>4. ConfiguresOrdered'
  <2>1. /\ \A i \in 1 .. Len(main) : main[i] \in Outstanding
        /\ \A a \in replies : a.call \in Outstanding
    BY <1>1, PagesTyped
  <2>2. \A c \in as : c.kind # "configure"
    OBVIOUS
  <2>3. QED
    BY <1>1, <2>1, <2>2, ConfiguresOrderedStays
<1>5. ClosesDone'
  BY <1>1, ClosesDoneStays DEF Grows
<1>6. ASSUME NEW d \in DOMAIN open
      PROVE  CloseComes(d)' \/ TabCloses(d)' \/ NeverShown(d)'
  <2>1. d \in Documents /\ \A c \in as : ~ ConfigureOf(c, d)
    BY <1>1 DEF BackendTypes, ConfigureOf
  <2>2. CASE CloseComes(d)
    BY <2>2, CloseStays
  <2>3. CASE TabCloses(d)
    <3>1. PICK u \in tabs : u.document = d
      BY <2>3 DEF TabCloses
    <3>2. \E x \in tabs' : x.document = d
      BY <2>1, <3>1
    <3>3. \A x \in tabs' \union rendered' : x.document = d =>
            \E t \in tabs \union rendered : t.document = d /\ x.session = t.session
      BY <2>1, <3>1
    <3>4. \A c \in as : ~ Renews(c, d)
      BY <2>1 DEF Renews
    <3>5. QED
      BY <2>3, <3>2, <3>3, <3>4, TabClosesStays
  <2>4. CASE NeverShown(d)
    <3>1. \A t \in tabs \union rendered : t.document # d
      BY <1>1, <2>1, <2>4, RenderedShown DEF NeverShown
    <3>2. CASE \E x \in tabs' : x.document = d
      <4>1. \A x \in tabs' \union rendered' : x.document = d =>
              \E r \in Requests : \E p \in DOMAIN result[r] :
                result[r][p].document = d /\ result[r][p].session = x.session
        BY <2>1, <3>1
      <4>2. QED
        BY <2>4, <3>2, <4>1, ShownFirst
    <3>3. CASE \A x \in tabs' : x.document # d
      <4>1. ASSUME NEW r \in Requests, NEW p \in DOMAIN result[r], result[r][p].document = d,
                   KeptBy(as, result[r][p])
            PROVE  CloseComes(d)' \/ NeverShown(d)'
        <5>1. PICK o : o = result[r][p]
          OBVIOUS
        <5>2. o.document = d /\ o.session = open[d].session /\ KeptBy(as, o)
          BY <2>4, <4>1, <5>1 DEF NeverShown
        <5>3. CASE \E q \in Paths : deferred'[q] # None /\ deferred'[q].opened.document = d
          BY <2>1, <2>4, <3>3, <5>3, NeverShownStays
        <5>4. CASE o \in cleaned
          BY <1>1, <5>2, <5>4, CleanupFinds, CloseStays
        <5>5. CASE \E c \in as : CloseOf(c, d) /\ c.session = o.session
          <6>1. PICK c \in as : CloseOf(c, d) /\ c.session = open[d].session
            BY <5>2, <5>5
          <6>2. c.session \in Closable(d)
            BY <6>1 DEF Closable
          <6>3. \A e \in as : e.kind # "configure"
            OBVIOUS
          <6>4. QED
            BY <6>1, <6>2, <6>3, CloseIsSent
        <5>6. QED
          BY <3>3, <5>2, <5>3, <5>4, <5>5 DEF KeptBy
      <4>2. CASE Undecided(d)
        <5>1. PICK r \in Requests : /\ phase[r] \in {"sent", "answered"}
                                    /\ \E p \in DOMAIN result[r] : result[r][p].document = d
          BY <4>2 DEF Undecided
        <5>2. PICK p \in DOMAIN result[r] : result[r][p].document = d
          BY <5>1
        <5>3. CASE phase'[r] \in {"sent", "answered"}
          <6>1. Undecided(d)'
            BY <5>2, <5>3 DEF Undecided
          <6>2. QED
            BY <2>1, <2>4, <3>3, <6>1, NeverShownStays
        <5>4. CASE phase'[r] \notin {"sent", "answered"}
          <6>1. result[r][p] # NotOpened
            BY <2>1, <5>2 DEF NotOpened, Documents
          <6>2. KeptBy(as, result[r][p])
            BY <5>1, <5>4, <6>1
          <6>3. QED
            BY <4>1, <5>2, <6>2
        <5>5. QED
          BY <5>3, <5>4
      <4>3. CASE \E p \in Paths : deferred[p] # None /\ deferred[p].opened.document = d
        <5>1. PICK p \in Paths : deferred[p] # None /\ deferred[p].opened.document = d
          BY <4>3
        <5>2. PICK r \in Requests : p \in DOMAIN result[r] /\ result[r][p] = deferred[p].opened
          BY <1>1, <5>1 DEF ResultsAgree
        <5>3. KeptBy(as, result[r][p]) /\ result[r][p].document = d
          BY <5>1, <5>2
        <5>4. QED
          BY <4>1, <5>2, <5>3
      <4>4. QED
        BY <2>4, <4>2, <4>3 DEF NeverShown
    <3>4. QED
      BY <3>2, <3>3
  <2>5. QED
    BY <1>1, <2>2, <2>3, <2>4 DEF DocumentsKept
<1>7. DocumentsKept'
  BY <1>6 DEF DocumentsKept, backend
<1>8. QED
  BY <1>3, <1>4, <1>5, <1>7 DEF DocumentsAgree

\* The documents that tabs show stay, with their sessions.
ShowsOn ==
  /\ \A t \in tabs : t.document \in Documents => \E x \in tabs' : x.document = t.document
  /\ \A x \in tabs' \union rendered' : x.document \in Documents =>
       \E t \in tabs \union rendered : x.document = t.document /\ x.session = t.session

LEMMA ReadyStay ==
  ASSUME PageTypes, PageTypes',
         \A t \in tabs : t.status = "ready" => t \in tabs',
         \A t \in tabs' : t.status = "ready" => t \in tabs,
         UNCHANGED rendered \/ rendered' = tabs'
  PROVE  ShowsOn
<1>1. /\ \A t \in tabs : t.document \in Documents => t.status = "ready"
      /\ \A t \in tabs' : t.document \in Documents => t.status = "ready"
  BY ShownFacts DEF PageTypes
<1>2. QED
  BY <1>1 DEF ShowsOn

LEMMA ReadyChange ==
  ASSUME NEW d, NEW g, tabs' = {IF u.document = d THEN g[u] ELSE u : u \in tabs},
         \A u \in tabs : u.document = d => g[u].document = d /\ g[u].session = u.session,
         UNCHANGED rendered \/ rendered' = tabs'
  PROVE  ShowsOn
<1>1. \A x \in tabs' : \E u \in tabs : x.document = u.document /\ x.session = u.session
  OBVIOUS
<1>2. \A u \in tabs : \E x \in tabs' : x.document = u.document
  <2> SUFFICES ASSUME NEW u \in tabs PROVE \E x \in tabs' : x.document = u.document
    OBVIOUS
  <2>1. CASE u.document = d
    <3>1. g[u] \in tabs' /\ g[u].document = d
      BY <2>1
    <3>2. QED
      BY <2>1, <3>1
  <2>2. CASE u.document # d
    BY <2>2
  <2>3. QED
    BY <2>1, <2>2
<1>3. QED
  BY <1>1, <1>2 DEF ShowsOn

\* A task that leaves no request, and entries kept for a reopen only with a cleanup.
LEMMA LeavesKeeps ==
  ASSUME KeptInvariant, PageTypes', NEW as, Grows(as), UNCHANGED <<backend, result>>,
         \A c \in as : c.kind # "configure" /\ (c.kind \notin {"open", "cancel"} => Known(c)),
         ShowsOn,
         \A p \in Paths : deferred[p] # None => KeptBy(as, deferred[p].opened),
         \A r \in Requests : phase[r] \in {"sent", "answered"} => phase'[r] \in {"sent", "answered"},
         \A a \in replies : a.call.kind = "configure" /\ Newest(a.call)' => Newest(a.call)
  PROVE  DocumentsAgree'
<1>1. \A x \in tabs' \union rendered' : x.document \in Documents =>
           \E t \in tabs \union rendered : x.document = t.document /\ x.session = t.session
  BY DEF ShowsOn
<1>2. \A t \in tabs : t.document \in Documents => \E x \in tabs' : x.document = t.document
  BY DEF ShowsOn
<1>3. QED
  BY <1>1, <1>2, PageStepKeeps

LEMMA QuietKeeps ==
  ASSUME KeptInvariant, PageTypes', NEW as, Grows(as), UNCHANGED <<backend, result, deferred>>,
         \A c \in as : c.kind # "configure" /\ (c.kind \notin {"open", "cancel"} => Known(c)),
         ShowsOn,
         \A r \in Requests : phase[r] \in {"sent", "answered"} => phase'[r] \in {"sent", "answered"},
         \A a \in replies : a.call.kind = "configure" /\ Newest(a.call)' => Newest(a.call)
  PROVE  DocumentsAgree'
<1>1. \A p \in Paths : deferred[p] # None => KeptBy(as, deferred[p].opened)
  BY DEF KeptBy
<1>2. QED
  BY <1>1, LeavesKeeps

LEMMA NewestSame ==
  ASSUME UNCHANGED latest
  PROVE  \A c : Newest(c)' <=> Newest(c)
BY DEF Newest, LatestOf

LEMMA KeptFacts ==
  ASSUME KeptInvariant
  PROVE  /\ SessionInvariant /\ PageInvariant /\ PageTypes /\ BackendTypes /\ CallTypes
         /\ ResultsAgree /\ TabsOpened /\ SessionsGrow /\ CallsNumbered
         /\ NothingNewer /\ ConfiguresOrdered /\ ClosesDone /\ DocumentsKept
BY DEF KeptInvariant, DocumentsAgree, SessionInvariant, PageInvariant, TypesHold, TabsAgree,
       CallsAgree

LEMMA OpensPathsForgets ==
  ASSUME KeptInvariant, PageTypes', NEW r \in Requests, OpenPaths(r)
  PROVE  DocumentsAgree'
<1>1. PageInvariant /\ PageTypes /\ CallTypes
  BY KeptFacts
<1>2. /\ tabs' = tabs \union {Pending(r, p, "loading") : p \in PathsOf[r]}
      /\ \/ main' = Append(main, OpenCall(r)) /\ phase' = [phase EXCEPT ![r] = "sent"]
         \/ UNCHANGED main /\ phase' = [phase EXCEPT ![r] = "waiting"]
      /\ phase[r] = "new"
      /\ UNCHANGED <<rendered, deferred, latest, result, backend, replies>>
  BY DEF OpenPaths
<1>3. PICK as : /\ Grows(as) /\ \A c \in as : c.kind = "open"
  <2>1. OpenCall(r) \in SentCalls /\ OpenCall(r).kind = "open"
    BY CallTyped DEF OpenCall, Call
  <2>2. CASE main' = Append(main, OpenCall(r))
    <3>1. Grows({OpenCall(r)})
      BY <1>1, <1>2, <2>1, <2>2, GrowsOne
    <3>2. QED
      BY <2>1, <3>1
  <2>3. CASE UNCHANGED main
    <3>1. Grows({})
      BY <1>1, <1>2, <2>3, GrowsNone
    <3>2. QED
      BY <3>1
  <2>4. QED
    BY <1>2, <2>2, <2>3
<1>4. ShowsOn
  <2>1. \A t \in tabs' : t.status = "ready" => t \in tabs
    BY <1>2 DEF Pending
  <2>2. QED
    BY <1>1, <1>2, <2>1, ReadyStay
<1>5. \A s \in Requests : phase[s] \in {"sent", "answered"} => phase'[s] \in {"sent", "answered"}
  BY <1>1, <1>2 DEF CallTypes
<1>6. \A c : Newest(c)' <=> Newest(c)
  BY <1>2, NewestSame
<1>7. QED
  BY <1>2, <1>3, <1>4, <1>5, <1>6, QuietKeeps

LEMMA OpensFileForgets ==
  ASSUME KeptInvariant, PageTypes', NEW r \in Requests, OpenFile(r)
  PROVE  DocumentsAgree'
<1>1. PageInvariant /\ PageTypes /\ CallTypes
  BY KeptFacts
<1>2. /\ phase[r] = "new" /\ phase' = [phase EXCEPT ![r] = "sent"]
      /\ UNCHANGED <<tabs, rendered, deferred, latest, result, backend, main, replies>>
  BY DEF OpenFile, page
<1>3. Grows({})
  BY <1>1, <1>2, GrowsNone
<1>4. ShowsOn
  BY <1>1, <1>2, ReadyStay
<1>5. \A s \in Requests : phase[s] \in {"sent", "answered"} => phase'[s] \in {"sent", "answered"}
  BY <1>1, <1>2 DEF CallTypes
<1>6. \A c : Newest(c)' <=> Newest(c)
  BY <1>2, NewestSame
<1>7. QED
  BY <1>2, <1>3, <1>4, <1>5, <1>6, QuietKeeps

LEMMA SettledForgets ==
  ASSUME KeptInvariant, PageTypes', NEW a \in replies, Settle(a)
  PROVE  DocumentsAgree'
<1>1. PageInvariant /\ PageTypes /\ CallTypes
  BY KeptFacts
<1>2. PICK freed : freed = Freed(waits')
  OBVIOUS
<1>3. /\ replies' = replies \ {a}
      /\ phase' = [r \in Requests |-> IF r \in freed THEN "sent" ELSE phase[r]]
      /\ \E calls \in SetToSeqs({OpenCall(r) : r \in freed}) : main' = main \o calls
      /\ UNCHANGED <<tabs, rendered, deferred, latest, result, backend>>
  BY <1>2 DEF Settle
<1>4. PICK as : /\ Grows(as) /\ \A c \in as : c.kind = "open"
  <2>1. PICK calls \in SetToSeqs({OpenCall(r) : r \in freed}) : main' = main \o calls
    BY <1>3
  <2>2. /\ calls \in Seq(SentCalls)
        /\ \A i \in 1 .. Len(calls) : calls[i].kind = "open"
    BY <1>2, <2>1, OpensListed DEF Freed
  <2>3. \A c \in Range(calls) : c.kind = "open"
    BY <2>2, LenProperties DEF Range
  <2>4. Grows(Range(calls))
    BY <1>1, <1>3, <2>1, <2>2, GrowsBy
  <2>5. QED
    BY <2>3, <2>4
<1>5. ShowsOn
  BY <1>1, <1>3, ReadyStay
<1>6. \A s \in Requests : phase[s] \in {"sent", "answered"} => phase'[s] \in {"sent", "answered"}
  BY <1>1, <1>3
<1>7. \A c : Newest(c)' <=> Newest(c)
  BY <1>3, NewestSame
<1>8. QED
  BY <1>3, <1>4, <1>5, <1>6, <1>7, QuietKeeps

LEMMA RenderedForgets ==
  ASSUME KeptInvariant, PageTypes', Render
  PROVE  DocumentsAgree'
<1>1. PageInvariant /\ PageTypes /\ CallTypes
  BY KeptFacts
<1>2. /\ rendered' = tabs'
      /\ UNCHANGED <<tabs, deferred, latest, phase, result, backend, main, replies>>
  BY DEF Render
<1>3. Grows({})
  BY <1>1, <1>2, GrowsNone
<1>4. ShowsOn
  BY <1>1, <1>2, ReadyStay
<1>5. \A c : Newest(c)' <=> Newest(c)
  BY <1>2, NewestSame
<1>6. QED
  BY <1>2, <1>3, <1>4, <1>5, QuietKeeps

LEMMA PageAskedForgets ==
  ASSUME KeptInvariant, PageTypes', NEW t \in rendered, LoadPage(t)
  PROVE  DocumentsAgree'
<1>1. PageInvariant /\ PageTypes /\ CallTypes /\ NothingNewer
  BY KeptFacts
<1>2. PICK d : d = t.document
  OBVIOUS
<1>3. PICK n : n = latest[d].page + 1
  OBVIOUS
<1>4. PICK c : c = Call("read", None, t, {}, n)
  OBVIOUS
<1>5. PICK g : g = [u \in Tabs |-> [u EXCEPT !.failed = FALSE]]
  OBVIOUS
<1>6. /\ t.status = "ready" /\ latest' = [latest EXCEPT ![d].page = n] /\ main' = Append(main, c)
      /\ tabs' = {IF u.document = d THEN g[u] ELSE u : u \in tabs} /\ rendered' = tabs'
      /\ UNCHANGED <<deferred, phase, result, backend, replies>>
  BY <1>2, <1>3, <1>4, <1>5 DEF LoadPage, Update
<1>7. t \in ShownTabs /\ d \in Documents
  BY <1>1, <1>2, <1>6, ShownFacts DEF PageTypes
<1>8. n \in Nat /\ \A e \in Documents : latest'[e].status = latest[e].status
  BY <1>1, <1>3, <1>6, <1>7 DEF PageTypes
<1>9. c.kind = "read" /\ c.document = d /\ c.session = t.session
  BY <1>2, <1>4 DEF Call
<1>10. c \in SentCalls
  BY <1>4, <1>6, <1>7, <1>8, CallTyped
<1>11. Grows({c})
  BY <1>1, <1>6, <1>10, GrowsOne
<1>12. Known(c)
  <2>1. Known(t)
    BY <1>1, <1>6 DEF NothingNewer
  <2>2. QED
    BY <1>2, <1>9, <2>1 DEF Known
<1>13. ShowsOn
  <2>1. \A u \in tabs : u \in Tabs
    BY <1>1 DEF PageTypes, ShownTabs
  <2>2. \A u \in tabs : g[u] = [u EXCEPT !.failed = FALSE]
    BY <1>5, <2>1
  <2>3. \A u \in tabs : g[u].document = u.document /\ g[u].session = u.session
    BY <2>1, <2>2 DEF Tabs
  <2>4. \A u \in tabs : u.document = d => g[u].document = d /\ g[u].session = u.session
    BY <2>3
  <2>5. QED
    BY <1>6, <2>4, ReadyChange
<1>14. \A a \in replies : a.call.kind = "configure" /\ Newest(a.call)' => Newest(a.call)
  <2>1. \A a \in replies : a.call.kind = "configure" => a.call.document \in Documents
    BY <1>1, PagesTyped DEF IsPage, PageKinds
  <2>2. QED
    BY <1>8, <2>1 DEF Newest, LatestOf
<1>15. QED
  BY <1>6, <1>9, <1>11, <1>12, <1>13, <1>14, QuietKeeps

\* An answer that changes at most the rows of tabs.
LEMMA AnswerForgets ==
  ASSUME KeptInvariant, PageTypes', NEW a \in replies, NEW kinds, Arrives(a, kinds), UNCHANGED main,
         ShowsOn
  PROVE  DocumentsAgree'
<1>1. PageInvariant
  BY KeptFacts
<1>2. /\ replies' = replies \ {a}
      /\ UNCHANGED <<deferred, latest, phase, result, backend>>
  BY DEF Arrives
<1>3. Grows({})
  BY <1>1, <1>2, GrowsNone
<1>4. \A c : Newest(c)' <=> Newest(c)
  BY <1>2, NewestSame
<1>5. QED
  BY <1>2, <1>3, <1>4, QuietKeeps

LEMMA PageArrivedForgets ==
  ASSUME KeptInvariant, PageTypes', NEW a \in replies, PageArrives(a)
  PROVE  DocumentsAgree'
<1>1. PageTypes
  BY KeptFacts
<1>2. Arrives(a, {"read"}) /\ UNCHANGED main /\ UNCHANGED rendered
  BY DEF PageArrives, Arrives
<1>3. PICK g : g = [t \in Tabs |-> IF a.value = 0 THEN Failure(t) ELSE [t EXCEPT !.page = a.value]]
  OBVIOUS
<1>4. \/ UNCHANGED tabs
      \/ tabs' = {IF u.document = a.call.document THEN g[u] ELSE u : u \in tabs}
  BY <1>3 DEF PageArrives, Update
<1>5. \A u \in tabs : g[u].document = u.document /\ g[u].session = u.session
  <2>1. \A u \in tabs : u \in Tabs
    BY <1>1 DEF PageTypes, ShownTabs
  <2>2. \A u \in tabs : g[u] = [u EXCEPT !.failed = TRUE] \/ g[u] = [u EXCEPT !.page = a.value]
    BY <1>3, <2>1 DEF Failure
  <2>3. QED
    BY <2>1, <2>2 DEF Tabs
<1>6. ShowsOn
  <2>1. CASE UNCHANGED tabs
    BY <1>1, <1>2, <2>1, ReadyStay
  <2>2. CASE tabs' = {IF u.document = a.call.document THEN g[u] ELSE u : u \in tabs}
    <3>1. PICK d : d = a.call.document
      OBVIOUS
    <3>2. tabs' = {IF u.document = d THEN g[u] ELSE u : u \in tabs}
      BY <2>2, <3>1
    <3>3. \A u \in tabs : u.document = d => g[u].document = d /\ g[u].session = u.session
      BY <1>5, <2>2, <3>1
    <3>4. QED
      BY <1>2, <3>2, <3>3, ReadyChange
  <2>3. QED
    BY <1>4, <2>1, <2>2
<1>7. QED
  BY <1>2, <1>6, AnswerForgets

LEMMA FirstPageForgets ==
  ASSUME KeptInvariant, PageTypes', NEW a \in replies, FirstPageArrives(a)
  PROVE  DocumentsAgree'
<1>1. PageTypes /\ AnswersFit
  BY KeptFacts DEF SessionInvariant, CallsAgree
<1>2. Arrives(a, {"first_page"}) /\ UNCHANGED main /\ UNCHANGED rendered /\ a.call.kind = "first_page"
  BY DEF FirstPageArrives, Arrives
<1>3. PICK g : g = [t \in Tabs |-> Configured(IF a.value = 0 THEN Failure(t)
                       ELSE [t EXCEPT !.session = a.value, !.page = a.value])]
  OBVIOUS
<1>4. \/ UNCHANGED tabs
      \/ /\ tabs' = {IF u.document = a.call.document THEN g[u] ELSE u : u \in tabs}
         /\ Newest(a.call)
  BY <1>2, <1>3 DEF FirstPageArrives, Update, Newest, LatestOf, PageKinds
<1>5. ASSUME Newest(a.call), NEW u \in tabs, u.document = a.call.document
      PROVE  g[u].document = u.document /\ g[u].session = u.session
  <2>1. u \in Tabs
    BY <1>1 DEF PageTypes, ShownTabs
  <2>2. CASE a.value = 0
    <3>1. g[u] = Configured(Failure(u))
      BY <1>3, <2>1, <2>2
    <3>2. QED
      BY <2>1, <3>1 DEF Tabs, Configured, Failure
  <2>3. CASE a.value # 0
    <3>1. g[u] = Configured([u EXCEPT !.session = a.value, !.page = a.value])
      BY <1>3, <2>1, <2>3
    <3>2. u.session = a.value
      BY <1>1, <1>2, <1>5, <2>3 DEF AnswersFit
    <3>3. QED
      BY <2>1, <3>1, <3>2 DEF Tabs, Configured
  <2>4. QED
    BY <2>2, <2>3
<1>6. ShowsOn
  <2>1. CASE UNCHANGED tabs
    BY <1>1, <1>2, <2>1, ReadyStay
  <2>2. CASE /\ tabs' = {IF u.document = a.call.document THEN g[u] ELSE u : u \in tabs}
             /\ Newest(a.call)
    <3>1. PICK d : d = a.call.document
      OBVIOUS
    <3>2. tabs' = {IF u.document = d THEN g[u] ELSE u : u \in tabs}
      BY <2>2, <3>1
    <3>3. \A u \in tabs : u.document = d => g[u].document = d /\ g[u].session = u.session
      BY <1>5, <2>2, <3>1
    <3>4. QED
      BY <1>2, <3>2, <3>3, ReadyChange
  <2>3. QED
    BY <1>4, <2>1, <2>2
<1>7. QED
  BY <1>2, <1>6, AnswerForgets

-----------------------------------------------------------------------------
(* Documents: new header modes *)

\* A document that keeps its sessions and of which no call is sent and no tab changes.
LEMMA OtherKept ==
  ASSUME KeptInvariant, NEW as, Grows(as), UNCHANGED <<backend, result, deferred, phase>>,
         NEW d \in DOMAIN open, \A c \in as : ~ ConfigureOf(c, d),
         \A t \in tabs : t.document = d => \E x \in tabs' : x.document = d,
         \A x \in tabs' \union rendered' : x.document = d =>
           \E t \in tabs \union rendered : t.document = d /\ x.session = t.session
  PROVE  CloseComes(d)' \/ TabCloses(d)' \/ NeverShown(d)'
<1>1. SessionInvariant /\ DocumentsKept /\ d \in Documents
  BY KeptFacts DEF BackendTypes
<1>2. CASE CloseComes(d)
  BY <1>2, CloseStays
<1>3. CASE TabCloses(d)
  <2>1. \E x \in tabs' : x.document = d
    BY <1>3 DEF TabCloses
  <2>2. \A c \in as : ~ Renews(c, d)
    BY DEF Renews
  <2>3. QED
    BY <1>3, <2>1, <2>2, TabClosesStays
<1>4. CASE NeverShown(d)
  <2>1. \A t \in tabs \union rendered : t.document # d
    BY <1>1, <1>4, RenderedShown DEF NeverShown
  <2>2. \A x \in tabs' : x.document # d
    BY <2>1
  <2>3. Undecided(d)' \/ \E p \in Paths : deferred'[p] # None /\ deferred'[p].opened.document = d
    BY <1>4 DEF NeverShown, Undecided
  <2>4. QED
    BY <1>4, <2>2, <2>3, NeverShownStays
<1>5. QED
  BY <1>1, <1>2, <1>3, <1>4 DEF DocumentsKept

\* The new session of a header mode is that of the open document.
LEMMA SessionTakenForgets ==
  ASSUME KeptInvariant, PageTypes', NEW a \in replies, Arrives(a, {"configure"}),
         Newest(a.call), a.value # 0, NEW d, d = a.call.document, NEW g,
         \A u \in tabs : g[u].document = u.document /\ g[u].session = a.value,
         tabs' = {IF u.document = d THEN g[u] ELSE u : u \in tabs},
         NEW c \in SentCalls, c.kind = "first_page", c.document = d,
         c.session = a.value, main' = Append(main, c)
  PROVE  DocumentsAgree'
<1>1. /\ SessionInvariant /\ PageInvariant /\ PageTypes /\ BackendTypes /\ CallsNumbered
      /\ NothingNewer /\ ConfiguresOrdered /\ ClosesDone /\ DocumentsKept
  BY KeptFacts
<1>2. /\ replies' = replies \ {a} /\ a.call.kind = "configure" /\ ConfigureOf(a.call, d)
      /\ UNCHANGED <<rendered, deferred, latest, phase, result, backend>>
  BY DEF Arrives, ConfigureOf
<1>3. a.call \in Outstanding /\ d \in Documents
  BY <1>1, <1>2, PagesTyped DEF IsPage, PageKinds
<1>4. Grows({c})
  BY <1>1, <1>2, GrowsOne
<1>5. /\ \A x \in tabs' : IF x.document = d THEN x.session = a.value ELSE x \in tabs
      /\ \A u \in tabs : \E x \in tabs' : x.document = u.document
  <2>1. \A x \in tabs' : IF x.document = d THEN x.session = a.value ELSE x \in tabs
    OBVIOUS
  <2>2. ASSUME NEW u \in tabs PROVE \E x \in tabs' : x.document = u.document
    <3>1. CASE u.document = d
      <4>1. g[u] \in tabs' /\ g[u].document = u.document
        BY <3>1
      <4>2. QED
        BY <4>1
    <3>2. CASE u.document # d
      BY <3>2
    <3>3. QED
      BY <3>1, <3>2
  <2>3. QED
    BY <2>1, <2>2
<1>6. Known(c) /\ \A x \in tabs' : x.document = d => Known(x)
  <2>1. Known(a.call) /\ a.value <= sessions
    BY <1>1, <1>2, <1>3 DEF NothingNewer
  <2>2. QED
    BY <1>5, <2>1 DEF Known
<1>7. NothingNewer'
  <2>1. \A x \in tabs' \union rendered' : x.status = "ready" => Known(x)
    BY <1>1, <1>2, <1>5, <1>6 DEF NothingNewer
  <2>2. QED
    BY <1>1, <1>2, <1>4, <1>6, <2>1, NothingNewerStays
<1>8. ConfiguresOrdered'
  <2>1. /\ \A i \in 1 .. Len(main) : main[i] \in Outstanding
        /\ \A b \in replies : b.call \in Outstanding
    BY <1>1, PagesTyped
  <2>2. \A b \in replies : b.call.kind = "configure" /\ Newest(b.call)' => Newest(b.call)
    BY <1>2, NewestSame
  <2>3. \A e \in {c} : e.kind # "configure"
    OBVIOUS
  <2>4. QED
    BY <1>1, <1>2, <1>4, <2>1, <2>2, <2>3, ConfiguresOrderedStays
<1>9. ClosesDone'
  BY <1>1, <1>2, ClosesDoneStays
<1>10. ASSUME NEW e \in DOMAIN open
       PROVE  CloseComes(e)' \/ TabCloses(e)' \/ NeverShown(e)'
  <2>1. \A b \in {c} : ~ ConfigureOf(b, e)
    BY DEF ConfigureOf
  <2>2. CASE e # d
    <3>1. \A t \in tabs : t.document = e => \E x \in tabs' : x.document = e
      BY <1>5
    <3>2. \A x \in tabs' \union rendered' : x.document = e =>
           \E t \in tabs \union rendered : t.document = e /\ x.session = t.session
      BY <1>2, <1>5, <2>2
    <3>3. QED
      BY <1>2, <1>4, <2>1, <3>1, <3>2, OtherKept
  <2>3. CASE e = d
    <3>1. a.value = open[d].session
      BY <1>1, <1>2, <2>3 DEF ConfiguresOrdered
    <3>2. PICK u \in tabs : u.document = d
      BY <1>1, <1>2, <1>3 DEF CallsNumbered, PageKinds
    <3>3. CASE CloseComes(d)
      BY <1>2, <1>4, <2>3, <3>3, CloseStays
    <3>4. CASE TabCloses(d)
      <4>1. \E x \in tabs' : x.document = d
        BY <1>5, <3>2
      <4>2. \A b \in {c} : ~ Renews(b, d)
        BY <2>1, <2>3 DEF Renews
      <4>3. \A x \in tabs' \union rendered' : x.document = d =>
           \/ x.session = open[d].session
           \/ /\ \E t \in tabs \union rendered : t.document = d /\ x.session = t.session
              /\ \A b \in {c} : ~ Renews(b, d)
        BY <1>2, <1>5, <3>1, <4>2
      <4>4. TabCloses(d)'
        BY <1>2, <1>4, <3>4, <4>1, <4>3, TabClosesStays
      <4>5. QED
        BY <2>3, <4>4
    <3>5. CASE NeverShown(d)
      BY <3>2, <3>5 DEF NeverShown
    <3>6. QED
      BY <1>1, <2>3, <3>3, <3>4, <3>5 DEF DocumentsKept
  <2>4. QED
    BY <2>2, <2>3
<1>11. DocumentsKept'
  BY <1>2, <1>10 DEF DocumentsKept, backend
<1>12. QED
  BY <1>7, <1>8, <1>9, <1>11 DEF DocumentsAgree

LEMMA ConfigureArrivedForgets ==
  ASSUME KeptInvariant, PageTypes', NEW a \in replies, ConfigureArrives(a)
  PROVE  DocumentsAgree'
<1>1. PageTypes /\ CallTypes
  BY KeptFacts
<1>2. /\ Arrives(a, {"configure"}) /\ a.call.kind = "configure" /\ UNCHANGED rendered
  BY DEF ConfigureArrives, Arrives
<1>3. Newest(a.call) <=> latest[a.call.document].status = a.call.number
  BY <1>2 DEF Newest, LatestOf, PageKinds
<1>4. PICK d : d = a.call.document
  OBVIOUS
<1>5. CASE ~ Newest(a.call)
  <2>1. UNCHANGED <<tabs, main>>
    BY <1>3, <1>5 DEF ConfigureArrives
  <2>2. ShowsOn
    BY <1>1, <1>2, <2>1, ReadyStay
  <2>3. QED
    BY <1>2, <2>1, <2>2, AnswerForgets
<1>6. CASE Newest(a.call) /\ a.value = 0
  <2>1. PICK g : g = [t \in Tabs |-> Failure(Configured(t))]
    OBVIOUS
  <2>2. /\ tabs' = {IF u.document = d THEN g[u] ELSE u : u \in tabs}
        /\ UNCHANGED main
    BY <1>3, <1>4, <1>6, <2>1 DEF ConfigureArrives, Update
  <2>3. \A u \in tabs : u.document = d => g[u].document = d /\ g[u].session = u.session
    <3>1. \A u \in tabs : u \in Tabs /\ g[u] = Failure(Configured(u))
      BY <1>1, <2>1 DEF PageTypes, ShownTabs
    <3>2. QED
      BY <3>1 DEF Tabs, Failure, Configured
  <2>4. ShowsOn
    BY <1>2, <2>2, <2>3, ReadyChange
  <2>5. QED
    BY <1>2, <2>2, <2>4, AnswerForgets
<1>7. CASE Newest(a.call) /\ a.value # 0
  <2>1. PICK g : g = [t \in Tabs |-> [t EXCEPT !.session = a.value]]
    OBVIOUS
  <2>2. PICK o : o = [document |-> d, session |-> a.value]
    OBVIOUS
  <2>3. PICK c : c = Call("first_page", None, o, {}, a.call.number)
    OBVIOUS
  <2>4. /\ tabs' = {IF u.document = d THEN g[u] ELSE u : u \in tabs}
        /\ main' = Append(main, c)
    BY <1>3, <1>4, <1>7, <2>1, <2>2, <2>3 DEF ConfigureArrives, Update
  <2>5. c.kind = "first_page" /\ c.document = d /\ c.session = a.value
    BY <2>2, <2>3 DEF Call
  <2>6. c \in SentCalls
    <3>1. a.call.number \in Nat /\ a.value \in Sessions /\ a.call.document \in Documents
      BY <1>1, <1>2, <1>7, ArrivalTyped DEF SettledKinds
    <3>2. o \in Opened
      BY <1>4, <2>2, <3>1 DEF Opened
    <3>3. QED
      BY <2>3, <3>1, <3>2, CallTyped
  <2>7. \A u \in tabs : g[u].document = u.document /\ g[u].session = a.value
    <3>1. \A u \in tabs : u \in Tabs /\ g[u] = [u EXCEPT !.session = a.value]
      BY <1>1, <2>1 DEF PageTypes, ShownTabs
    <3>2. QED
      BY <3>1 DEF Tabs
  <2>8. QED
    BY <1>2, <1>4, <1>7, <2>4, <2>5, <2>6, <2>7, SessionTakenForgets
<1>8. QED
  BY <1>5, <1>6, <1>7

\* What answers and calls a new turn of a document overtakes.
LEMMA TurnInvalidates ==
  ASSUME PageTypes, NEW d \in Documents, Invalidated(d)
  PROVE  /\ latest'[d].status = latest[d].status + 1 /\ latest[d].status \in Nat
         /\ \A c : (/\ c.kind = "configure" /\ c.document \in Documents
                    /\ c.number \in Nat /\ c.number <= LatestOf(c) /\ Newest(c)')
                   => Newest(c)
<1>1. /\ latest'[d].status = latest[d].status + 1 /\ latest[d].status \in Nat
      /\ \A e \in Documents : e # d => latest'[e] = latest[e]
  BY DEF Invalidated, PageTypes
<1>2. ASSUME NEW c, c.kind = "configure", c.document \in Documents, c.number \in Nat,
             c.number <= LatestOf(c), Newest(c)'
      PROVE  Newest(c)
  <2>1. LatestOf(c) = latest[c.document].status /\ LatestOf(c)' = latest'[c.document].status
    BY <1>2 DEF LatestOf
  <2>2. c.document # d
    BY <1>1, <1>2, <2>1 DEF Newest
  <2>3. QED
    BY <1>1, <1>2, <2>1, <2>2 DEF Newest
<1>3. QED
  BY <1>1, <1>2

LEMMA ConfigureAskedForgets ==
  ASSUME KeptInvariant, PageTypes', NEW t \in rendered, ConfigureCsv(t)
  PROVE  DocumentsAgree'
<1>1. /\ SessionInvariant /\ PageInvariant /\ PageTypes /\ BackendTypes /\ CallsNumbered
      /\ TabsOpened /\ SessionsGrow
      /\ NothingNewer /\ ConfiguresOrdered /\ ClosesDone /\ DocumentsKept
  BY KeptFacts
<1>2. PICK d : d = t.document
  OBVIOUS
<1>3. PICK n : n = latest[d].status + 1
  OBVIOUS
<1>4. PICK c : c = Call("configure", None, t, {}, n)
  OBVIOUS
<1>5. PICK g : g = [u \in Tabs |-> [u EXCEPT !.configuring = TRUE, !.failed = FALSE]]
  OBVIOUS
<1>6. /\ t.status = "ready" /\ Invalidated(d) /\ main' = Append(main, c)
      /\ tabs' = {IF u.document = d THEN g[u] ELSE u : u \in tabs} /\ rendered' = tabs'
      /\ UNCHANGED <<deferred, phase, result, backend, replies>>
  BY <1>2, <1>3, <1>4, <1>5 DEF ConfigureCsv, Update
<1>7. t \in ShownTabs /\ d \in Documents
  BY <1>1, <1>2, <1>6, ShownFacts DEF PageTypes
<1>8. n = latest[d].status + 1 /\ latest[d].status \in Nat /\ n \in Nat
  BY <1>1, <1>3, <1>6, <1>7, TurnInvalidates
<1>9. c.kind = "configure" /\ c.document = d /\ c.session = t.session /\ c.number = n
  BY <1>2, <1>4 DEF Call
<1>10. c \in SentCalls
  BY <1>4, <1>6, <1>7, <1>8, CallTyped
<1>11. Grows({c}) /\ Len(main') = Len(main) + 1
  BY <1>1, <1>6, <1>10, GrowsOne
<1>12. Known(c)
  <2>1. Known(t)
    BY <1>1, <1>6 DEF NothingNewer
  <2>2. QED
    BY <1>2, <1>9, <2>1 DEF Known
<1>13. /\ \A x \in tabs' : \E u \in tabs : x.document = u.document /\ x.session = u.session
       /\ \A u \in tabs : \E x \in tabs' : x.document = u.document
  <2>1. \A u \in tabs : u \in Tabs /\ g[u] = [u EXCEPT !.configuring = TRUE, !.failed = FALSE]
    BY <1>1, <1>5 DEF PageTypes, ShownTabs
  <2>2. \A u \in tabs : g[u].document = u.document /\ g[u].session = u.session
    BY <2>1 DEF Tabs
  <2>3. \A x \in tabs' : \E u \in tabs : x.document = u.document /\ x.session = u.session
    BY <1>6, <2>2
  <2>4. ASSUME NEW u \in tabs PROVE \E x \in tabs' : x.document = u.document
    <3>1. CASE u.document = d
      <4>1. g[u] \in tabs' /\ g[u].document = u.document
        BY <1>6, <2>2, <3>1
      <4>2. QED
        BY <4>1
    <3>2. CASE u.document # d
      BY <1>6, <3>2
    <3>3. QED
      BY <3>1, <3>2
  <2>5. QED
    BY <2>3, <2>4
<1>14. NothingNewer'
  <2>1. ASSUME NEW x \in tabs' \union rendered', x.status = "ready"
        PROVE  Known(x)
    <3>1. x.document \in Documents
      BY <1>6, <2>1, ShownFacts DEF PageTypes
    <3>2. PICK u \in tabs : x.document = u.document /\ x.session = u.session
      BY <1>6, <1>13
    <3>3. Known(u)
      BY <1>1, <3>1, <3>2, RenderedShown DEF NothingNewer
    <3>4. QED
      BY <3>2, <3>3 DEF Known
  <2>2. QED
    BY <1>1, <1>6, <1>11, <1>12, <2>1, NothingNewerStays
<1>15. ConfiguresOrdered'
  <2>1. /\ \A i \in 1 .. Len(main) : main[i] \in Outstanding
        /\ \A b \in replies : b.call \in Outstanding
    BY <1>1, PagesTyped
  <2>2. \A e \in Outstanding : e.kind = "configure" =>
          e.document \in Documents /\ e.number \in Nat /\ e.number <= LatestOf(e)
    BY <1>1, PagesTyped DEF CallsNumbered, IsPage, PageKinds
  <2>3. \A b \in replies : b.call.kind = "configure" /\ Newest(b.call)' => Newest(b.call)
    BY <1>1, <1>6, <1>7, <2>1, <2>2, TurnInvalidates
  <2>4. \A e \in Outstanding : ConfigureOf(e, d) => e.number < n
    BY <1>8, <2>2 DEF LatestOf, ConfigureOf
  <2>5. \A b \in {c} : b.kind = "configure" =>
           /\ Len(main') = Len(main) + 1
           /\ \A e \in Outstanding : ConfigureOf(e, b.document) => e.number < b.number
    BY <1>9, <1>11, <2>4
  <2>6. QED
    BY <1>1, <1>6, <1>11, <2>1, <2>3, <2>5, ConfiguresOrderedStays
<1>16. ClosesDone'
  BY <1>1, <1>6, ClosesDoneStays
<1>17. ASSUME NEW e \in DOMAIN open
       PROVE  CloseComes(e)' \/ TabCloses(e)' \/ NeverShown(e)'
  <2>1. \A x \in tabs' \union rendered' : x.document = e =>
           \E u \in tabs \union rendered : u.document = e /\ x.session = u.session
    <3> SUFFICES ASSUME NEW x \in tabs' \union rendered', x.document = e
                 PROVE  \E u \in tabs \union rendered : u.document = e /\ x.session = u.session
      OBVIOUS
    <3>1. PICK u \in tabs : x.document = u.document /\ x.session = u.session
      BY <1>6, <1>13
    <3>2. QED
      BY <3>1
  <2>2. CASE e # d
    <3>1. \A b \in {c} : ~ ConfigureOf(b, e)
      BY <1>9, <2>2 DEF ConfigureOf
    <3>2. \A u \in tabs : u.document = e => \E x \in tabs' : x.document = e
      BY <1>13
    <3>3. QED
      BY <1>6, <1>11, <2>1, <3>1, <3>2, OtherKept
  <2>3. CASE e = d
    <3>1. PICK u \in tabs : u.document = d
      BY <1>1, <1>2, <1>6 DEF TabsOpened
    <3>2. CASE CloseComes(d)
      BY <1>6, <1>11, <2>3, <3>2, CloseStays
    <3>3. CASE TabCloses(d)
      <4>1. \E x \in tabs' : x.document = d
        BY <1>13, <3>1
      <4>2. ASSUME NEW x \in tabs' \union rendered', x.document = d
            PROVE  \/ x.session = open[d].session
                   \/ /\ \E v \in tabs \union rendered : v.document = d /\ x.session = v.session
                      /\ \A b \in {c} : ~ Renews(b, d)
        <5>1. PICK v \in tabs : v.document = d /\ x.session = v.session
          BY <1>6, <1>13, <4>2
        <5>2. CASE Renews(c, d)
          <6>1. t.session = open[d].session
            BY <1>9, <5>2 DEF Renews
          <6>2. t.session <= v.session /\ v.session <= open[d].session
            BY <1>1, <1>2, <1>6, <2>3, <5>1 DEF TabsOpened, SessionsGrow
          <6>3. v.session \in Nat /\ t.session \in Nat
            BY <1>1, ShownTyped
          <6>4. QED
            BY <5>1, <6>1, <6>2, <6>3
        <5>3. CASE ~ Renews(c, d)
          BY <5>1, <5>3
        <5>4. QED
          BY <5>2, <5>3
      <4>3. TabCloses(d)'
        BY <1>6, <1>11, <3>3, <4>1, <4>2, TabClosesStays
      <4>4. QED
        BY <2>3, <4>3
    <3>4. CASE NeverShown(d)
      BY <3>1, <3>4 DEF NeverShown
    <3>5. QED
      BY <1>1, <2>3, <3>2, <3>3, <3>4 DEF DocumentsKept
  <2>4. QED
    BY <2>2, <2>3
<1>18. DocumentsKept'
  BY <1>6, <1>17 DEF DocumentsKept, backend
<1>19. QED
  BY <1>14, <1>15, <1>16, <1>18 DEF DocumentsAgree

-----------------------------------------------------------------------------
(* Documents: closing *)

\* A document is shown by the tab of its id alone.
LEMMA SameShown ==
  ASSUME SessionInvariant, NEW t \in rendered, t.status = "ready"
  PROVE  t.document \in Documents /\ \A u \in tabs : Same(u, t) <=> u.document = t.document
<1>1. PageTypes /\ TabsOpened /\ ResultsAgree
  BY DEF SessionInvariant, PageInvariant, TypesHold, TabsAgree
<1>2. /\ \A u \in tabs \union rendered : u.status = "ready" <=> u.document \in Documents
      /\ \A u \in tabs \union rendered : u.status = "ready" => u.request = None
  BY <1>1, ShownTyped
<1>3. PICK d : d = t.document
  OBVIOUS
<1>4. d \in Documents
  BY <1>2, <1>3
<1>5. ASSUME NEW u \in tabs, u.document = d
      PROVE  u.path = t.path /\ u.request = t.request
  <2>1. u.status = "ready"
    BY <1>2, <1>4, <1>5
  <2>2. PICK r \in Requests : u.path \in DOMAIN result[r] /\ result[r][u.path].document = d
    BY <1>1, <1>5, <2>1 DEF TabsOpened
  <2>3. PICK s \in Requests : t.path \in DOMAIN result[s] /\ result[s][t.path].document = d
    BY <1>1, <1>3 DEF TabsOpened
  <2>4. result[r][u.path] # NotOpened
    BY <1>4, <2>2 DEF NotOpened, Documents
  <2>5. u.path = t.path
    BY <1>1, <2>2, <2>3, <2>4 DEF ResultsAgree
  <2>6. QED
    BY <1>2, <2>1, <2>5
<1>6. QED
  BY <1>3, <1>4, <1>5 DEF Same

LEMMA TabClosedForgets ==
  ASSUME KeptInvariant, PageTypes', NEW t \in rendered, CloseTab(t)
  PROVE  DocumentsAgree'
<1>1. /\ SessionInvariant /\ PageInvariant /\ PageTypes /\ BackendTypes /\ CallsNumbered
      /\ NothingNewer /\ ConfiguresOrdered /\ ClosesDone /\ DocumentsKept
  BY KeptFacts
<1>2. /\ tabs' = {u \in tabs : ~ Same(u, t)} /\ rendered' = tabs' /\ Invalidated(t.document)
      /\ main' = IF t.status = "ready" THEN Append(main, CloseCall(t)) ELSE main
      /\ UNCHANGED <<deferred, phase, result, backend, replies>>
  BY DEF CloseTab
<1>3. CASE t.status # "ready"
  <2>1. /\ \A u \in tabs \union rendered : u.status = "ready" <=> u.document \in Documents
        /\ \A u \in tabs \union rendered : u.status = "ready" => u.request = None
        /\ \A u \in tabs \union rendered : u.status # "ready" => u.request \in Requests
    BY <1>1, ShownTyped
  <2>2. UNCHANGED latest
    BY <1>1, <1>2, <1>3, <2>1 DEF Invalidated, PageTypes
  <2>3. \A u \in tabs : u.status = "ready" => ~ Same(u, t)
    BY <1>3, <2>1, TabsAssumption DEF Same
  <2>4. ShowsOn
    BY <1>1, <1>2, <2>3, ReadyStay
  <2>5. Grows({})
    BY <1>1, <1>2, <1>3, GrowsNone
  <2>6. \A c : Newest(c)' <=> Newest(c)
    BY <2>2, NewestSame
  <2>7. QED
    BY <1>2, <2>4, <2>5, <2>6, QuietKeeps
<1>4. CASE t.status = "ready"
  <2>1. PICK d : d = t.document
    OBVIOUS
  <2>2. PICK c : c = CloseCall(t)
    OBVIOUS
  <2>3. /\ d \in Documents /\ tabs' = {u \in tabs : u.document # d} /\ Invalidated(d)
        /\ main' = Append(main, c)
    BY <1>1, <1>2, <1>4, <2>1, <2>2, SameShown
  <2>4. c.kind = "close" /\ CloseOf(c, d) /\ c.document = d /\ c.session = t.session
    BY <2>1, <2>2 DEF CloseCall, Call, CloseOf
  <2>5. c \in SentCalls
    BY <1>1, <1>4, <2>2, CallTyped DEF PageTypes
  <2>6. Grows({c})
    BY <1>1, <1>2, <2>3, <2>5, GrowsOne
  <2>7. Known(c)
    <3>1. Known(t)
      BY <1>1, <1>4 DEF NothingNewer
    <3>2. QED
      BY <2>1, <2>4, <3>1 DEF Known
  <2>8. NothingNewer'
    <3>1. \A x \in tabs' \union rendered' : x.status = "ready" => Known(x)
      BY <1>1, <1>2 DEF NothingNewer
    <3>2. QED
      BY <1>1, <1>2, <2>6, <2>7, <3>1, NothingNewerStays
  <2>9. ConfiguresOrdered'
    <3>1. /\ \A i \in 1 .. Len(main) : main[i] \in Outstanding
          /\ \A b \in replies : b.call \in Outstanding
      BY <1>1, PagesTyped
    <3>2. \A e \in Outstanding : e.kind = "configure" =>
            e.document \in Documents /\ e.number \in Nat /\ e.number <= LatestOf(e)
      BY <1>1, PagesTyped DEF CallsNumbered, IsPage, PageKinds
    <3>3. \A b \in replies : b.call.kind = "configure" /\ Newest(b.call)' => Newest(b.call)
      BY <1>1, <2>3, <3>1, <3>2, TurnInvalidates
    <3>4. \A b \in {c} : b.kind # "configure"
      BY <2>4
    <3>5. QED
      BY <1>1, <1>2, <2>6, <3>1, <3>3, <3>4, ConfiguresOrderedStays
  <2>10. ClosesDone'
    BY <1>1, <1>2, ClosesDoneStays
  <2>11. ASSUME NEW e \in DOMAIN open
         PROVE  CloseComes(e)' \/ TabCloses(e)' \/ NeverShown(e)'
    <3>1. CASE e # d
      <4>1. \A b \in {c} : ~ ConfigureOf(b, e)
        BY <2>4 DEF ConfigureOf
      <4>2. \A u \in tabs : u.document = e => \E x \in tabs' : x.document = e
        BY <2>3, <3>1
      <4>3. \A x \in tabs' \union rendered' : x.document = e =>
              \E u \in tabs \union rendered : u.document = e /\ x.session = u.session
        BY <1>2
      <4>4. QED
        BY <1>2, <2>6, <4>1, <4>2, <4>3, OtherKept
    <3>2. CASE e = d
      <4>1. CASE CloseComes(d)
        BY <1>2, <2>6, <3>2, <4>1, CloseStays
      <4>2. CASE TabCloses(d)
        <5>1. /\ c.session \in Closable(d)
              /\ \A i \in 1 .. Len(main) : Renews(main[i], d) => c.session = open[d].session
          BY <2>1, <2>4, <4>2 DEF TabCloses
        <5>2. c \in {c} /\ \A b \in {c} : b.kind # "configure"
          BY <2>4
        <5>3. CloseComes(d)'
          BY <1>2, <2>4, <2>6, <5>1, <5>2, CloseIsSent
        <5>4. QED
          BY <3>2, <5>3
      <4>3. CASE NeverShown(d)
        BY <1>1, <2>1, <2>3, <4>3, RenderedShown DEF NeverShown
      <4>4. QED
        BY <1>1, <3>2, <4>1, <4>2, <4>3 DEF DocumentsKept
    <3>3. QED
      BY <3>1, <3>2
  <2>12. DocumentsKept'
    BY <1>2, <2>11 DEF DocumentsKept, backend
  <2>13. QED
    BY <2>8, <2>9, <2>10, <2>12 DEF DocumentsAgree
<1>5. QED
  BY <1>3, <1>4

\* Cleanups are sent for files, after a cancellation perhaps.
LEMMA CleanupGrows ==
  ASSUME PageInvariant, NothingNewer, NEW files, OpenedFiles(files), NEW first \in Seq(SentCalls),
         \A i \in 1 .. Len(first) : first[i].kind = "cancel",
         NEW calls \in SetToSeqs({CleanupCall(f[1], f[2]) : f \in {e \in files : e[1] \notin cleaned}}),
         main' = (main \o first) \o calls, UNCHANGED replies
  PROVE  \E as : /\ Grows(as) /\ \A f \in files : KeptBy(as, f[1])
                 /\ \A c \in as : /\ c.kind # "configure"
                                  /\ c.kind \notin {"open", "cancel"} => Known(c)
<1> DEFINE new == {e \in files : e[1] \notin cleaned}
<1>1. /\ new \in SUBSET (Opened \X Paths) /\ new \subseteq files
      /\ \A f \in files : f[1] \in cleaned \/ f \in new
  BY DEF OpenedFiles
<1>2. calls \in SetToSeqs({CleanupCall(f[1], f[2]) : f \in new})
  OBVIOUS
<1> HIDE DEF new
<1>3. /\ calls \in Seq(SentCalls)
      /\ \A i \in 1 .. Len(calls) : \E f \in new : calls[i] = CleanupCall(f[1], f[2])
      /\ \A f \in new : \E i \in 1 .. Len(calls) : calls[i] = CleanupCall(f[1], f[2])
  BY <1>1, <1>2, CleanupsListed
<1>4. main \in Seq(SentCalls)
  BY PagesTyped
<1>5. PICK added : added = first \o calls
  OBVIOUS
<1>6. added \in Seq(SentCalls) /\ main' = main \o added
  <2>1. first \o calls \in Seq(SentCalls) /\ (main \o first) \o calls = main \o (first \o calls)
    BY <1>3, <1>4, ConcatProperties, ConcatAssociative
  <2>2. QED
    BY <1>5, <2>1
<1>7. Range(added) = Range(first) \union Range(calls)
  <2>1. Range(first \o calls) = Range(first) \union Range(calls)
    BY <1>3, Joined
  <2>2. QED
    BY <1>5, <2>1
<1>8. Grows(Range(added))
  <2>1. replies' \subseteq replies
    OBVIOUS
  <2>2. QED
    BY <1>6, <2>1, GrowsBy
<1>9. /\ \A c \in Range(first) : c.kind = "cancel"
      /\ \A c \in Range(calls) : \E f \in new : c = CleanupCall(f[1], f[2])
      /\ \A f \in new : CleanupCall(f[1], f[2]) \in Range(calls)
  BY <1>3, LenProperties DEF Range
<1>10. \A o, p : /\ CleanupCall(o, p).kind = "cleanup" /\ CleanupCall(o, p).document = o.document
                 /\ CleanupCall(o, p).session = o.session
  BY DEF CleanupCall, Call
<1>11. ASSUME NEW f \in files PROVE KeptBy(Range(added), f[1])
  <2>1. CASE f[1] \in cleaned
    BY <2>1 DEF KeptBy
  <2>2. CASE f \in new
    <3>1. PICK c : c = CleanupCall(f[1], f[2])
      OBVIOUS
    <3>2. c \in Range(added)
      BY <1>7, <1>9, <2>2, <3>1
    <3>3. CloseOf(c, f[1].document) /\ c.session = f[1].session
      BY <1>10, <3>1 DEF CloseOf
    <3>4. QED
      BY <3>2, <3>3 DEF KeptBy
  <2>3. QED
    BY <1>1, <2>1, <2>2
<1>12. ASSUME NEW c \in Range(added)
       PROVE  c.kind # "configure" /\ (c.kind \notin {"open", "cancel"} => Known(c))
  <2>1. CASE c \in Range(first)
    BY <1>9, <2>1
  <2>2. CASE c \in Range(calls)
    <3>1. PICK f \in new : c = CleanupCall(f[1], f[2])
      BY <1>9, <2>2
    <3>2. f \in files /\ f[1] \in Opened
      BY <1>1
    <3>3. PICK r \in Requests : f[2] \in DOMAIN result[r] /\ result[r][f[2]] = f[1]
      BY <3>2 DEF OpenedFiles
    <3>4. f[1] # NotOpened
      BY <3>2 DEF Opened, NotOpened, Documents
    <3>5. Known(f[1])
      BY <3>3, <3>4 DEF NothingNewer
    <3>6. QED
      BY <1>10, <3>1, <3>5 DEF Known
  <2>3. QED
    BY <1>7, <2>1, <2>2
<1>13. QED
  BY <1>8, <1>11, <1>12

LEMMA CleaningGrows ==
  ASSUME PageInvariant, NothingNewer, NEW files, OpenedFiles(files), Cleanup(files), UNCHANGED replies
  PROVE  \E as : /\ Grows(as) /\ \A f \in files : KeptBy(as, f[1])
                 /\ \A c \in as : /\ c.kind # "configure"
                                  /\ c.kind \notin {"open", "cancel"} => Known(c)
<1>1. PICK calls \in SetToSeqs({CleanupCall(f[1], f[2]) : f \in {e \in files : e[1] \notin cleaned}}) :
        main' = main \o calls
  BY DEF Cleanup
<1>2. PICK first : first = <<>>
  OBVIOUS
<1>3. /\ first \in Seq(SentCalls) /\ main = main \o first
      /\ \A i \in 1 .. Len(first) : first[i].kind = "cancel"
  BY <1>2, PagesTyped, NothingSent
<1>4. main' = (main \o first) \o calls
  BY <1>1, <1>3
<1>5. QED
  BY <1>3, <1>4, CleanupGrows

\* The entries that a request owned end, and their documents are cleaned up.
LEMMA OwnedLeft ==
  ASSUME PageTypes, NEW r, NEW ps, ps \subseteq Paths, NEW as,
         deferred' = [p \in Paths |-> IF p \in Owned(r, ps) THEN None ELSE deferred[p]],
         \A f \in Unretained(r, ps, [p \in ps |-> NotOpened]) : KeptBy(as, f[1]),
         NEW p \in Paths, deferred[p] # None
  PROVE  KeptBy(as, deferred[p].opened)
<1>1. CASE p \in Owned(r, ps)
  <2>1. deferred[p].opened \in Opened /\ p \in ps
    BY <1>1 DEF PageTypes, Owned
  <2>2. deferred[p].opened # NotOpened
    BY <2>1 DEF Opened, NotOpened, Documents
  <2>3. PICK f : f = <<deferred[p].opened, p>>
    OBVIOUS
  <2>4. f \in Unretained(r, ps, [q \in ps |-> NotOpened]) /\ f[1] = deferred[p].opened
    BY <1>1, <2>1, <2>2, <2>3 DEF Unretained
  <2>5. QED
    BY <2>4
<1>2. CASE p \notin Owned(r, ps)
  BY <1>2 DEF KeptBy
<1>3. QED
  BY <1>1, <1>2

LEMMA OpenFailsForgets ==
  ASSUME KeptInvariant, PageTypes', NEW r \in Requests, FailOpen(r)
  PROVE  DocumentsAgree'
<1>1. PageInvariant /\ PageTypes /\ CallTypes /\ ResultsAgree /\ NothingNewer
  BY KeptFacts
<1>2. /\ phase[r] = "rejected" /\ phase' = [phase EXCEPT ![r] = "done"]
      /\ UNCHANGED <<rendered, latest, result, backend, replies>>
  BY DEF FailOpen
<1>3. /\ \A s \in Requests : phase[s] \in {"sent", "answered"} => phase'[s] \in {"sent", "answered"}
      /\ \A c : Newest(c)' <=> Newest(c)
  BY <1>1, <1>2, NewestSame DEF CallTypes
<1>4. CASE r \in Dialogs
  <2>1. UNCHANGED <<tabs, deferred, main>>
    BY <1>4 DEF FailOpen
  <2>2. Grows({})
    BY <1>1, <1>2, <2>1, GrowsNone
  <2>3. ShowsOn
    BY <1>1, <1>2, <2>1, ReadyStay
  <2>4. QED
    BY <1>2, <1>3, <2>1, <2>2, <2>3, QuietKeeps
<1>5. CASE r \notin Dialogs
  <2>1. PICK ps : ps = PathsOf[r]
    OBVIOUS
  <2>2. /\ deferred' = [p \in Paths |-> IF p \in Owned(r, ps) THEN None ELSE deferred[p]]
        /\ Cleanup(Unretained(r, ps, [p \in ps |-> NotOpened]))
        /\ tabs' = {IF t.request = r THEN [t EXCEPT !.status = "error"] ELSE t : t \in tabs}
    BY <1>5, <2>1 DEF FailOpen
  <2>3. ps \in SUBSET Paths
    BY <2>1, TabsAssumption
  <2>4. PICK files : files = Unretained(r, ps, [p \in ps |-> NotOpened])
    OBVIOUS
  <2>5. PICK as : /\ Grows(as) /\ \A f \in files : KeptBy(as, f[1])
                  /\ \A c \in as : /\ c.kind # "configure"
                                   /\ c.kind \notin {"open", "cancel"} => Known(c)
    <3>1. OpenedFiles(files) /\ Cleanup(files)
      BY <1>1, <2>2, <2>3, <2>4, UnretainedOpened
    <3>2. QED
      BY <1>1, <1>2, <3>1, CleaningGrows
  <2>6. \A p \in Paths : deferred[p] # None => KeptBy(as, deferred[p].opened)
    BY <1>1, <2>2, <2>3, <2>4, <2>5, OwnedLeft
  <2>7. ShowsOn
    <3>1. \A t \in tabs : t.status = "ready" => t.request # r
      BY <1>1, ShownTyped, TabsAssumption
    <3>2. \A t \in tabs : t.status = "ready" => t \in tabs'
      BY <2>2, <3>1
    <3>3. \A t \in tabs : [t EXCEPT !.status = "error"].status # "ready"
      BY <1>1 DEF PageTypes, ShownTabs, Tabs
    <3>4. \A t \in tabs' : t.status = "ready" => t \in tabs
      BY <2>2, <3>3
    <3>5. QED
      BY <1>1, <1>2, <3>2, <3>4, ReadyStay
  <2>8. QED
    BY <1>2, <1>3, <2>5, <2>6, <2>7, LeavesKeeps
<1>6. QED
  BY <1>4, <1>5

LEMMA PendingClosedForgets ==
  ASSUME KeptInvariant, PageTypes', NEW t \in rendered, ClosePending(t)
  PROVE  DocumentsAgree'
<1>1. PageInvariant /\ PageTypes /\ CallTypes /\ ResultsAgree /\ NothingNewer
  BY KeptFacts
<1>2. PICK r : r = t.request
  OBVIOUS
<1>3. PICK group : group = {u \in rendered : u.status = "loading" /\ u.request = r}
  OBVIOUS
<1>4. PICK ps : ps = {u.path : u \in group}
  OBVIOUS
<1>5. PICK files : files = Unretained(r, ps, [p \in ps |-> NotOpened])
  OBVIOUS
<1>6. /\ t.status = "loading"
      /\ tabs' = {u \in tabs : \A v \in group : ~ Same(u, v)} /\ rendered' = tabs'
      /\ deferred' = [p \in Paths |-> IF p \in Owned(r, ps) THEN None ELSE deferred[p]]
      /\ \E calls \in SetToSeqs({CleanupCall(f[1], f[2]) :
                                   f \in {e \in files : e[1] \notin cleaned}}) :
           main' = Append(main, CancelCall(r, ps)) \o calls
      /\ UNCHANGED <<latest, phase, result, backend, replies>>
  BY <1>2, <1>3, <1>4, <1>5, Zenon DEF ClosePending
<1>7. r \in Requests /\ \A u \in group : u.path \in Paths /\ u.request \in Requests
  BY <1>1, <1>2, <1>3, <1>6 DEF PageTypes, ShownTabs, Tabs
<1>8. ps \in SUBSET Paths
  BY <1>4, <1>7
<1>9. PICK as : /\ Grows(as) /\ \A f \in files : KeptBy(as, f[1])
                /\ \A c \in as : /\ c.kind # "configure"
                                 /\ c.kind \notin {"open", "cancel"} => Known(c)
  <2>1. PICK calls \in SetToSeqs({CleanupCall(f[1], f[2]) :
                                   f \in {e \in files : e[1] \notin cleaned}}) :
           main' = Append(main, CancelCall(r, ps)) \o calls
    BY <1>6
  <2>2. PICK first : first = <<CancelCall(r, ps)>>
    OBVIOUS
  <2>3. CancelCall(r, ps) \in SentCalls /\ CancelCall(r, ps).kind = "cancel"
    BY <1>7, <1>8, CallTyped DEF CancelCall, Call
  <2>4. /\ first \in Seq(SentCalls) /\ Append(main, CancelCall(r, ps)) = main \o first
        /\ \A i \in 1 .. Len(first) : first[i].kind = "cancel"
    BY <2>2, <1>1, <2>3, Single, PagesTyped
  <2>5. main' = (main \o first) \o calls
    BY <2>1, <2>4
  <2>6. OpenedFiles(files)
    BY <1>1, <1>5, <1>8, UnretainedOpened
  <2>7. QED
    BY <1>1, <1>6, <2>4, <2>5, <2>6, CleanupGrows
<1>10. \A p \in Paths : deferred[p] # None => KeptBy(as, deferred[p].opened)
  BY <1>1, <1>5, <1>6, <1>8, <1>9, OwnedLeft
<1>11. ShowsOn
  <2>1. \A u \in tabs : u.status = "ready" => u.request \notin Requests
    BY <1>1, ShownTyped, TabsAssumption
  <2>2. \A u \in tabs : u.status = "ready" => \A v \in group : ~ Same(u, v)
    BY <1>7, <2>1 DEF Same
  <2>3. /\ \A u \in tabs : u.status = "ready" => u \in tabs'
        /\ \A u \in tabs' : u.status = "ready" => u \in tabs
    BY <1>6, <2>2
  <2>4. QED
    BY <1>1, <1>6, <2>3, ReadyStay
<1>12. \A c : Newest(c)' <=> Newest(c)
  BY <1>6, NewestSame
<1>13. QED
  BY <1>6, <1>9, <1>10, <1>11, <1>12, LeavesKeeps

-----------------------------------------------------------------------------
(* Documents: the answer to an open *)

\* What the answer to an open brings is shown, kept for a reopen or cleaned up, and so is
\* what it takes from the entries that are kept.
LEMMA ResponseForgets ==
  ASSUME KeptInvariant, PageTypes', NEW r \in Requests, ApplyOpenResponse(r)
  PROVE  DocumentsAgree'
<1>1. /\ SessionInvariant /\ PageInvariant /\ CallTypes /\ ResultsAgree /\ PageTypes
      /\ BackendTypes /\ NothingNewer
  BY KeptFacts
<1>2. /\ phase[r] = "answered" /\ phase' = [phase EXCEPT ![r] = "done"]
      /\ UNCHANGED <<rendered, latest, result, backend, replies>>
  BY DEF ApplyOpenResponse
<1> DEFINE discarded == {p \in PathsOf[r] : <<r, p>> \in closedPending}
           opened == {p \in PathsOf[r] : result[r][p] # NotOpened}
           late == {p \in opened \intersect discarded :
                      ~ \E t \in rendered : /\ t.document = result[r][p].document
                                            /\ t.session = result[r][p].session}
           reopened == {p \in late : ReopenOwners(r, p) # {}}
           resolved == Owned(r, PathsOf[r] \ discarded)
           replaced == {p \in reopened : deferred[p] # None /\ deferred[p].opened # result[r][p]}
           shown == {t.document : t \in tabs}
           accepted == {q \in opened \ discarded : result[r][q].document \notin shown}
           files == Unretained(r, PathsOf[r] \ discarded, result[r])
                    \union {<<deferred[p].opened, p>> : p \in replaced}
                    \union {<<result[r][p], p>> : p \in late \ reopened}
<1>3. /\ \E owner \in [reopened -> Requests] :
           /\ deferred' = [p \in Paths |->
                IF p \in reopened THEN [owner |-> owner[p], opened |-> result[r][p]]
                ELSE IF p \in resolved THEN None ELSE deferred[p]]
      /\ Cleanup(files)
      /\ tabs' =
           {t \in tabs : ~ \E p \in PathsOf[r] \ discarded : Same(t, Pending(r, p, "loading"))}
           \union {Ready(result[r][p], p) : p \in accepted}
           \union {Pending(r, p, "error") : p \in PathsOf[r] \ (opened \union discarded)}
  BY Zenon DEF ApplyOpenResponse
<1>4. /\ late \subseteq opened /\ reopened \subseteq late
      /\ \A p : p \in opened <=> p \in PathsOf[r] /\ result[r][p] # NotOpened
      /\ \A p \in discarded : p \in PathsOf[r]
      /\ \A p \in opened \intersect discarded : p \notin late =>
           \E t \in rendered : t.document = result[r][p].document
      /\ replaced \subseteq reopened
      /\ \A p \in reopened : deferred[p] # None /\ deferred[p].opened # result[r][p] => p \in replaced
      /\ \A p \in replaced : deferred[p] # None
      /\ accepted \subseteq opened
      /\ \A p \in accepted : \A t \in tabs : t.document # result[r][p].document
      /\ \A p \in opened \ discarded : \/ p \in accepted
                                       \/ \E t \in tabs : t.document = result[r][p].document
      /\ resolved = Owned(r, PathsOf[r] \ discarded)
      /\ \A p \in Owned(r, PathsOf[r] \ discarded) :
           deferred[p].opened # result[r][p] => <<deferred[p].opened, p>> \in files
      /\ \A p \in replaced : <<deferred[p].opened, p>> \in files
      /\ \A p \in late \ reopened : <<result[r][p], p>> \in files
  BY DEF Unretained
<1>5. OpenedFiles(files)
  <2>1. PathsOf[r] \in SUBSET Paths /\ DOMAIN result[r] = PathsOf[r]
    BY <1>1, <1>2, TabsAssumption DEF CallTypes
  <2>2. \A p \in opened : /\ p \in Paths /\ p \in DOMAIN result[r] /\ result[r][p] \in Opened
    BY <1>1, <1>4, <2>1 DEF BackendTypes
  <2>3. /\ replaced \in SUBSET Paths /\ late \ reopened \in SUBSET DOMAIN result[r]
        /\ DOMAIN result[r] \in SUBSET Paths /\ PathsOf[r] \ discarded \in SUBSET Paths
        /\ \A p \in late \ reopened : result[r][p] \in Opened
    BY <1>4, <2>1, <2>2
  <2>4. \A p \in replaced : deferred[p] # None
    BY <1>4
  <2> HIDE DEF discarded, opened, late, reopened, resolved, replaced, shown, accepted
  <2>5. QED
    BY <1>1, <2>3, <2>4, ResponseFiles
<1> HIDE DEF discarded, opened, late, reopened, resolved, replaced, shown, accepted, files
<1>6. PathsOf[r] \in SUBSET Paths /\ DOMAIN result[r] = PathsOf[r]
  BY <1>1, <1>2, TabsAssumption DEF CallTypes
<1>7. \A p \in opened : /\ p \in Paths /\ p \in DOMAIN result[r] /\ result[r][p] \in Opened
                        /\ result[r][p] # NotOpened
  BY <1>1, <1>4, <1>6 DEF BackendTypes
<1>8. PICK as : /\ Grows(as) /\ \A f \in files : KeptBy(as, f[1])
                /\ \A c \in as : /\ c.kind # "configure"
                                 /\ c.kind \notin {"open", "cancel"} => Known(c)
  BY <1>1, <1>2, <1>3, <1>5, CleaningGrows
<1>9. \A o, p : <<o, p>> \in files => KeptBy(as, o)
  <2> SUFFICES ASSUME NEW o, NEW p, <<o, p>> \in files PROVE KeptBy(as, o)
    OBVIOUS
  <2>1. PICK f : f = <<o, p>>
    OBVIOUS
  <2>2. f \in files /\ f[1] = o
    BY <2>1
  <2>3. KeptBy(as, f[1])
    BY <1>8, <2>2
  <2>4. QED
    BY <2>2, <2>3
<1>10. \A t \in tabs : t.status = "ready" => t \in tabs'
  <2>1. \A t \in tabs : t.status = "ready" => t.request \notin Requests
    BY <1>1, ShownTyped, TabsAssumption
  <2>2. \A t \in tabs : \A p : t.status = "ready" => ~ Same(t, Pending(r, p, "loading"))
    BY <2>1 DEF Same, Pending
  <2>3. QED
    BY <1>3, <2>2
<1>11. /\ \A p \in accepted : Ready(result[r][p], p) \in tabs'
       /\ \A t \in tabs' : t.status = "ready" =>
            t \in tabs \/ \E p \in accepted : t = Ready(result[r][p], p)
  <2>1. \A p : Pending(r, p, "error").status # "ready"
    BY DEF Pending
  <2>2. QED
    BY <1>3, <2>1
<1>12. \A p : /\ Ready(result[r][p], p).document = result[r][p].document
              /\ Ready(result[r][p], p).session = result[r][p].session
  BY DEF Ready
<1>13. /\ \A t \in tabs \union rendered : t.document \in Documents => t.status = "ready"
       /\ \A t \in tabs' : t.document \in Documents => t.status = "ready"
  BY <1>1, ShownFacts DEF PageTypes
<1>14. \A t \in tabs : t.document \in Documents => \E x \in tabs' : x.document = t.document
  BY <1>10, <1>13
<1>15. ASSUME NEW p \in opened \ discarded
       PROVE  \E x \in tabs' : x.document = result[r][p].document
  <2>1. CASE p \in accepted
    <3>1. PICK x : x = Ready(result[r][p], p)
      OBVIOUS
    <3>2. x \in tabs' /\ x.document = result[r][p].document
      BY <1>11, <1>12, <2>1, <3>1
    <3>3. QED
      BY <3>2
  <2>2. CASE \E t \in tabs : t.document = result[r][p].document
    <3>1. result[r][p].document \in Documents
      BY <1>7 DEF Opened
    <3>2. QED
      BY <1>14, <2>2, <3>1
  <2>3. QED
    BY <1>4, <2>1, <2>2
<1>16. ASSUME NEW p \in reopened
       PROVE  /\ p \in Paths /\ deferred'[p] # None
              /\ deferred'[p].opened = result[r][p]
  <2>1. PICK owner \in [reopened -> Requests] :
           deferred' = [q \in Paths |->
                IF q \in reopened THEN [owner |-> owner[q], opened |-> result[r][q]]
                ELSE IF q \in resolved THEN None ELSE deferred[q]]
    BY <1>3
  <2>2. p \in Paths /\ result[r][p] \in Opened
    BY <1>4, <1>7
  <2>3. deferred'[p] = [owner |-> owner[p], opened |-> result[r][p]] /\ owner[p] \in Requests
    BY <2>1, <2>2
  <2>4. deferred'[p] \in [owner : Requests, opened : Opened] /\ deferred'[p].opened = result[r][p]
    BY <2>2, <2>3
  <2>5. QED
    BY <2>2, <2>4, NoneAssumption
<1>17. \A p \in Paths : p \notin reopened /\ p \notin resolved => deferred'[p] = deferred[p]
  BY <1>3
<1>18. ASSUME NEW p \in opened PROVE KeptBy(as, result[r][p])
  <2>1. CASE p \notin discarded
    BY <1>15, <2>1 DEF KeptBy
  <2>2. CASE p \in discarded /\ p \notin late
    <3>1. result[r][p].document \in Documents
      BY <1>7 DEF Opened
    <3>2. PICK t \in rendered : t.document = result[r][p].document
      BY <1>4, <2>2
    <3>3. \E u \in tabs : u.document = result[r][p].document
      BY <1>1, <3>1, <3>2, RenderedShown
    <3>4. QED
      BY <1>14, <3>1, <3>3 DEF KeptBy
  <2>3. CASE p \in reopened
    BY <1>16, <2>3 DEF KeptBy
  <2>4. CASE p \in late \ reopened
    BY <1>4, <1>9, <2>4
  <2>5. QED
    BY <2>1, <2>2, <2>3, <2>4
<1>19. ASSUME NEW p \in Paths, deferred[p] # None
       PROVE  KeptBy(as, deferred[p].opened)
  <2>1. CASE p \in reopened
    <3>1. CASE deferred[p].opened = result[r][p]
      BY <1>16, <2>1, <3>1 DEF KeptBy
    <3>2. CASE deferred[p].opened # result[r][p]
      BY <1>4, <1>9, <1>19, <2>1, <3>2
    <3>3. QED
      BY <3>1, <3>2
  <2>2. CASE p \notin reopened /\ p \in resolved
    <3>1. CASE deferred[p].opened # result[r][p]
      BY <1>4, <1>9, <2>2, <3>1
    <3>2. CASE deferred[p].opened = result[r][p]
      <4>1. p \in PathsOf[r] \ discarded
        BY <1>4, <2>2 DEF Owned
      <4>2. deferred[p].opened \in Opened
        BY <1>1, <1>19 DEF PageTypes
      <4>3. result[r][p] # NotOpened
        BY <3>2, <4>2 DEF Opened, NotOpened, Documents
      <4>4. p \in opened
        BY <1>4, <4>1, <4>3
      <4>5. QED
        BY <1>18, <3>2, <4>4
    <3>3. QED
      BY <3>1, <3>2
  <2>3. CASE p \notin reopened /\ p \notin resolved
    BY <1>17, <1>19, <2>3 DEF KeptBy
  <2>4. QED
    BY <2>1, <2>2, <2>3
<1>20. ASSUME NEW x \in tabs' \union rendered', x.document \in Documents
       PROVE  \/ \E t \in tabs \union rendered :
                   x.document = t.document /\ x.session = t.session
              \/ /\ \A t \in tabs : t.document # x.document
                 /\ \E s \in Requests : \E p \in DOMAIN result[s] :
                      /\ result[s][p].document = x.document
                      /\ result[s][p].session = x.session
  <2>1. CASE x \in tabs \union rendered
    BY <2>1
  <2>2. CASE x \notin tabs \union rendered
    <3>1. PICK p \in accepted : x = Ready(result[r][p], p)
      BY <1>2, <1>11, <1>13, <1>20, <2>2
    <3>2. x.document = result[r][p].document /\ x.session = result[r][p].session
      BY <1>12, <3>1
    <3>3. p \in DOMAIN result[r] /\ \A t \in tabs : t.document # x.document
      BY <1>4, <1>7, <3>2
    <3>4. QED
      BY <3>2, <3>3
  <2>3. QED
    BY <2>1, <2>2
<1>21. ASSUME NEW s \in Requests, phase[s] \in {"sent", "answered"}
       PROVE  \/ phase'[s] \in {"sent", "answered"}
              \/ \A p \in DOMAIN result[s] : result[s][p] # NotOpened => KeptBy(as, result[s][p])
  <2>1. CASE s = r
    BY <1>4, <1>6, <1>18, <2>1
  <2>2. CASE s # r
    BY <1>1, <1>2, <1>21, <2>2 DEF CallTypes
  <2>3. QED
    BY <2>1, <2>2
<1>22. \A c : Newest(c)' <=> Newest(c)
  BY <1>2, NewestSame
<1>23. QED
  BY <1>2, <1>8, <1>14, <1>19, <1>20, <1>21, <1>22, PageStepKeeps

-----------------------------------------------------------------------------
(* Documents: the commands of the main thread *)

\* The call at the head leaves the document as it is, or is a header mode that renews
\* its session.
LeftAlone(d, v) ==
  /\ open'[d].session = open[d].session /\ previous'[d] = previous[d]
  /\ ConfigureOf(main[1], d) => v = 0
  /\ CloseOf(main[1], d) => main[1].session \notin Closable(d)

Renewed(d, v) ==
  /\ Renews(main[1], d) /\ previous'[d] = main[1].session
  /\ open'[d].session = sessions + 1 /\ v = sessions + 1

\* It gives no document an older session, and opens none.
Executed(v) ==
  /\ sessions' \in Nat /\ sessions <= sessions' /\ v <= sessions'
  /\ DOMAIN open \union closed \subseteq DOMAIN open' \union closed'
  /\ \A d \in DOMAIN open' : d \in DOMAIN open /\ (LeftAlone(d, v) \/ Renewed(d, v))

\* The numbers in what names a document.
LEMMA NumbersTyped ==
  ASSUME KeptInvariant
  PROVE  /\ sessions \in Nat
         /\ \A t \in tabs \union rendered : t.session \in Nat
         /\ \A r \in Requests : \A p \in DOMAIN result[r] :
              result[r][p] # NotOpened => result[r][p] \in Opened /\ result[r][p].session \in Nat
         /\ \A c \in Outstanding : c.kind \notin {"open", "cancel"} => c.session \in Nat
         /\ \A a \in replies : a.value \in Nat
<1>1. PageTypes /\ BackendTypes /\ PageInvariant
  BY KeptFacts
<1>2. MaxSession \in Nat
  BY TabsAssumption
<1>3. sessions \in Nat
  BY <1>1, <1>2 DEF BackendTypes
<1>4. \A r \in Requests : \A p \in DOMAIN result[r] :
        result[r][p] # NotOpened => result[r][p] \in Opened /\ result[r][p].session \in Nat
  BY <1>1 DEF BackendTypes, Opened, Sessions
<1>5. ASSUME NEW c \in Outstanding, c.kind \notin {"open", "cancel"}
      PROVE  c.session \in Nat
  <2>1. Identity(c) \in Opened
    BY <1>1, <1>5, PagesTyped DEF SentCalls
  <2>2. QED
    BY <2>1 DEF Identity, Opened, Sessions
<1>6. \A a \in replies : a.value \in Nat
  BY <1>1, <1>2, PagesTyped
<1>7. QED
  BY <1>1, <1>3, <1>4, <1>5, <1>6, ShownTyped

LEMMA NewerKept ==
  ASSUME KeptInvariant, NEW kinds, NEW v, Executes(kinds, v), Executed(v)
  PROVE  NothingNewer'
<1>1. PageInvariant /\ NothingNewer /\ sessions \in Nat
  BY KeptFacts, NumbersTyped
<1>2. \A o : Known(o) /\ o.session \in Nat => Known(o)'
  BY <1>1, KnownKept DEF Executed
<1>3. /\ Outstanding' = Outstanding /\ replies' = replies \union {[call |-> main[1], value |-> v]}
      /\ UNCHANGED <<tabs, rendered, result>>
  BY <1>1, Moved DEF page
<1>4. \A t \in tabs' \union rendered' : t.status = "ready" => Known(t)'
  BY <1>1, <1>2, <1>3, NumbersTyped DEF NothingNewer
<1>5. \A r \in Requests : \A p \in DOMAIN result'[r] :
        result'[r][p] # NotOpened => Known(result[r][p])'
  BY <1>1, <1>2, <1>3, NumbersTyped DEF NothingNewer
<1>6. \A c \in Outstanding' : c.kind \notin {"open", "cancel"} => Known(c)'
  BY <1>1, <1>2, <1>3, NumbersTyped DEF NothingNewer
<1>7. \A a \in replies' : a.value <= sessions'
  BY <1>1, <1>3, NumbersTyped DEF NothingNewer, Executed
<1>8. QED
  BY <1>3, <1>4, <1>5, <1>6, <1>7 DEF NothingNewer

LEMMA OrderKept ==
  ASSUME KeptInvariant, NEW kinds, NEW v, Executes(kinds, v), Executed(v)
  PROVE  ConfiguresOrdered'
<1>1. PageInvariant /\ ConfiguresOrdered /\ CallsNumbered /\ Len(main) \in Nat
  BY KeptFacts, PagesTyped
<1>2. PICK b : b = [call |-> main[1], value |-> v]
  OBVIOUS
<1>3. b.call = main[1] /\ b.value = v
  BY <1>2
<1>4. /\ Len(main') = Len(main) - 1 /\ Len(main') \in Nat /\ 1 \in 1 .. Len(main)
      /\ \A i \in 1 .. Len(main') : i + 1 \in 1 .. Len(main) /\ main'[i] = main[i + 1]
      /\ replies' = replies \union {b} /\ UNCHANGED latest /\ main[1] \in Outstanding
  BY <1>1, <1>2, Moved DEF page
<1>5. ASSUME NEW j \in 1 .. Len(main'), NEW d \in Documents, ConfigureOf(main'[j], d)
      PROVE  /\ \A i \in 1 .. j - 1 : ConfigureOf(main'[i], d) => main'[i].number < main'[j].number
             /\ \A a \in replies' : ConfigureOf(a.call, d) => a.call.number < main'[j].number
  <2>1. /\ j + 1 \in 1 .. Len(main) /\ main'[j] = main[j + 1] /\ 1 \in 1 .. j + 1 - 1
        /\ \A i \in 1 .. j - 1 : i \in 1 .. Len(main') /\ i + 1 \in 1 .. j + 1 - 1
    BY <1>4
  <2>2. /\ \A i \in 1 .. j + 1 - 1 : ConfigureOf(main[i], d) => main[i].number < main[j + 1].number
        /\ \A a \in replies : ConfigureOf(a.call, d) => a.call.number < main[j + 1].number
    BY <1>1, <1>5, <2>1 DEF ConfiguresOrdered
  <2>3. \A i \in 1 .. j - 1 : ConfigureOf(main'[i], d) => main'[i].number < main'[j].number
    BY <1>4, <2>1, <2>2
  <2>4. \A a \in replies' : ConfigureOf(a.call, d) => a.call.number < main'[j].number
    BY <1>3, <1>4, <2>1, <2>2
  <2>5. QED
    BY <2>3, <2>4
<1>6. ASSUME NEW d \in DOMAIN open', NEW a \in replies', ConfigureOf(a.call, d), Newest(a.call),
             a.value # 0
      PROVE  a.value = open'[d].session
  <2>1. d \in DOMAIN open /\ (LeftAlone(d, v) \/ Renewed(d, v))
    BY DEF Executed
  <2>2. CASE a \in replies
    <3>1. a.value = open[d].session
      BY <1>1, <1>6, <2>1, <2>2 DEF ConfiguresOrdered
    <3>2. CASE LeftAlone(d, v)
      BY <3>1, <3>2 DEF LeftAlone
    <3>3. CASE ConfigureOf(main[1], d)
      <4>1. d \in Documents
        BY <1>1, <2>1, KeptFacts DEF BackendTypes
      <4>2. a.call.number < main[1].number
        BY <1>1, <1>4, <1>6, <2>2, <3>3, <4>1 DEF ConfiguresOrdered
      <4>3. main[1].number <= LatestOf(main[1]) /\ LatestOf(main[1]) = LatestOf(a.call)
        BY <1>1, <1>4, <1>6, <3>3 DEF CallsNumbered, PageKinds, ConfigureOf, LatestOf
      <4>4. a.call.number = LatestOf(a.call)
        BY <1>6 DEF Newest
      <4>5. main[1].number \in Nat /\ a.call.number \in Nat
        BY <1>1, <1>4, <1>6, <2>2, <3>3, PagesTyped DEF IsPage, PageKinds, ConfigureOf
      <4>6. QED
        BY <4>2, <4>3, <4>4, <4>5
    <3>4. QED
      BY <2>1, <3>2, <3>3 DEF Renewed, Renews
  <2>3. CASE a = b
    BY <1>3, <1>6, <2>1, <2>3 DEF LeftAlone, Renewed
  <2>4. QED
    BY <1>4, <2>2, <2>3
<1>7. \A c : Newest(c)' <=> Newest(c)
  BY <1>4, NewestSame
<1>8. QED
  BY <1>5, <1>6, <1>7 DEF ConfiguresOrdered

LEMMA DoneKept ==
  ASSUME KeptInvariant, NEW kinds, NEW v, Executes(kinds, v), Executed(v)
  PROVE  ClosesDone'
<1>1. PageInvariant /\ ClosesDone /\ NothingNewer /\ sessions \in Nat
  BY KeptFacts, NumbersTyped
<1>2. PICK b : b = [call |-> main[1], value |-> v]
  OBVIOUS
<1>3. b.call = main[1] /\ replies' = replies \union {b}
  BY <1>1, <1>2, Moved
<1>4. ASSUME NEW d \in DOMAIN open', NEW a \in replies', CloseOf(a.call, d)
      PROVE  a.call.session # open'[d].session /\ a.call.session # previous'[d]
  <2>1. d \in DOMAIN open /\ (LeftAlone(d, v) \/ Renewed(d, v))
    BY DEF Executed
  <2>2. CASE a \in replies
    <3>1. a.call.session # open[d].session /\ a.call.session # previous[d]
      BY <1>1, <1>4, <2>1, <2>2 DEF ClosesDone, Closable
    <3>2. CASE LeftAlone(d, v)
      BY <3>1, <3>2 DEF LeftAlone
    <3>3. CASE Renewed(d, v)
      <4>1. a.call \in Outstanding /\ a.call.kind \notin {"open", "cancel"}
        BY <1>1, <1>4, <2>2, PagesTyped DEF CloseOf
      <4>2. a.call.session <= sessions /\ a.call.session \in Nat
        BY <1>1, <4>1, NumbersTyped DEF NothingNewer, Known
      <4>3. a.call.session # sessions + 1
        BY <1>1, <4>2
      <4>4. QED
        BY <3>1, <3>3, <4>3 DEF Renewed, Renews
    <3>4. QED
      BY <2>1, <3>2, <3>3
  <2>3. CASE a = b
    <3>1. CloseOf(main[1], d) /\ ~ ConfigureOf(main[1], d)
      BY <1>3, <1>4, <2>3 DEF CloseOf, ConfigureOf
    <3>2. LeftAlone(d, v)
      BY <2>1, <3>1 DEF Renewed, Renews
    <3>3. QED
      BY <1>3, <2>3, <3>1, <3>2 DEF LeftAlone, Closable
  <2>4. QED
    BY <1>3, <2>2, <2>3
<1>5. QED
  BY <1>4 DEF ClosesDone, Closable

LEMMA DocumentsExecuted ==
  ASSUME KeptInvariant, NEW kinds, NEW v, Executes(kinds, v), Executed(v)
  PROVE  DocumentsKept'
<1>1. PageInvariant /\ NothingNewer /\ DocumentsKept /\ sessions \in Nat /\ Len(main) \in Nat
  BY KeptFacts, NumbersTyped, PagesTyped
<1>2. /\ Len(main') = Len(main) - 1 /\ Len(main') \in Nat /\ 1 \in 1 .. Len(main)
      /\ \A i \in 1 .. Len(main') : i + 1 \in 1 .. Len(main) /\ main'[i] = main[i + 1]
      /\ UNCHANGED <<tabs, rendered, deferred, result>>
  BY <1>1, Moved DEF page
<1>3. UNCHANGED phase
  BY DEF Executes
<1>4. \A i \in 1 .. Len(main) : \A d : ConfigureOf(main[i], d) => main[i].session # sessions + 1
  <2>1. \A i \in 1 .. Len(main) : \A d : ConfigureOf(main[i], d) =>
          main[i].session \in Nat /\ main[i].session <= sessions
    BY <1>1, PagesTyped, NumbersTyped DEF NothingNewer, Known, ConfigureOf
  <2>2. QED
    BY <1>1, <2>1
<1>5. ASSUME NEW d \in DOMAIN open'
      PROVE  CloseComes(d)' \/ TabCloses(d)' \/ NeverShown(d)'
  <2>1. d \in DOMAIN open /\ (LeftAlone(d, v) \/ Renewed(d, v))
    BY DEF Executed
  \* After a header mode no other one on the way finds its session.
  <2>2. ASSUME NEW s, s \in Closable(d),
               NEW k \in Nat, k <= Len(main'),
               k > 0 \/ LeftAlone(d, v) \/ s = open[d].session,
               \A i \in 1 .. k + 1 : i \in 1 .. Len(main) /\ (Renews(main[i], d) => s = open[d].session)
        PROVE  /\ s \in Closable(d)'
               /\ \A i \in 1 .. k : ConfigureOf(main'[i], d) /\ main'[i].session = open'[d].session
                    => s = open'[d].session
    <3>1. \A i \in 1 .. k : i \in 1 .. Len(main') /\ i + 1 \in 1 .. k + 1
      BY <1>2, <2>2
    <3>2. \A i \in 1 .. k : i + 1 \in 1 .. Len(main) /\ main'[i] = main[i + 1]
      BY <1>2, <3>1
    <3>3. CASE LeftAlone(d, v)
      <4>1. s \in Closable(d)'
        BY <2>2, <3>3 DEF LeftAlone, Closable
      <4>2. \A i \in 1 .. k : ConfigureOf(main'[i], d) /\ main'[i].session = open'[d].session
                    => s = open'[d].session
        BY <2>2, <3>1, <3>2, <3>3 DEF LeftAlone, Renews
      <4>3. QED
        BY <4>1, <4>2
    <3>4. CASE Renewed(d, v)
      <4>1. s = open[d].session
        <5>1. 1 \in 1 .. k + 1
          OBVIOUS
        <5>2. QED
          BY <2>2, <3>4, <5>1 DEF Renewed
      <4>2. s = previous'[d]
        BY <3>4, <4>1 DEF Renewed, Renews
      <4>3. \A i \in 1 .. k : ConfigureOf(main'[i], d) => main'[i].session # open'[d].session
        BY <1>4, <3>2, <3>4 DEF Renewed
      <4>4. QED
        BY <4>2, <4>3 DEF Closable
    <3>5. QED
      BY <2>1, <3>3, <3>4
  <2>3. CASE CloseComes(d)
    <3>1. PICK i \in 1 .. Len(main) :
            /\ CloseOf(main[i], d) /\ main[i].session \in Closable(d)
            /\ \A j \in 1 .. i - 1 : Renews(main[j], d) => main[i].session = open[d].session
      BY <2>3 DEF CloseComes
    <3>2. i # 1
      BY <2>1, <3>1 DEF LeftAlone, Renewed, Renews, CloseOf, ConfigureOf
    <3>3. PICK k \in 1 .. Len(main') : i = k + 1 /\ main'[k] = main[i]
      <4>1. i - 1 \in 1 .. Len(main') /\ i = (i - 1) + 1
        BY <1>1, <1>2, <3>2
      <4>2. QED
        BY <1>2, <4>1
    <3>4. PICK n \in Nat : k = n + 1 /\ n <= Len(main') /\ i - 1 = n + 1
      <4>1. k - 1 \in Nat /\ k = (k - 1) + 1 /\ k - 1 <= Len(main') /\ i - 1 = (k - 1) + 1
        BY <1>2, <3>3
      <4>2. QED
        BY <4>1
    <3>5. PICK s : s = main[i].session
      OBVIOUS
    <3>6. \A j \in 1 .. n + 1 : j \in 1 .. Len(main) /\ (Renews(main[j], d) => s = open[d].session)
      <4>1. \A j \in 1 .. i - 1 : j \in 1 .. Len(main)
        BY <1>1
      <4>2. QED
        BY <3>1, <3>4, <3>5, <4>1
    <3>7. LeftAlone(d, v) \/ s = open[d].session
      <4>1. 1 \in 1 .. i - 1
        BY <3>4
      <4>2. QED
        BY <2>1, <3>1, <3>5, <4>1 DEF Renewed
    <3>8. /\ s \in Closable(d)'
          /\ \A j \in 1 .. n : ConfigureOf(main'[j], d) /\ main'[j].session = open'[d].session
               => s = open'[d].session
      BY <2>2, <3>1, <3>4, <3>5, <3>6, <3>7
    <3>9. n = k - 1 /\ CloseOf(main'[k], d) /\ main'[k].session = s
      BY <3>1, <3>3, <3>4, <3>5
    <3>10. CloseComes(d)'
      BY <3>8, <3>9 DEF CloseComes, Renews
    <3>11. QED
      BY <3>10
  <2>4. CASE TabCloses(d)
    <3>1. ASSUME NEW t \in tabs \union rendered, t.document = d
          PROVE  /\ t.session \in Closable(d)'
                 /\ \A i \in 1 .. Len(main') :
                      ConfigureOf(main'[i], d) /\ main'[i].session = open'[d].session
                        => t.session = open'[d].session
      <4>1. PICK s : s = t.session
        OBVIOUS
      <4>2. /\ s \in Closable(d)
            /\ \A i \in 1 .. Len(main) : Renews(main[i], d) => s = open[d].session
        BY <2>4, <3>1, <4>1 DEF TabCloses
      <4>3. \A i \in 1 .. Len(main') + 1 : i \in 1 .. Len(main)
        BY <1>1, <1>2
      <4>4. LeftAlone(d, v) \/ s = open[d].session
        BY <1>2, <2>1, <4>2 DEF Renewed
      <4>5. Len(main') <= Len(main')
        BY <1>2
      <4>6. QED
        BY <1>2, <2>2, <4>1, <4>2, <4>3, <4>4, <4>5
    <3>2. TabCloses(d)'
      BY <1>2, <2>4, <3>1 DEF TabCloses, Renews
    <3>3. QED
      BY <3>2
  <2>5. CASE NeverShown(d)
    <3>1. \A i \in 1 .. Len(main') : ~ ConfigureOf(main'[i], d)
      BY <1>2, <2>5 DEF NeverShown
    <3>2. open'[d].session = open[d].session
      <4>1. ~ ConfigureOf(main[1], d)
        BY <1>2, <2>5 DEF NeverShown
      <4>2. QED
        BY <2>1, <4>1 DEF LeftAlone, Renewed, Renews
    <3>3. NeverShown(d)'
      BY <1>2, <1>3, <2>5, <3>1, <3>2 DEF NeverShown, Undecided
    <3>4. QED
      BY <3>3
  <2>6. QED
    BY <1>1, <2>1, <2>3, <2>4, <2>5 DEF DocumentsKept
<1>6. QED
  BY <1>5 DEF DocumentsKept

LEMMA CallForgets ==
  ASSUME KeptInvariant, NEW kinds, NEW v, Executes(kinds, v), Executed(v)
  PROVE  DocumentsAgree'
BY NewerKept, OrderKept, DoneKept, DocumentsExecuted DEF DocumentsAgree

\* A command that neither closes a document nor gives it a new session.
LEMMA NothingExecuted ==
  ASSUME KeptInvariant, NEW kinds, NEW v, v <= sessions, Executes(kinds, v),
         UNCHANGED <<open, closed, previous, sessions>>,
         \A d \in DOMAIN open : /\ ConfigureOf(main[1], d) => v = 0
                                /\ CloseOf(main[1], d) => main[1].session \notin Closable(d)
  PROVE  DocumentsAgree'
<1>1. sessions \in Nat
  BY NumbersTyped
<1>2. \A d \in DOMAIN open' : d \in DOMAIN open /\ LeftAlone(d, v)
  BY DEF LeftAlone
<1>3. Executed(v)
  BY <1>1, <1>2 DEF Executed
<1>4. QED
  BY <1>3, CallForgets

LEMMA CommandForgets ==
  ASSUME KeptInvariant, Execute
  PROVE  DocumentsAgree'
<1>1. /\ PageInvariant /\ BackendTypes /\ NothingNewer /\ sessions \in Nat
      /\ \A d \in DOMAIN open : open[d].session <= sessions
  BY KeptFacts, NumbersTyped DEF SessionsGrow
<1>2. ASSUME NEW kinds, NEW v, Executes(kinds, v)
      PROVE  Head(main) = main[1] /\ main[1].kind \in kinds /\ main[1] \in Outstanding
  BY <1>1, <1>2, Moved
<1>3. CASE ServeCancel
  <2>1. Executes({"cancel"}, 0) /\ UNCHANGED <<open, closed, previous, sessions>>
    BY <1>3 DEF ServeCancel
  <2>2. main[1].kind = "cancel"
    BY <1>2, <2>1
  <2>3. QED
    BY <1>1, <2>1, <2>2, NothingExecuted DEF ConfigureOf, CloseOf
<1>4. CASE ServeClose
  <2>1. /\ Executes({"close", "cleanup"}, 0) /\ UNCHANGED <<previous, sessions>>
        /\ IF /\ Head(main).document \in DOMAIN open
              /\ Head(main).session \in
                   {open[Head(main).document].session, previous[Head(main).document]}
           THEN Registry!Close(Head(main).document)
           ELSE UNCHANGED <<open, closed>>
    BY <1>4 DEF ServeClose
  <2>2. Head(main) = main[1] /\ main[1].kind \in {"close", "cleanup"}
    BY <1>2, <2>1
  <2>3. CASE UNCHANGED <<open, closed>>
            /\ ~ (/\ main[1].document \in DOMAIN open
                  /\ main[1].session \in
                       {open[main[1].document].session, previous[main[1].document]})
    <3>1. \A d \in DOMAIN open : /\ ~ ConfigureOf(main[1], d)
                                 /\ CloseOf(main[1], d) => main[1].session \notin Closable(d)
      BY <2>2, <2>3 DEF ConfigureOf, CloseOf, Closable
    <3>2. QED
      BY <1>1, <2>1, <2>3, <3>1, NothingExecuted
  <2>4. CASE Registry!Close(main[1].document)
    <3>1. /\ DOMAIN open' = DOMAIN open \ {main[1].document}
          /\ \A d \in DOMAIN open' : open'[d] = open[d]
          /\ closed' = closed \union {main[1].document}
      BY <2>4 DEF Registry!Close
    <3>2. \A d \in DOMAIN open' : ~ ConfigureOf(main[1], d) /\ ~ CloseOf(main[1], d)
      BY <2>2, <3>1 DEF ConfigureOf, CloseOf
    <3>3. \A d \in DOMAIN open' : d \in DOMAIN open /\ LeftAlone(d, 0)
      BY <2>1, <3>1, <3>2 DEF LeftAlone
    <3>4. Executed(0)
      BY <1>1, <2>1, <3>1, <3>3 DEF Executed
    <3>5. QED
      BY <2>1, <3>4, CallForgets
  <2>5. QED
    BY <2>1, <2>2, <2>3, <2>4
<1>5. CASE ServeConfigure
  <2>1. /\ Executes({"configure"}, sessions + 1) /\ Current(Head(main))
        /\ Registry!Replace(Head(main).document, sessions + 1) /\ sessions' = sessions + 1
        /\ previous' = [previous EXCEPT ![Head(main).document] = Head(main).session]
    BY <1>5 DEF ServeConfigure
  <2>2. Head(main) = main[1] /\ main[1].kind = "configure"
    BY <1>2, <2>1
  <2>3. PICK d : d = main[1].document
    OBVIOUS
  <2>4. d \in DOMAIN open /\ d \in Documents /\ Renews(main[1], d)
    BY <1>1, <2>1, <2>2, <2>3 DEF Current, Renews, ConfigureOf, BackendTypes
  <2>5. /\ DOMAIN open' = DOMAIN open /\ open'[d].session = sessions + 1
        /\ \A e \in DOMAIN open : e # d => open'[e] = open[e]
        /\ UNCHANGED closed
    BY <1>1, <2>1, <2>2, <2>3, <2>4 DEF Registry!Replace, BackendTypes
  <2>6. previous'[d] = main[1].session /\ \A e \in Documents : e # d => previous'[e] = previous[e]
    BY <1>1, <2>1, <2>2, <2>3, <2>4 DEF BackendTypes
  <2>7. Renewed(d, sessions + 1)
    BY <2>4, <2>5, <2>6 DEF Renewed
  <2>8. ASSUME NEW e \in DOMAIN open', e # d
        PROVE  e \in DOMAIN open /\ LeftAlone(e, sessions + 1)
    <3>1. e \in DOMAIN open /\ e \in Documents
      BY <1>1, <2>5 DEF BackendTypes
    <3>2. open'[e].session = open[e].session /\ previous'[e] = previous[e]
      BY <2>5, <2>6, <2>8, <3>1
    <3>3. ~ ConfigureOf(main[1], e) /\ ~ CloseOf(main[1], e)
      BY <2>2, <2>3, <2>8 DEF ConfigureOf, CloseOf
    <3>4. QED
      BY <3>1, <3>2, <3>3 DEF LeftAlone
  <2>9. \A e \in DOMAIN open' :
          e \in DOMAIN open /\ (LeftAlone(e, sessions + 1) \/ Renewed(e, sessions + 1))
    <3>1. ASSUME NEW e \in DOMAIN open'
          PROVE  e \in DOMAIN open /\ (LeftAlone(e, sessions + 1) \/ Renewed(e, sessions + 1))
      <4>1. CASE e = d
        BY <2>4, <2>7, <4>1
      <4>2. CASE e # d
        BY <2>8, <4>2
      <4>3. QED
        BY <4>1, <4>2
    <3>2. QED
      BY <3>1
  <2>10. sessions' \in Nat /\ sessions <= sessions' /\ sessions + 1 <= sessions'
    BY <1>1, <2>1
  <2>11. Executed(sessions + 1)
    BY <2>5, <2>9, <2>10 DEF Executed
  <2>12. QED
    BY <2>1, <2>11, CallForgets
<1>6. CASE ServeRead
  <2>1. /\ Executes({"read", "first_page"}, Head(main).session)
        /\ UNCHANGED <<open, closed, previous, sessions>>
    BY <1>6 DEF ServeRead, backend
  <2>2. Head(main) = main[1] /\ main[1].kind \in {"read", "first_page"} /\ main[1] \in Outstanding
    BY <1>2, <2>1
  <2>3. main[1].session <= sessions
    BY <1>1, <2>2 DEF NothingNewer, Known
  <2>4. \A d : ~ ConfigureOf(main[1], d) /\ ~ CloseOf(main[1], d)
    BY <2>2 DEF ConfigureOf, CloseOf
  <2>5. QED
    BY <2>1, <2>2, <2>3, <2>4, NothingExecuted
<1>7. CASE ServeError
  <2>1. /\ Executes({"configure", "read", "first_page"}, 0)
        /\ UNCHANGED <<open, closed, previous, sessions>>
    BY <1>7 DEF ServeError, backend
  <2>2. main[1].kind \in {"configure", "read", "first_page"}
    BY <1>2, <2>1
  <2>3. \A d : ~ CloseOf(main[1], d)
    BY <2>2 DEF CloseOf
  <2>4. QED
    BY <1>1, <2>1, <2>3, NothingExecuted
<1>8. QED
  BY <1>3, <1>4, <1>5, <1>6, <1>7 DEF Execute

-----------------------------------------------------------------------------
(* Documents: the opens *)

\* The calls are those that were k places further on, after k opens.
Shifted(k) ==
  /\ k \in Nat /\ Len(main) \in Nat /\ Len(main') \in Nat /\ Len(main) = Len(main') + k
  /\ \A i \in 1 .. Len(main') : i + k \in 1 .. Len(main) /\ main'[i] = main[i + k]
  /\ \A i \in 1 .. k : main[i].kind = "open"

LEMMA OpenShifts ==
  ASSUME PageInvariant, UNCHANGED replies,
         \/ UNCHANGED main
         \/ main # <<>> /\ Head(main).kind = "open" /\ main' = Tail(main)
  PROVE  (\E k \in Nat : Shifted(k)) /\ \A c \in Outstanding' : c \in Outstanding
<1>1. main \in Seq(SentCalls) /\ Len(main) \in Nat
  BY PagesTyped
<1>2. CASE UNCHANGED main
  <2>1. Shifted(0)
    BY <1>1, <1>2 DEF Shifted
  <2>2. QED
    BY <1>2, <2>1 DEF Outstanding
<1>3. CASE main # <<>> /\ Head(main).kind = "open" /\ main' = Tail(main)
  <2>1. /\ Head(main) = main[1] /\ main' \in Seq(SentCalls) /\ Len(main') = Len(main) - 1
        /\ \A i \in 1 .. Len(main') : i + 1 \in 1 .. Len(main) /\ main'[i] = main[i + 1]
        /\ Range(main) = {Head(main)} \union Range(main')
    BY <1>1, <1>3, Taken
  <2>2. Len(main') \in Nat
    BY <2>1, LenProperties
  <2>3. Shifted(1)
    <3>1. Len(main) = Len(main') + 1
      BY <1>1, <2>1
    <3>2. \A i \in 1 .. 1 : main[i].kind = "open"
      <4>1. main[1].kind = "open"
        BY <1>3, <2>1
      <4>2. \A i \in 1 .. 1 : i = 1
        OBVIOUS
      <4>3. QED
        BY <4>1, <4>2
    <3>3. QED
      BY <1>1, <2>1, <2>2, <3>1, <3>2 DEF Shifted
  <2>4. QED
    BY <2>1, <2>3 DEF Outstanding
<1>4. QED
  BY <1>2, <1>3

\* A document that stays open is opened again only by its session, and a new one is
\* known to the request that opens it.
Served(d) ==
  /\ \/ d \in DOMAIN open /\ open'[d].session = open[d].session /\ (Undecided(d) => Undecided(d)')
     \/ d \notin DOMAIN open \union closed /\ Undecided(d)'
  /\ \A r \in Requests : \A p \in DOMAIN result'[r] : result'[r][p].document = d =>
       \/ result'[r][p].session = open'[d].session
       \/ d \in DOMAIN open /\ p \in DOMAIN result[r] /\ result'[r][p] = result[r][p]

LEMMA ServedForgets ==
  ASSUME KeptInvariant, BackendTypes', UNCHANGED <<page, replies, previous>>,
         \/ UNCHANGED main
         \/ main # <<>> /\ Head(main).kind = "open" /\ main' = Tail(main),
         sessions' \in Nat, sessions <= sessions',
         DOMAIN open \union closed \subseteq DOMAIN open' \union closed',
         \A r \in Requests : \A p \in DOMAIN result'[r] :
           result'[r][p] # NotOpened => Known(result[r][p])',
         \A d \in DOMAIN open' : Served(d)
  PROVE  DocumentsAgree'
<1>1. /\ SessionInvariant /\ PageInvariant /\ PageTypes /\ NothingNewer /\ ConfiguresOrdered
      /\ ClosesDone /\ DocumentsKept /\ sessions \in Nat
  BY KeptFacts, NumbersTyped
<1>2. PICK k \in Nat : Shifted(k)
  BY <1>1, OpenShifts
<1>3. /\ \A c \in Outstanding' : c \in Outstanding
      /\ UNCHANGED <<tabs, rendered, deferred, latest, replies>>
  BY <1>1, OpenShifts DEF page
<1>4. \A o : Known(o) /\ o.session \in Nat => Known(o)'
  BY <1>1, KnownKept
<1>5. NothingNewer'
  <2>1. \A t \in tabs' \union rendered' : t.status = "ready" => Known(t)'
    BY <1>1, <1>3, <1>4, NumbersTyped DEF NothingNewer
  <2>2. \A c \in Outstanding' : c.kind \notin {"open", "cancel"} => Known(c)'
    BY <1>1, <1>3, <1>4, NumbersTyped DEF NothingNewer
  <2>3. \A a \in replies' : a.value <= sessions'
    BY <1>1, <1>3, NumbersTyped DEF NothingNewer
  <2>4. QED
    BY <2>1, <2>2, <2>3 DEF NothingNewer
\* A new document is named by no call and no tab.
<1>6. ASSUME NEW d, d \notin DOMAIN open \union closed, d \in Documents
      PROVE  /\ \A i \in 1 .. Len(main) : ~ ConfigureOf(main[i], d)
             /\ \A a \in replies : ~ ConfigureOf(a.call, d) /\ ~ CloseOf(a.call, d)
             /\ \A t \in tabs : t.document # d
  <2>1. \A c \in Outstanding : ~ ConfigureOf(c, d) /\ ~ CloseOf(c, d)
    BY <1>1, <1>6 DEF NothingNewer, Known, ConfigureOf, CloseOf
  <2>2. \A t \in tabs : t.document # d
    BY <1>1, <1>6, ShownTyped DEF NothingNewer, Known
  <2>3. QED
    BY <1>1, <2>1, <2>2, PagesTyped
<1>7. \A d \in DOMAIN open' : d \in Documents
  BY DEF BackendTypes
<1>8. ConfiguresOrdered'
  <2>1. ASSUME NEW j \in 1 .. Len(main'), NEW d \in Documents, ConfigureOf(main'[j], d)
        PROVE  /\ \A i \in 1 .. j - 1 :
                    ConfigureOf(main'[i], d) => main'[i].number < main'[j].number
               /\ \A a \in replies' : ConfigureOf(a.call, d) => a.call.number < main'[j].number
    <3>1. /\ j + k \in 1 .. Len(main) /\ main'[j] = main[j + k]
          /\ \A i \in 1 .. j - 1 : i + k \in 1 .. j + k - 1 /\ main'[i] = main[i + k]
      BY <1>2 DEF Shifted
    <3>2. /\ \A i \in 1 .. j + k - 1 :
               ConfigureOf(main[i], d) => main[i].number < main[j + k].number
          /\ \A a \in replies : ConfigureOf(a.call, d) => a.call.number < main[j + k].number
      BY <1>1, <2>1, <3>1 DEF ConfiguresOrdered
    <3>3. QED
      BY <1>3, <3>1, <3>2
  <2>2. ASSUME NEW d \in DOMAIN open', NEW a \in replies', ConfigureOf(a.call, d),
               Newest(a.call), a.value # 0
        PROVE  a.value = open'[d].session
    <3>1. d \in DOMAIN open /\ open'[d].session = open[d].session
      BY <1>3, <1>6, <1>7, <2>2 DEF Served
    <3>2. QED
      BY <1>1, <1>3, <2>2, <3>1 DEF ConfiguresOrdered
  <2>3. \A c : Newest(c)' <=> Newest(c)
    BY <1>3, NewestSame
  <2>4. QED
    BY <2>1, <2>2, <2>3 DEF ConfiguresOrdered
<1>9. ClosesDone'
  <2>1. ASSUME NEW d \in DOMAIN open', NEW a \in replies', CloseOf(a.call, d)
        PROVE  a.call.session # open'[d].session /\ a.call.session # previous'[d]
    <3>1. d \in DOMAIN open /\ open'[d].session = open[d].session
      BY <1>3, <1>6, <1>7, <2>1 DEF Served
    <3>2. QED
      BY <1>1, <1>3, <2>1, <3>1 DEF ClosesDone, Closable
  <2>2. QED
    BY <2>1 DEF ClosesDone, Closable
<1>10. ASSUME NEW d \in DOMAIN open'
       PROVE  CloseComes(d)' \/ TabCloses(d)' \/ NeverShown(d)'
  <2>1. CASE d \in DOMAIN open /\ open'[d].session = open[d].session /\ (Undecided(d) => Undecided(d)')
    <3>1. CASE CloseComes(d)
      <4>1. PICK i \in 1 .. Len(main) :
              /\ CloseOf(main[i], d) /\ main[i].session \in Closable(d)
              /\ \A j \in 1 .. i - 1 : Renews(main[j], d) => main[i].session = open[d].session
        BY <3>1 DEF CloseComes
      <4>2. \A j \in 1 .. k : main[j].kind = "open"
        BY <1>2 DEF Shifted
      <4>3. ~ (i <= k)
        BY <4>1, <4>2 DEF CloseOf
      <4>4. i - k \in 1 .. Len(main') /\ (i - k) + k = i
        BY <1>2, <4>3 DEF Shifted
      <4>5. PICK n \in 1 .. Len(main') : n + k = i
        BY <4>4
      <4>6. main'[n] = main[i]
        BY <1>2, <4>5 DEF Shifted
      <4>7. \A j \in 1 .. n - 1 : j + k \in 1 .. i - 1 /\ main'[j] = main[j + k]
        BY <1>2, <4>5 DEF Shifted
      <4>8. \A j \in 1 .. n - 1 : ConfigureOf(main'[j], d) /\ main'[j].session = open'[d].session
              => main'[n].session = open'[d].session
        BY <2>1, <4>1, <4>6, <4>7 DEF Renews
      <4>9. CloseOf(main'[n], d) /\ main'[n].session \in Closable(d)'
        BY <2>1, <4>1, <4>6 DEF Closable
      <4>10. CloseComes(d)'
        BY <4>8, <4>9 DEF CloseComes, Renews
      <4>11. QED
        BY <4>10
    <3>2. CASE TabCloses(d)
      <4>1. \A i \in 1 .. Len(main') : \E j \in 1 .. Len(main) : main'[i] = main[j]
        BY <1>2 DEF Shifted
      <4>2. ASSUME NEW t \in tabs \union rendered, t.document = d
            PROVE  /\ t.session \in Closable(d)'
                   /\ \A i \in 1 .. Len(main') :
                        ConfigureOf(main'[i], d) /\ main'[i].session = open'[d].session
                          => t.session = open'[d].session
        <5>1. /\ t.session \in Closable(d)
              /\ \A i \in 1 .. Len(main) : Renews(main[i], d) => t.session = open[d].session
          BY <3>2, <4>2 DEF TabCloses
        <5>2. t.session \in Closable(d)'
          BY <2>1, <5>1 DEF Closable
        <5>3. QED
          BY <2>1, <4>1, <5>1, <5>2 DEF Renews
      <4>3. TabCloses(d)'
        BY <1>3, <3>2, <4>2 DEF TabCloses, Renews
      <4>4. QED
        BY <4>3
    <3>3. CASE NeverShown(d)
      <4>1. \A i \in 1 .. Len(main') : ~ ConfigureOf(main'[i], d)
        BY <1>2, <3>3 DEF Shifted, NeverShown
      <4>2. \A r \in Requests : \A p \in DOMAIN result'[r] :
              result'[r][p].document = d => result'[r][p].session = open'[d].session
        BY <2>1, <3>3 DEF Served, NeverShown
      <4>3. NeverShown(d)'
        BY <1>3, <2>1, <3>3, <4>1, <4>2 DEF NeverShown
      <4>4. QED
        BY <4>3
    <3>4. QED
      BY <1>1, <2>1, <3>1, <3>2, <3>3 DEF DocumentsKept
  <2>2. CASE d \notin DOMAIN open \union closed /\ Undecided(d)'
    <3>1. /\ \A i \in 1 .. Len(main) : ~ ConfigureOf(main[i], d)
          /\ \A t \in tabs : t.document # d
      BY <1>6, <1>7, <2>2
    <3>2. \A i \in 1 .. Len(main') : ~ ConfigureOf(main'[i], d)
      BY <1>2, <3>1 DEF Shifted
    <3>3. \A r \in Requests : \A p \in DOMAIN result'[r] :
            result'[r][p].document = d => result'[r][p].session = open'[d].session
      BY <2>2 DEF Served
    <3>4. NeverShown(d)'
      BY <1>3, <2>2, <3>1, <3>2, <3>3 DEF NeverShown
    <3>5. QED
      BY <3>4
  <2>3. QED
    BY <2>1, <2>2 DEF Served
<1>11. QED
  BY <1>5, <1>8, <1>9, <1>10 DEF DocumentsAgree, DocumentsKept

LEMMA RejectionForgets ==
  ASSUME KeptInvariant, NEW r \in Requests, ServeRejection(r)
  PROVE  DocumentsAgree'
<1>1. /\ PageInvariant /\ BackendTypes /\ CallTypes /\ NothingNewer /\ sessions \in Nat
  BY KeptFacts, NumbersTyped
<1>2. /\ UNCHANGED <<page, replies, result, backend>> /\ DOMAIN result[r] = {}
      /\ phase' = [phase EXCEPT ![r] = "rejected"]
      /\ \/ UNCHANGED main
         \/ main # <<>> /\ Head(main) = OpenCall(r) /\ main' = Tail(main)
  BY DEF ServeRejection, Serving, Answered
<1>3. OpenCall(r).kind = "open"
  BY DEF OpenCall, Call
<1>4. BackendTypes'
  BY <1>1, <1>2 DEF BackendTypes, backend
<1>5. \A s \in Requests : s # r => phase'[s] = phase[s]
  BY <1>1, <1>2 DEF CallTypes
<1>6. UNCHANGED <<open, closed, previous, sessions, result>>
  BY <1>2 DEF backend
<1>7. \A s \in Requests : \A p \in DOMAIN result'[s] :
        result'[s][p] # NotOpened => Known(result[s][p])'
  BY <1>1, <1>6 DEF NothingNewer, Known
<1>8. ASSUME NEW d \in DOMAIN open' PROVE Served(d)
  <2>1. Undecided(d) => Undecided(d)'
    BY <1>2, <1>5 DEF Undecided
  <2>2. QED
    BY <1>6, <2>1 DEF Served
<1>9. QED
  BY <1>1, <1>2, <1>3, <1>4, <1>6, <1>7, <1>8, ServedForgets

LEMMA ItemForgets ==
  ASSUME KeptInvariant, NEW r \in Requests, ServeItem(r)
  PROVE  DocumentsAgree'
<1>1. /\ PageInvariant /\ BackendTypes /\ CallTypes /\ ResultsAgree /\ NothingNewer
      /\ sessions \in Nat /\ SessionsGrow
  BY KeptFacts, NumbersTyped
<1>2. PICK p \in Paths : OpenItem(r, p)
  BY DEF ServeItem
<1>3. /\ BackendTypes'
      /\ DOMAIN result'[r] = DOMAIN result[r] \union {p} /\ p \notin DOMAIN result[r]
      /\ \A s \in Requests : \A q \in DOMAIN result[s] :
           q \in DOMAIN result'[s] /\ result'[s][q] = result[s][q]
      /\ \A s \in Requests : s # r => result'[s] = result[s]
  BY <1>1, <1>2, OpenItemTypes
<1>4. /\ UNCHANGED <<page, replies>> /\ phase[r] = "sent"
      /\ \/ UNCHANGED main
         \/ main # <<>> /\ Head(main) = OpenCall(r) /\ main' = Tail(main)
      /\ phase' = phase \/ phase' = [phase EXCEPT ![r] = "answered"]
  BY DEF ServeItem, Serving, Answered
<1>5. OpenCall(r).kind = "open"
  BY DEF OpenCall, Call
<1>6. /\ phase'[r] \in {"sent", "answered"}
      /\ \A s \in Requests : s # r => phase'[s] = phase[s]
  BY <1>1, <1>4 DEF CallTypes
<1>7. /\ \/ result'[r][p] = NotOpened /\ UNCHANGED <<open, closed, sessions>>
         \/ \E d \in DOMAIN open : /\ result'[r][p] = [document |-> d, session |-> open[d].session]
                                   /\ UNCHANGED <<open, closed, sessions>>
         \/ \E d \in Documents : /\ result'[r][p] = [document |-> d, session |-> sessions + 1]
                                 /\ Registry!Open(d, p, sessions + 1) /\ sessions' = sessions + 1
      /\ UNCHANGED previous
  <2>1. r \in Requests /\ result = [s \in Requests |-> result[s]]
    BY <1>1 DEF BackendTypes
  <2>2. ASSUME NEW o, result' = [result EXCEPT ![r] =
                        [q \in DOMAIN result[r] \union {p} |-> IF q = p THEN o ELSE result[r][q]]]
        PROVE  result'[r][p] = o
    BY <2>1, <2>2
  <2>3. PICK next : next = Cardinality(DOMAIN open \union closed) + 1
    OBVIOUS
  <2>4. QED
    BY <1>2, <2>2, <2>3 DEF OpenItem, backend
<1>8. \A s \in Requests : \A q \in DOMAIN result'[s] :
        \/ q \in DOMAIN result[s] /\ result'[s][q] = result[s][q]
        \/ s = r /\ q = p
  BY <1>3
<1>9. \A d : Undecided(d) => Undecided(d)'
  BY <1>3, <1>6 DEF Undecided
<1>10. /\ \A d \in DOMAIN open' :
            \/ d \in DOMAIN open /\ open'[d].session = open[d].session
            \/ /\ d \notin DOMAIN open \union closed
               /\ result'[r][p].document = d
       /\ result'[r][p] # NotOpened =>
            LET d == result'[r][p].document
            IN /\ d \in DOMAIN open' /\ result'[r][p].session = open'[d].session
               /\ result'[r][p].session <= sessions'
       /\ sessions' \in Nat /\ sessions <= sessions'
       /\ DOMAIN open \union closed \subseteq DOMAIN open' \union closed'
  <2>1. CASE result'[r][p] = NotOpened /\ UNCHANGED <<open, closed, sessions>>
    BY <1>1, <2>1
  <2>2. ASSUME NEW d \in DOMAIN open,
               result'[r][p] = [document |-> d, session |-> open[d].session],
               UNCHANGED <<open, closed, sessions>>
        PROVE  /\ \A e \in DOMAIN open' : e \in DOMAIN open /\ open'[e].session = open[e].session
               /\ result'[r][p].document \in DOMAIN open'
               /\ result'[r][p].session = open'[result'[r][p].document].session
               /\ result'[r][p].session <= sessions'
               /\ sessions' \in Nat /\ sessions <= sessions'
               /\ DOMAIN open \union closed \subseteq DOMAIN open' \union closed'
    <3>1. open[d].session <= sessions
      BY <1>1, <2>2 DEF SessionsGrow
    <3>2. result'[r][p].document = d /\ result'[r][p].session = open[d].session
      BY <2>2
    <3>3. QED
      BY <1>1, <2>2, <3>1, <3>2
  <2>3. ASSUME NEW d \in Documents, result'[r][p] = [document |-> d, session |-> sessions + 1],
               Registry!Open(d, p, sessions + 1), sessions' = sessions + 1
        PROVE  /\ \A e \in DOMAIN open' :
                    \/ e \in DOMAIN open /\ open'[e].session = open[e].session
                    \/ e \notin DOMAIN open \union closed /\ result'[r][p].document = e
               /\ result'[r][p].document \in DOMAIN open'
               /\ result'[r][p].session = open'[result'[r][p].document].session
               /\ result'[r][p].session <= sessions'
               /\ sessions' \in Nat /\ sessions <= sessions'
               /\ DOMAIN open \union closed \subseteq DOMAIN open' \union closed'
    <3>1. /\ d \notin DOMAIN open \union closed /\ DOMAIN open' = DOMAIN open \union {d}
          /\ open'[d].session = sessions + 1 /\ UNCHANGED closed
          /\ \A e \in DOMAIN open : e # d => open'[e] = open[e]
      BY <2>3 DEF Registry!Open
    <3>2. result'[r][p].document = d /\ result'[r][p].session = sessions + 1
      BY <2>3
    <3>3. QED
      BY <1>1, <2>3, <3>1, <3>2
  <2>4. QED
    BY <1>7, <2>1, <2>2, <2>3
<1>11. \A s \in Requests : \A q \in DOMAIN result'[s] :
         result'[s][q] # NotOpened => Known(result[s][q])'
  <2>1. \A s \in Requests : \A q \in DOMAIN result[s] : result[s][q] # NotOpened =>
          result[s][q].document \in DOMAIN open \union closed /\ result[s][q].session <= sessions
    BY <1>1 DEF NothingNewer, Known
  <2>2. \A s \in Requests : \A q \in DOMAIN result[s] : result[s][q] # NotOpened =>
          /\ result[s][q].document \in DOMAIN open' \union closed'
          /\ result[s][q].session <= sessions'
    BY <1>1, <1>10, <2>1, NumbersTyped
  <2>3. result'[r][p] # NotOpened =>
          /\ result'[r][p].document \in DOMAIN open' \union closed'
          /\ result'[r][p].session <= sessions'
    BY <1>10
  <2>4. ASSUME NEW s \in Requests, NEW q \in DOMAIN result'[s], result'[s][q] # NotOpened
        PROVE  /\ result'[s][q].document \in DOMAIN open' \union closed'
               /\ result'[s][q].session <= sessions'
    BY <1>8, <2>2, <2>3, <2>4
  <2>5. QED
    BY <2>4 DEF Known
<1>12. ASSUME NEW d \in DOMAIN open' PROVE Served(d)
  <2>1. d \in Documents /\ d # 0
    BY <1>3 DEF BackendTypes, Documents
  <2>2. result'[r][p].document = d =>
          result'[r][p].session = open'[d].session /\ Undecided(d)'
    <3>1. NotOpened.document = 0
      BY DEF NotOpened
    <3>2. result'[r][p].document = d => result'[r][p].session = open'[d].session
      BY <1>10, <2>1, <3>1
    <3>3. result'[r][p].document = d => Undecided(d)'
      BY <1>3, <1>6 DEF Undecided
    <3>4. QED
      BY <3>2, <3>3
  <2>3. ASSUME NEW s \in Requests, NEW q \in DOMAIN result'[s], result'[s][q].document = d
        PROVE  \/ result'[s][q].session = open'[d].session
               \/ d \in DOMAIN open /\ q \in DOMAIN result[s] /\ result'[s][q] = result[s][q]
    <3>1. CASE s = r /\ q = p
      BY <2>2, <2>3, <3>1
    <3>2. CASE q \in DOMAIN result[s] /\ result'[s][q] = result[s][q]
      <4>1. d \in DOMAIN open \union closed
        <5>1. result[s][q] # NotOpened
          BY <2>1, <2>3, <3>2 DEF NotOpened
        <5>2. QED
          BY <1>1, <2>3, <3>2, <5>1 DEF NothingNewer, Known
      <4>2. d \in DOMAIN open
        BY <1>10, <4>1
      <4>3. QED
        BY <3>2, <4>2
    <3>3. QED
      BY <1>8, <2>3, <3>1, <3>2
  <2>4. QED
    BY <1>9, <1>10, <2>2, <2>3 DEF Served
<1>13. QED
  BY <1>3, <1>4, <1>5, <1>7, <1>10, <1>11, <1>12, ServedForgets

-----------------------------------------------------------------------------
(* The invariant of the documents *)

LEMMA KeptTurnKeeps == KeptInvariant /\ Next => KeptInvariant'
<1> SUFFICES ASSUME KeptInvariant, Next PROVE KeptInvariant'
  OBVIOUS
<1>1. SessionInvariant' /\ PageTypes'
  BY SessionTurnKeeps DEF KeptInvariant, SessionInvariant, PageInvariant, TypesHold
<1>2. ASSUME NEW r \in Requests, OpenPaths(r) \/ OpenFile(r)
      PROVE  DocumentsAgree'
  BY <1>1, <1>2, OpensPathsForgets, OpensFileForgets
<1>3. ASSUME NEW t \in rendered, ClosePending(t) \/ CloseTab(t)
      PROVE  DocumentsAgree'
  BY <1>1, <1>3, PendingClosedForgets, TabClosedForgets
<1>4. ASSUME NEW t \in rendered, LoadPage(t) \/ ConfigureCsv(t)
      PROVE  DocumentsAgree'
  BY <1>1, <1>4, PageAskedForgets, ConfigureAskedForgets
<1>5. ASSUME NEW r \in Requests, ServeItem(r) \/ ServeRejection(r)
      PROVE  DocumentsAgree'
  BY <1>1, <1>5, ItemForgets, RejectionForgets
<1>6. ASSUME Execute
      PROVE  DocumentsAgree'
  BY <1>1, <1>6, CommandForgets
<1>7. ASSUME NEW r \in Requests, ApplyOpenResponse(r) \/ FailOpen(r)
      PROVE  DocumentsAgree'
  BY <1>1, <1>7, ResponseForgets, OpenFailsForgets
<1>8. ASSUME NEW a \in replies, Settle(a) \/ PageArrives(a)
      PROVE  DocumentsAgree'
  BY <1>1, <1>8, SettledForgets, PageArrivedForgets
<1>9. ASSUME NEW a \in replies, ConfigureArrives(a) \/ FirstPageArrives(a)
      PROVE  DocumentsAgree'
  BY <1>1, <1>9, ConfigureArrivedForgets, FirstPageForgets
<1>10. ASSUME Render
       PROVE  DocumentsAgree'
  BY <1>1, <1>10, RenderedForgets
<1>11. DocumentsAgree'
  BY <1>2, <1>3, <1>4, <1>5, <1>6, <1>7, <1>8, <1>9, <1>10 DEF Next, User, Serve, Answer
<1>12. QED
  BY <1>1, <1>11 DEF KeptInvariant

LEMMA KeptStutterKeeps == KeptInvariant /\ UNCHANGED vars => KeptInvariant'
<1> SUFFICES ASSUME KeptInvariant, UNCHANGED vars PROVE KeptInvariant'
  OBVIOUS
<1>1. UNCHANGED <<tabs, rendered, deferred, latest, phase, result, open, closed, previous,
                  sessions, main, replies>>
  BY DEF vars, page, backend
<1>2. /\ Outstanding' = Outstanding
      /\ \A c : LatestOf(c)' = LatestOf(c) /\ (Newest(c)' <=> Newest(c))
  BY <1>1 DEF Outstanding, LatestOf, Newest
<1>3. SessionInvariant'
  BY SessionStutterKeeps DEF KeptInvariant
<1>4. NothingNewer'
  BY <1>1, <1>2, KeptFacts DEF NothingNewer, Known
<1>5. ConfiguresOrdered'
  BY <1>1, <1>2, KeptFacts DEF ConfiguresOrdered
<1>6. ClosesDone'
  BY <1>1, KeptFacts DEF ClosesDone, Closable
<1>7. DocumentsKept'
  BY <1>1, KeptFacts DEF DocumentsKept, CloseComes, TabCloses, NeverShown, Closable, Renews,
                         Undecided
<1>8. QED
  BY <1>3, <1>4, <1>5, <1>6, <1>7 DEF KeptInvariant, DocumentsAgree

LEMMA KeptInitially == Init => KeptInvariant
<1> SUFFICES ASSUME Init PROVE KeptInvariant
  OBVIOUS
<1>1. SessionInvariant
  BY SessionInitially
<1>2. /\ tabs = {} /\ rendered = {} /\ replies = {} /\ main = <<>> /\ DOMAIN open = {}
      /\ \A r \in Requests : DOMAIN result[r] = {}
  BY DEF Init, Registry!Init
<1>3. Outstanding = {} /\ 1 .. Len(main) = {}
  <2>1. Range(main) = {} /\ Len(main) = 0
    BY <1>2 DEF Range
  <2>2. QED
    BY <1>2, <2>1 DEF Outstanding
<1>4. NothingNewer
  BY <1>2, <1>3 DEF NothingNewer
<1>5. ConfiguresOrdered /\ ClosesDone /\ DocumentsKept
  BY <1>2, <1>3 DEF ConfiguresOrdered, ClosesDone, DocumentsKept
<1>6. QED
  BY <1>1, <1>4, <1>5 DEF KeptInvariant, DocumentsAgree

LEMMA KeptInvariantAlways == Spec => []KeptInvariant
<1>1. KeptInvariant /\ [Next]_vars => KeptInvariant'
  BY KeptTurnKeeps, KeptStutterKeeps
<1>2. QED
  BY <1>1, KeptInitially, PTL DEF Spec

-----------------------------------------------------------------------------
(* The theorems *)

\* The variables of the page, of the calls and of the backend have their types, and
\* the set of cleanups (cleanedOpenedIdentities) names exactly the cleanups sent and
\* not yet answered, however many answers and closes of the same files overlap.
THEOREM TabsTypedAlways == Spec => []TypeOK
<1>1. PageInvariant => TypeOK
  <2> SUFFICES ASSUME PageInvariant PROVE TypeOK
    OBVIOUS
  <2>1. PageTypes /\ BackendTypes /\ CallTypes /\ CleanupsOnce
    BY DEF PageInvariant, TypesHold
  <2>2. ShownTabs \subseteq Tabs /\ SentCalls \subseteq Calls
    BY DEF ShownTabs, SentCalls
  <2>3. tabs \subseteq Tabs /\ rendered \subseteq Tabs
    BY <2>1, <2>2 DEF PageTypes
  <2>4. \A r \in Requests : Range(result[r]) \subseteq Opened \union {NotOpened}
    BY <2>1 DEF BackendTypes, Range
  <2>5. \A r \in Requests : waits[r] \subseteq Calls
    BY <2>1, <2>2 DEF CallTypes
  <2>6. main \in Seq(Calls)
    BY <2>1, <2>2, SeqMonotonic DEF CallTypes
  <2>7. replies \subseteq [call : Calls, value : 0 .. MaxSession]
    BY <2>1, <2>2 DEF CallTypes
  <2>8. QED
    BY <2>1, <2>3, <2>4, <2>5, <2>6, <2>7
       DEF TypeOK, PageTypes, BackendTypes, CallTypes, CleanupsOnce
<1>2. QED
  BY <1>1, PageInvariantAlways, PTL

\* An open that waits for the closes and cancellations of its paths (registerPathClose)
\* waits only for calls that the backend has still to answer, and for at least one: the
\* last answer sends it.
THEOREM OpensGoOnAlways == Spec => []OpensGoOn
<1>1. PageInvariant => OpensGoOn
  BY DEF PageInvariant
<1>2. QED
  BY <1>1, PageInvariantAlways, PTL

\* No answer that arrives late, out of order or for a tab that is closed (openedDocument,
\* loadPage, configureCsv with their request numbers) leaves a document with two tabs, or a
\* tab with rows of another session than the one it names: the page is of that session, or
\* the tab is being configured, shows an error or waits for its newest page.
THEOREM TabsConsistentAlways == Spec => []TabsConsistent
<1>1. SessionInvariant => TabsConsistent
  BY DEF SessionInvariant, TabsAgree
<1>2. QED
  BY <1>1, SessionInvariantAlways, PTL

\* Whatever answers, closes and reopens of the same files overlap, no document that the
\* backend has open is left behind: a tab shows it, or an answer with it is under way, or a
\* close of it (closeDocument, cleanupOpenedFile) is sent, or deferredOpenedByPath keeps it.
THEOREM NothingForgottenAlways == Spec => []NothingForgotten
<1>1. KeptInvariant => NothingForgotten
  <2> SUFFICES ASSUME KeptInvariant, NEW d \in DOMAIN open
               PROVE  \/ \E t \in tabs : t.document = d
                      \/ Undecided(d) \/ Closing(d)
                      \/ \E p \in Paths : deferred[p] # None /\ deferred[p].opened.document = d
    BY DEF NothingForgotten
  <2>1. CASE CloseComes(d)
    <3>1. PICK i \in 1 .. Len(main) : CloseOf(main[i], d)
      BY <2>1 DEF CloseComes
    <3>2. main[i] \in Range(main)
      BY KeptFacts, PagesTyped, LenProperties DEF Range
    <3>3. QED
      BY <3>1, <3>2 DEF Closing, CloseOf
  <2>2. QED
    BY <2>1, KeptFacts DEF DocumentsKept, TabCloses, NeverShown
<1>2. QED
  BY <1>1, KeptInvariantAlways, PTL

=============================================================================
