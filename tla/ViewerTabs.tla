------------------------------ MODULE ViewerTabs ------------------------------
(***************************************************************************)
(* The document tabs of the viewer (src/src/App.tsx): opening files by     *)
(* paths (drop, start-up, file association) or by the dialog, closing tabs *)
(* that load or show a document, reading pages and changing the header     *)
(* mode of a CSV document, while the answers of the backend are under way. *)
(*                                                                         *)
(* JavaScript runs one task at a time: an event or an answer is one action *)
(* and ends with its microtasks.  What a task sets in the state is `tabs`; *)
(* what documentsRef.current and the controls show is `rendered`, which    *)
(* follows after an answer with some delay and after a click at once.      *)
(*                                                                         *)
(* The backend is the abstract map of open documents that the registry     *)
(* implements (OpenDocuments).  Its synchronous commands run on the main   *)
(* thread in the order they were sent; the dialog opens on the pool,       *)
(* concurrently with them.  Answers arrive in any order.                   *)
(***************************************************************************)
EXTENDS Integers, Sequences, FiniteSets, SequencesExt

CONSTANTS
  Paths,
  Requests,            \* request ids of opens
  Dialogs,             \* those of the file dialog
  PathsOf,             \* the different paths of each
  None,
  MaxDocument, MaxSession,
  MaxConfigures,       \* bound on the changes of a header mode
  MaxPages,            \* bound on the pages asked for
  MaxFailures,         \* bound on the items and requests the backend rejects
  MaxTurns             \* bound on these three together

ASSUME TabsAssumption ==
  /\ Dialogs \subseteq Requests /\ None \notin Requests
  /\ PathsOf \in [Requests -> SUBSET Paths]
  /\ IsFiniteSet(Paths) /\ IsFiniteSet(Requests)
  /\ {MaxDocument, MaxSession, MaxConfigures, MaxPages, MaxFailures, MaxTurns}
       \subseteq Nat

VARIABLES
  tabs, rendered,      \* the documents of the state, and as last rendered
  closedPending,       \* closedPendingIds: <<request, path>> of closed placeholders
  deferred,            \* deferredOpenedByPath: owner and opened document, or None
  cleaned,             \* cleanedOpenedIdentities
  latest,              \* statusRequests and pageRequests of each document
  phase, waits,        \* of each request: where it is, and the closes it waits for
  result,              \* of each request, by path: what the backend opened
  open, closed,        \* the backend's documents: OpenDocuments
  previous, sessions,  \* previous_session_id of each; the last session given
  cancelled,           \* cancelled_requests of the backend
  main,                \* calls sent to the main thread and not yet executed
  replies,             \* calls executed whose answer is under way
  configures, pages, failures

page == <<tabs, rendered, closedPending, deferred, cleaned, latest>>
backend == <<open, closed, previous, sessions, cancelled>>
bounds == <<configures, pages, failures>>
vars == <<page, phase, waits, result, backend, main, replies, bounds>>

Documents == 1 .. MaxDocument
Sessions == 1 .. MaxSession
Registry == INSTANCE OpenDocuments WITH Files <- Paths, Fits <- LAMBDA ds : TRUE

\* A document id and the session that was opened, or none.
Opened == [document : Documents, session : Sessions]
NotOpened == [document |-> 0, session |-> 0]

\* What is kept for a reopen, the later owner and the opened document, is not None.
ASSUME NoneAssumption == None \notin [owner : Requests, opened : Opened]

\* A placeholder or failed tab belongs to a request and a path, a ready one to a
\* document; page is the session its page was read from, failed says that it shows
\* an error.
Tabs == [status : {"loading", "error", "ready"}, request : Requests \union {None},
         path : Paths, document : 0 .. MaxDocument, session : 0 .. MaxSession,
         page : 0 .. MaxSession, configuring : BOOLEAN, failed : BOOLEAN]

Pending(r, p, status) ==
  [status |-> status, request |-> r, path |-> p, document |-> 0, session |-> 0,
   page |-> 0, configuring |-> FALSE, failed |-> FALSE]

Ready(o, p) ==
  [status |-> "ready", request |-> None, path |-> p, document |-> o.document,
   session |-> o.session, page |-> o.session, configuring |-> FALSE, failed |-> FALSE]

\* The same tab id.
Same(t, u) == t.request = u.request /\ t.path = u.path /\ t.document = u.document

\* A call and, as far as a kind needs them, the request, the document and its
\* session, the paths that wait for its answer and the number of the request.
Call(kind, r, o, ps, n) ==
  [kind |-> kind, request |-> r, document |-> o.document, session |-> o.session,
   paths |-> ps, number |-> n]

OpenCall(r) == Call("open", r, NotOpened, {}, 0)
CancelCall(r, ps) == Call("cancel", r, NotOpened, ps, 0)
CloseCall(t) == Call("close", None, t, {t.path}, 0)
CleanupCall(o, p) == Call("cleanup", None, o, {p}, 0)

\* What a close or a cleanup names.
Identity(c) == [document |-> c.document, session |-> c.session]

\* Calls that are sent or whose answer is under way.
Outstanding == Range(main) \union {a.call : a \in replies}

\* registerPathClose: the calls an open of these paths has to wait for.
Barriers(ps) == {c \in Outstanding : c.paths \intersect ps # {}}

-----------------------------------------------------------------------------
Init ==
  /\ tabs = {} /\ rendered = {} /\ closedPending = {}
  /\ deferred = [p \in Paths |-> None]
  /\ cleaned = {}
  /\ latest = [d \in Documents |-> [status |-> 0, page |-> 0]]
  /\ phase = [r \in Requests |-> "new"]
  /\ waits = [r \in Requests |-> {}]
  /\ result = [r \in Requests |-> [p \in {} |-> NotOpened]]
  /\ Registry!Init /\ previous = [d \in Documents |-> 0] /\ sessions = 0
  /\ cancelled = {}
  /\ main = <<>> /\ replies = {}
  /\ configures = 0 /\ pages = 0 /\ failures = 0

Room(counter, bound) == counter < bound /\ configures + pages + failures < MaxTurns

-----------------------------------------------------------------------------
(* The backend.                                                            *)

\* An item of open_paths: it joins the open document of its path or opens a new
\* one, which a cancelled request does not; either may fail.
OpenItem(r, p) ==
  /\ p \in PathsOf[r] \ DOMAIN result[r]
  /\ LET Is(o) == result' = [result EXCEPT ![r] =
                        [q \in DOMAIN result[r] \union {p} |-> IF q = p THEN o ELSE result[r][q]]]
         next == Cardinality(DOMAIN open \union closed) + 1
     IN \/ \E d \in DOMAIN open :
             /\ open[d].file = p
             /\ Is([document |-> d, session |-> open[d].session])
             /\ UNCHANGED <<backend, bounds>>
        \/ /\ r \notin cancelled
           /\ next \in Documents /\ sessions < MaxSession
           /\ Registry!Open(next, p, sessions + 1)
           /\ sessions' = sessions + 1
           /\ Is([document |-> next, session |-> sessions + 1])
           /\ UNCHANGED <<previous, cancelled, bounds>>
        \/ /\ r \in cancelled /\ \A d \in DOMAIN open : open[d].file # p
           /\ Is(NotOpened)
           /\ UNCHANGED <<backend, bounds>>
        \/ /\ Room(failures, MaxFailures)
           /\ failures' = failures + 1
           /\ Is(NotOpened)
           /\ UNCHANGED <<backend, configures, pages>>

\* The request whose open_paths runs on a thread of its own or heads the main one.
Serving(r) ==
  /\ phase[r] = "sent"
  /\ r \in Dialogs \/ (main # <<>> /\ Head(main) = OpenCall(r))

Answered(r, how) ==
  /\ phase' = [phase EXCEPT ![r] = how]
  /\ main' = IF r \in Dialogs THEN main ELSE Tail(main)

\* One item more; the last one completes the answer.
ServeItem(r) ==
  /\ Serving(r)
  /\ \E p \in Paths : OpenItem(r, p)
  /\ IF DOMAIN result'[r] = PathsOf[r] THEN Answered(r, "answered")
                                       ELSE UNCHANGED <<phase, main>>
  /\ UNCHANGED <<page, waits, replies>>

\* ensure_idle, validate_open_request or register_request says no.
ServeRejection(r) ==
  /\ Serving(r)
  /\ DOMAIN result[r] = {} /\ Room(failures, MaxFailures)
  /\ failures' = failures + 1
  /\ Answered(r, "rejected")
  /\ UNCHANGED <<page, waits, result, backend, replies, configures, pages>>

\* The next synchronous command; its answer is on the way with the value.
Executes(kinds, value) ==
  /\ main # <<>> /\ Head(main).kind \in kinds
  /\ main' = Tail(main)
  /\ replies' = replies \union {[call |-> Head(main), value |-> value]}
  /\ UNCHANGED <<page, phase, waits, result, configures, pages>>

ServeCancel ==
  /\ Executes({"cancel"}, 0)
  /\ cancelled' = cancelled \union {Head(main).request}
  /\ UNCHANGED <<open, closed, previous, sessions, failures>>

\* AppState::close, which takes the current or the previous session.
ServeClose ==
  /\ Executes({"close", "cleanup"}, 0)
  /\ LET c == Head(main)
         d == c.document
     IN IF d \in DOMAIN open /\ c.session \in {open[d].session, previous[d]}
        THEN Registry!Close(d)
        ELSE UNCHANGED <<open, closed>>
  /\ UNCHANGED <<previous, sessions, cancelled, failures>>

Current(c) == c.document \in DOMAIN open /\ open[c.document].session = c.session

\* configure_csv gives the document a new session, read_page reads from the one it
\* names.
ServeConfigure ==
  /\ Executes({"configure"}, sessions + 1)
  /\ Current(Head(main)) /\ sessions < MaxSession
  /\ Registry!Replace(Head(main).document, sessions + 1)
  /\ previous' = [previous EXCEPT ![Head(main).document] = Head(main).session]
  /\ sessions' = sessions + 1
  /\ UNCHANGED <<cancelled, failures>>

ServeRead ==
  /\ Executes({"read", "first_page"}, Head(main).session)
  /\ Current(Head(main))
  /\ UNCHANGED <<backend, failures>>

\* Both answer with an error (0) when the session is not current, and when the file
\* cannot be read.
ServeError ==
  /\ Executes({"configure", "read", "first_page"}, 0)
  /\ IF Current(Head(main))
     THEN Room(failures, MaxFailures) /\ failures' = failures + 1
     ELSE UNCHANGED failures
  /\ UNCHANGED backend

-----------------------------------------------------------------------------
(* Opening.                                                                *)

\* openPaths: placeholders, and the call once the closes of its paths are over.
OpenPaths(r) ==
  /\ r \notin Dialogs /\ phase[r] = "new"
  /\ tabs' = tabs \union {Pending(r, p, "loading") : p \in PathsOf[r]}
  /\ waits' = [waits EXCEPT ![r] = Barriers(PathsOf[r])]
  /\ IF waits'[r] = {}
     THEN /\ phase' = [phase EXCEPT ![r] = "sent"]
          /\ main' = Append(main, OpenCall(r))
     ELSE /\ phase' = [phase EXCEPT ![r] = "waiting"]
          /\ UNCHANGED main
  /\ UNCHANGED <<rendered, closedPending, deferred, cleaned, latest, result, backend,
                 replies, bounds>>

\* openFile: no placeholder, and no look at the closes.
OpenFile(r) ==
  /\ r \in Dialogs /\ phase[r] = "new"
  /\ phase' = [phase EXCEPT ![r] = "sent"]
  /\ UNCHANGED <<page, waits, result, backend, main, replies, bounds>>

\* cleanupOpenedFile for some opened files <<opened, path>>, each once at a time.
Cleanup(files) ==
  LET new == {f \in files : f[1] \notin cleaned}
  IN /\ cleaned' = cleaned \union {f[1] : f \in new}
     /\ \E calls \in SetToSeqs({CleanupCall(f[1], f[2]) : f \in new}) : main' = main \o calls

\* resolveDeferredOpened for paths of a request: the entries it owned end, and
\* what the request has not opened itself is cleaned up.
Owned(r, ps) == {p \in ps : deferred[p] # None /\ deferred[p].owner = r}

\* fault: the entry goes, its document stays open.
ForgetsOpened(r, ps, retained) == {}

Unretained(r, ps, retained) ==
  {<<deferred[p].opened, p>> : p \in {q \in Owned(r, ps) : deferred[q].opened # retained[q]}}

\* The placeholders of other requests that will show the path.
ReopenOwners(r, p) ==
  {t.request : t \in {u \in rendered : u.status = "loading" /\ u.request # r /\ u.path = p}}

\* applyOpenResponse.
ApplyOpenResponse(r) ==
  /\ phase[r] = "answered"
  /\ phase' = [phase EXCEPT ![r] = "done"]
  /\ LET ps == PathsOf[r]
         res == result[r]
         discarded == {p \in ps : <<r, p>> \in closedPending}
         opened == {p \in ps : res[p] # NotOpened}
         accepted == opened \ discarded
         late == {p \in opened \intersect discarded :
                    ~ \E t \in rendered : t.document = res[p].document /\ t.session = res[p].session}
         reopened == {p \in late : ReopenOwners(r, p) # {}}
         resolved == Owned(r, ps \ discarded)
         replaced == {p \in reopened : deferred[p] # None /\ deferred[p].opened # res[p]}
         shown == {t.document : t \in tabs}
     IN /\ \E owner \in [reopened -> Requests] :
             /\ \A p \in reopened : owner[p] \in ReopenOwners(r, p)
             /\ deferred' = [p \in Paths |->
                  IF p \in reopened THEN [owner |-> owner[p], opened |-> res[p]]
                  ELSE IF p \in resolved THEN None ELSE deferred[p]]
        /\ Cleanup(Unretained(r, ps \ discarded, res)
                   \union {<<deferred[p].opened, p>> : p \in replaced}
                   \union {<<res[p], p>> : p \in late \ reopened})
        /\ closedPending' = closedPending \ ({r} \X ps)
        /\ tabs' =
             {t \in tabs : ~ \E p \in ps \ discarded : Same(t, Pending(r, p, "loading"))}
             \union {Ready(res[p], p) : p \in {q \in accepted : res[q].document \notin shown}}
             \union {Pending(r, p, "error") : p \in ps \ (opened \union discarded)}
  /\ UNCHANGED <<rendered, latest, waits, result, backend, replies, bounds>>

\* The catch of openPaths and of openFile.
FailOpen(r) ==
  /\ phase[r] = "rejected"
  /\ phase' = [phase EXCEPT ![r] = "done"]
  /\ IF r \in Dialogs
     THEN UNCHANGED <<tabs, closedPending, deferred, cleaned, main>>
     ELSE LET ps == PathsOf[r] IN
          /\ deferred' = [p \in Paths |-> IF p \in Owned(r, ps) THEN None ELSE deferred[p]]
          /\ Cleanup(Unretained(r, ps, [p \in ps |-> NotOpened]))
          /\ closedPending' = closedPending \ ({r} \X ps)
          /\ tabs' = {IF t.request = r THEN [t EXCEPT !.status = "error"] ELSE t : t \in tabs}
  /\ UNCHANGED <<rendered, latest, waits, result, backend, replies, bounds>>

-----------------------------------------------------------------------------
(* Closing.                                                                *)

\* fault: a page asked for before is still accepted.
KeepsPages(d) == latest' = [latest EXCEPT ![d].status = @ + 1]

\* A close or a new header mode invalidates the answers of the document that are
\* under way.
Invalidated(d) ==
  latest' = [e \in Documents |->
               IF e = d THEN [status |-> latest[e].status + 1, page |-> latest[e].page + 1]
               ELSE latest[e]]

\* closeDocument of a placeholder: all placeholders of its request go.
ClosePending(t) ==
  /\ t \in rendered /\ t.status = "loading"
  /\ LET r == t.request
         group == {u \in rendered : u.status = "loading" /\ u.request = r}
         ps == {u.path : u \in group}
     IN /\ closedPending' = closedPending \union ({r} \X ps)
        /\ tabs' = {u \in tabs : \A v \in group : ~ Same(u, v)}
        /\ deferred' = [p \in Paths |-> IF p \in Owned(r, ps) THEN None ELSE deferred[p]]
        /\ LET files == Unretained(r, ps, [p \in ps |-> NotOpened])
               new == {f \in files : f[1] \notin cleaned}
           IN /\ cleaned' = cleaned \union {f[1] : f \in new}
              /\ \E calls \in SetToSeqs({CleanupCall(f[1], f[2]) : f \in new}) :
                   main' = Append(main, CancelCall(r, ps)) \o calls
  /\ rendered' = tabs'
  /\ UNCHANGED <<latest, phase, waits, result, backend, replies, bounds>>

\* closeDocument of a failed tab, and of one that shows a document.
CloseTab(t) ==
  /\ t \in rendered /\ t.status # "loading"
  /\ tabs' = {u \in tabs : ~ Same(u, t)}
  /\ rendered' = tabs'
  /\ Invalidated(t.document)
  /\ main' = IF t.status = "ready" THEN Append(main, CloseCall(t)) ELSE main
  /\ UNCHANGED <<closedPending, deferred, cleaned, phase, waits, result, backend, replies,
                 bounds>>

\* fault: looks at the barriers as they were before the answer.
FreedBefore(w) == {r \in Requests : phase[r] = "waiting" /\ waits[r] = {}}

\* The opens whose barriers, now w, have all settled.
Freed(w) == {r \in Requests : phase[r] = "waiting" /\ w[r] = {}}

\* fault: an identity stays in the set of cleanups.
KeepsCleaned(a) == cleaned

\* The cleanups still under way after an answer.
Uncleaned(a) ==
  IF a.call.kind = "cleanup"
  THEN cleaned \ {Identity(a.call)} ELSE cleaned

\* The answer to a close, a cleanup or a cancellation: opens that waited only for
\* it are sent.
Settle(a) ==
  /\ a \in replies /\ a.call.kind \in {"close", "cleanup", "cancel"}
  /\ replies' = replies \ {a}
  /\ cleaned' = Uncleaned(a)
  /\ waits' = [r \in Requests |-> waits[r] \ {a.call}]
  /\ LET freed == Freed(waits')
     IN /\ phase' = [r \in Requests |-> IF r \in freed THEN "sent" ELSE phase[r]]
        /\ \E calls \in SetToSeqs({OpenCall(r) : r \in freed}) : main' = main \o calls
  /\ UNCHANGED <<tabs, rendered, closedPending, deferred, latest, result, backend, bounds>>

-----------------------------------------------------------------------------
(* Pages and header mode of a ready tab; t is the tab as the control sees  *)
(* it.                                                                     *)

\* updateDocument: nothing happens when the tab is gone.
Update(d, changed) == tabs' = {IF t.document = d THEN changed[t] ELSE t : t \in tabs}

Failure(t) == [t EXCEPT !.failed = TRUE]
Configured(t) == [t EXCEPT !.configuring = FALSE]

\* loadPage.
LoadPage(t) ==
  /\ t \in rendered /\ t.status = "ready"
  /\ Room(pages, MaxPages) /\ pages' = pages + 1
  /\ LET n == latest[t.document].page + 1
     IN /\ latest' = [latest EXCEPT ![t.document].page = n]
        /\ main' = Append(main, Call("read", None, t, {}, n))
  /\ Update(t.document, [u \in Tabs |-> [u EXCEPT !.failed = FALSE]])
  /\ rendered' = tabs'
  /\ UNCHANGED <<closedPending, deferred, cleaned, phase, waits, result,
                 backend, replies, configures, failures>>

\* configureCsv up to its call.
ConfigureCsv(t) ==
  /\ t \in rendered /\ t.status = "ready" /\ ~ t.configuring
  /\ Room(configures, MaxConfigures) /\ configures' = configures + 1
  /\ Invalidated(t.document)
  /\ Update(t.document,
            [u \in Tabs |-> [u EXCEPT !.configuring = TRUE, !.failed = FALSE]])
  /\ rendered' = tabs'
  /\ main' = Append(main, Call("configure", None, t, {}, latest[t.document].status + 1))
  /\ UNCHANGED <<closedPending, deferred, cleaned, phase, waits, result, backend, replies,
                 pages, failures>>

\* An answer that no newer request of its kind has overtaken.
Arrives(a, kinds) ==
  /\ a \in replies /\ a.call.kind \in kinds
  /\ replies' = replies \ {a}
  /\ UNCHANGED <<rendered, closedPending, deferred, cleaned, latest, phase, waits, result,
                 backend, bounds>>

\* The page of loadPage.
PageArrives(a) ==
  /\ Arrives(a, {"read"})
  /\ IF latest[a.call.document].page = a.call.number
     THEN Update(a.call.document,
            [t \in Tabs |-> IF a.value = 0 THEN Failure(t) ELSE [t EXCEPT !.page = a.value]])
     ELSE UNCHANGED tabs
  /\ UNCHANGED main

\* configureCsv after its call: the tab takes the new session and asks for its
\* first page.
ConfigureArrives(a) ==
  /\ Arrives(a, {"configure"})
  /\ LET d == a.call.document
         new == [document |-> d, session |-> a.value]
     IN IF latest[d].status # a.call.number
        THEN UNCHANGED <<tabs, main>>
        ELSE IF a.value = 0
        THEN /\ Update(d, [t \in Tabs |-> Failure(Configured(t))])
             /\ UNCHANGED main
        ELSE /\ Update(d, [t \in Tabs |-> [t EXCEPT !.session = a.value]])
             /\ main' = Append(main, Call("first_page", None, new, {}, a.call.number))

\* The first page of the new session, or the error of reading it.
FirstPageArrives(a) ==
  /\ Arrives(a, {"first_page"})
  /\ IF latest[a.call.document].status = a.call.number
     THEN Update(a.call.document, [t \in Tabs |->
            Configured(IF a.value = 0 THEN Failure(t)
                       ELSE [t EXCEPT !.session = a.value, !.page = a.value])])
     ELSE UNCHANGED tabs
  /\ UNCHANGED main

\* React renders what the tasks have set.
Render ==
  /\ rendered # tabs
  /\ rendered' = tabs
  /\ UNCHANGED <<tabs, closedPending, deferred, cleaned, latest, phase, waits, result, backend,
                 main, replies, bounds>>

-----------------------------------------------------------------------------
User ==
  \/ \E r \in Requests : OpenPaths(r) \/ OpenFile(r)
  \/ \E t \in rendered : ClosePending(t) \/ CloseTab(t) \/ LoadPage(t) \/ ConfigureCsv(t)

Serve == \E r \in Requests : ServeItem(r) \/ ServeRejection(r)
Execute == ServeCancel \/ ServeClose \/ ServeConfigure \/ ServeRead \/ ServeError

Answer ==
  \/ \E r \in Requests : ApplyOpenResponse(r) \/ FailOpen(r)
  \/ \E a \in replies :
       Settle(a) \/ PageArrives(a) \/ ConfigureArrives(a) \/ FirstPageArrives(a)

Next == User \/ Serve \/ Execute \/ Answer \/ Render

Spec == Init /\ [][Next]_vars

-----------------------------------------------------------------------------
Calls == [kind : {"open", "cancel", "close", "cleanup", "configure", "read", "first_page"},
          request : Requests \union {None}, document : 0 .. MaxDocument,
          session : 0 .. MaxSession, paths : SUBSET Paths, number : Nat]

\* Every variable has its type; a cleanup is remembered exactly as long as it is
\* under way.
TypeOK ==
  /\ tabs \subseteq Tabs /\ rendered \subseteq Tabs
  /\ closedPending \subseteq Requests \X Paths
  /\ deferred \in [Paths -> [owner : Requests, opened : Opened] \union {None}]
  /\ latest \in [Documents -> [status : Nat, page : Nat]]
  /\ phase \in [Requests -> {"new", "waiting", "sent", "answered", "rejected", "done"}]
  /\ \A r \in Requests :
       /\ waits[r] \subseteq Calls /\ (phase[r] # "waiting" => waits[r] = {})
       /\ DOMAIN result[r] \subseteq PathsOf[r]
       /\ Range(result[r]) \subseteq Opened \union {NotOpened}
  /\ DOMAIN open \subseteq Documents /\ closed \subseteq Documents
  /\ cleaned = {Identity(c) : c \in {e \in Outstanding : e.kind = "cleanup"}}
  /\ main \in Seq(Calls)
  /\ replies \subseteq [call : Calls, value : 0 .. MaxSession]

\* Whatever the answers and closes overlap, no document is shown by two tabs and
\* no tab is left with the rows of another session than the one it names: while
\* no page is on its way, the page is of that session or the tab says why not.
TabsConsistent ==
  \A t \in tabs : t.status = "ready" =>
    /\ \A u \in tabs : u.document = t.document => u = t
    /\ \/ t.page = t.session \/ t.configuring \/ t.failed
       \/ \E c \in Outstanding :
            c.kind = "read" /\ c.document = t.document /\ c.number = latest[t.document].page

\* A request whose answer may still open a tab or must still clean up.
Undecided(d) ==
  \E r \in Requests : /\ phase[r] \in {"sent", "answered"}
                      /\ \E p \in DOMAIN result[r] : result[r][p].document = d

Closing(d) ==
  \E c \in Range(main) : c.kind \in {"close", "cleanup"} /\ c.document = d

\* A document that was opened for a closed placeholder is not forgotten: it has a
\* tab, or an answer with it is under way, or it is being closed, or it is kept
\* for a reopen of its path.
NothingForgotten ==
  \A d \in DOMAIN open :
    \/ \E t \in tabs : t.document = d
    \/ Undecided(d) \/ Closing(d)
    \/ \E p \in Paths : deferred[p] # None /\ deferred[p].opened.document = d

\* An open that waits for closes and cancellations of its paths waits for some that
\* are still to be answered; none is left waiting when they are over.
OpensGoOn ==
  \A r \in Requests : phase[r] = "waiting" =>
    waits[r] # {} /\ waits[r] \subseteq Barriers(PathsOf[r])

-----------------------------------------------------------------------------
(* What the steps maintain, for the proofs.                                *)

\* A tab that shows no document belongs to a request.
ShownTabs ==
  {t \in Tabs : IF t.status = "ready"
                THEN t.request = None /\ t.document \in Documents /\ t.session \in Sessions
                ELSE t.request \in Requests /\ t.document = 0}

SettledKinds == {"cancel", "close", "cleanup"}

\* Only the calls of these kinds are waited for.
SentCalls ==
  {c \in Calls :
     /\ IF c.kind \in {"open", "cancel"} THEN c.request \in Requests
                                         ELSE Identity(c) \in Opened
     /\ c.kind \notin SettledKinds => c.paths = {}}

PageTypes ==
  /\ tabs \subseteq ShownTabs /\ rendered \subseteq ShownTabs
  /\ closedPending \subseteq Requests \X Paths
  /\ deferred \in [Paths -> [owner : Requests, opened : Opened] \union {None}]
  /\ latest \in [Documents -> [status : Nat, page : Nat]]

BackendTypes ==
  /\ result = [r \in Requests |-> result[r]]
  /\ \A r \in Requests : /\ DOMAIN result[r] \subseteq PathsOf[r]
                         /\ result[r] \in [DOMAIN result[r] -> Opened \union {NotOpened}]
  /\ DOMAIN open \subseteq Documents /\ closed \subseteq Documents
  /\ open \in [DOMAIN open -> [file : Paths, session : Sessions]]
  /\ previous \in [Documents -> 0 .. MaxSession] /\ sessions \in 0 .. MaxSession
  /\ cancelled \subseteq Requests

\* An answer covers all paths of the request; only a waiting open has barriers.
CallTypes ==
  /\ phase \in [Requests -> {"new", "waiting", "sent", "answered", "rejected", "done"}]
  /\ waits \in [Requests -> SUBSET SentCalls]
  /\ \A r \in Requests : /\ phase[r] = "answered" => DOMAIN result[r] = PathsOf[r]
                         /\ phase[r] # "waiting" => waits[r] = {}
  /\ main \in Seq(SentCalls)
  /\ replies \subseteq [call : SentCalls, value : 0 .. MaxSession]

TypesHold == PageTypes /\ BackendTypes /\ CallTypes

\* A document has one path, whichever requests opened or joined it, and what is kept
\* for a reopen was opened by some request.
ResultsAgree ==
  /\ \A r \in Requests : \A p \in DOMAIN result[r] : result[r][p] # NotOpened =>
       LET d == result[r][p].document IN
       /\ d \in DOMAIN open \union closed
       /\ (d \in DOMAIN open => open[d].file = p)
       /\ \A s \in Requests : \A q \in DOMAIN result[s] : result[s][q].document = d => q = p
  /\ \A p \in Paths : deferred[p] # None =>
       \E r \in Requests : p \in DOMAIN result[r] /\ result[r][p] = deferred[p].opened

\* No two cleanups of the same identity are under way.
CleanupsOnce ==
  /\ cleaned = {Identity(c) : c \in {e \in Outstanding : e.kind = "cleanup"}}
  /\ \A i, j \in 1 .. Len(main) :
       main[i].kind = "cleanup" /\ main[j].kind = "cleanup"
         /\ Identity(main[i]) = Identity(main[j]) => i = j
  /\ \A a \in replies : a.call.kind = "cleanup" =>
       /\ \A i \in 1 .. Len(main) :
            main[i].kind = "cleanup" => Identity(main[i]) # Identity(a.call)
       /\ \A b \in replies :
            b.call.kind = "cleanup" /\ Identity(b.call) = Identity(a.call) => b = a

PageInvariant == TypesHold /\ OpensGoOn /\ ResultsAgree /\ CleanupsOnce

\* A tab shows a document that some request opened; the rendered tabs are those of
\* the state, some with an older session.
TabsOpened ==
  /\ \A t \in tabs \union rendered : t.status = "ready" =>
       \E r \in Requests : /\ t.path \in DOMAIN result[r]
                           /\ result[r][t.path].document = t.document
  /\ \A t \in rendered : t.status = "ready" =>
       /\ \E u \in tabs : u.document = t.document
       /\ \A u \in tabs : u.document = t.document => t.session <= u.session

\* The sessions of a document only grow.
SessionsGrow ==
  \A d \in DOMAIN open :
    /\ open[d].session <= sessions
    /\ \A t \in tabs : t.document = d => t.session <= open[d].session
    /\ \A r \in Requests : \A p \in DOMAIN result[r] :
         result[r][p].document = d => result[r][p].session <= open[d].session

PageKinds == {"read", "configure", "first_page"}

LatestOf(c) == IF c.kind = "read" THEN latest[c.document].page ELSE latest[c.document].status

\* A call whose answer will be applied.
Newest(c) == c.kind \in PageKinds /\ c.number = LatestOf(c)

CallsNumbered ==
  \A c \in Outstanding : c.kind \in PageKinds =>
    /\ c.number <= LatestOf(c)
    /\ Newest(c) => \E t \in tabs : t.document = c.document

SameTurn(c, e) ==
  /\ c.kind \in {"configure", "first_page"} /\ e.kind \in {"configure", "first_page"}
  /\ c.document = e.document /\ c.number = e.number

\* One call at a time carries the number of a new header mode.
TurnsOnce ==
  /\ \A i, j \in 1 .. Len(main) : SameTurn(main[i], main[j]) => i = j
  /\ \A a \in replies : /\ \A i \in 1 .. Len(main) : ~ SameTurn(main[i], a.call)
                        /\ \A b \in replies : SameTurn(a.call, b.call) => a = b

\* What a tab knows of the calls whose answers it will take, and what these answer.
CallsFit ==
  \A c \in Outstanding, t \in tabs : Newest(c) /\ c.document = t.document =>
    /\ c.kind = "read" => c.session <= t.session
    /\ c.kind = "configure" => t.configuring
    /\ c.kind = "first_page" => c.session = t.session

AnswersFit ==
  \A a \in replies, t \in tabs :
    Newest(a.call) /\ a.call.document = t.document /\ a.value # 0 =>
      IF a.call.kind = "configure" THEN t.session < a.value ELSE t.session = a.value

\* A page asked for after a new header mode is read after it, and then from the new
\* session or not at all.
ConfiguresFirst ==
  /\ \A i \in 1 .. Len(main) : main[i].kind = "configure" /\ Newest(main[i]) =>
       /\ \A j \in 1 .. Len(main) :
            main[j].kind = "read" /\ Newest(main[j]) /\ main[j].document = main[i].document
              => i < j
       /\ \A b \in replies :
            ~ (b.call.kind = "read" /\ Newest(b.call) /\ b.call.document = main[i].document)
  /\ \A a \in replies : a.call.kind = "configure" /\ Newest(a.call) /\ a.value # 0 =>
       /\ a.call.document \in DOMAIN open => a.value <= open[a.call.document].session
       /\ \A b \in replies :
            b.call.kind = "read" /\ Newest(b.call) /\ b.call.document = a.call.document
              => b.value = 0

TabsAgree == TabsConsistent /\ TabsOpened /\ SessionsGrow

CallsAgree == CallsNumbered /\ TurnsOnce /\ CallsFit /\ AnswersFit /\ ConfiguresFirst

SessionInvariant == PageInvariant /\ TabsAgree /\ CallsAgree

\* What names a document and a session of it that the backend has given.
Known(o) == o.document \in DOMAIN open \union closed /\ o.session <= sessions

NothingNewer ==
  /\ \A t \in tabs \union rendered : t.status = "ready" => Known(t)
  /\ \A r \in Requests : \A p \in DOMAIN result[r] :
       result[r][p] # NotOpened => Known(result[r][p])
  /\ \A c \in Outstanding : c.kind \notin {"open", "cancel"} => Known(c)
  /\ \A a \in replies : a.value <= sessions

ConfigureOf(c, d) == c.kind = "configure" /\ c.document = d
CloseOf(c, d) == c.kind \in {"close", "cleanup"} /\ c.document = d

\* The header modes of a document are executed in the order in which they were chosen.
ConfiguresOrdered ==
  /\ \A j \in 1 .. Len(main) : \A d \in Documents : ConfigureOf(main[j], d) =>
       /\ \A i \in 1 .. j - 1 : ConfigureOf(main[i], d) => main[i].number < main[j].number
       /\ \A a \in replies : ConfigureOf(a.call, d) => a.call.number < main[j].number
  /\ \A d \in DOMAIN open : \A a \in replies :
       ConfigureOf(a.call, d) /\ Newest(a.call) /\ a.value # 0 => a.value = open[d].session

\* The sessions under which a close finds the document.
Closable(d) == {open[d].session, previous[d]}

\* A close that was executed and left its document open named another session.
ClosesDone ==
  \A d \in DOMAIN open : \A a \in replies : CloseOf(a.call, d) => a.call.session \notin Closable(d)

\* A header mode that gives the document a new session, when it is executed next.
Renews(c, d) == ConfigureOf(c, d) /\ c.session = open[d].session

\* A close that will find the document under one of its two sessions.
CloseComes(d) ==
  \E i \in 1 .. Len(main) :
    /\ CloseOf(main[i], d) /\ main[i].session \in Closable(d)
    /\ \A j \in 1 .. i - 1 : Renews(main[j], d) => main[i].session = open[d].session

\* A close of its tab will find it.
TabCloses(d) ==
  /\ \E t \in tabs : t.document = d
  /\ \A t \in tabs \union rendered : t.document = d =>
       /\ t.session \in Closable(d)
       /\ \A i \in 1 .. Len(main) : Renews(main[i], d) => t.session = open[d].session

\* It was never shown, and whoever opened it names its only session.
NeverShown(d) ==
  /\ \A t \in tabs : t.document # d
  /\ \A i \in 1 .. Len(main) : ~ ConfigureOf(main[i], d)
  /\ \A r \in Requests : \A p \in DOMAIN result[r] :
       result[r][p].document = d => result[r][p].session = open[d].session
  /\ Undecided(d) \/ \E p \in Paths : deferred[p] # None /\ deferred[p].opened.document = d

DocumentsKept ==
  \A d \in DOMAIN open : CloseComes(d) \/ TabCloses(d) \/ NeverShown(d)

DocumentsAgree == NothingNewer /\ ConfiguresOrdered /\ ClosesDone /\ DocumentsKept

KeptInvariant == SessionInvariant /\ DocumentsAgree

=============================================================================
