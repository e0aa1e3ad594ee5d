--------------------------- MODULE CopyManagerProofs ---------------------------
(***************************************************************************)
(* Cancellation, outcome and drops of copies, for any operations, sessions *)
(* and history capacity.                                                   *)
(***************************************************************************)
EXTENDS CopyManager, TLAPS

-----------------------------------------------------------------------------
(* The history of a session *)

\* What is put in front of a sequence is the only new element.
LEMMA PrependRange ==
  ASSUME NEW S, NEW o \in S, NEW q \in Seq(S)
  PROVE  <<o>> \o q \in Seq(S) /\ Range(<<o>> \o q) = {o} \union Range(q)
<1> DEFINE r == <<o>> \o q
<1>1. r \in Seq(S) /\ Len(r) = Len(q) + 1
  OBVIOUS
<1>2. r[1] = o /\ \A i \in 1..Len(q) : r[i + 1] = q[i]
  OBVIOUS
<1>3. \A i \in 2..Len(r) : i - 1 \in 1..Len(q) /\ r[i] = q[i - 1]
  BY <1>1, <1>2
<1>4. Range(r) \subseteq {o} \union Range(q)
  BY <1>1, <1>2, <1>3 DEF Range
<1>5. ASSUME NEW x \in Range(q)  PROVE x \in Range(r)
  <2>1. PICK i \in 1..Len(q) : q[i] = x
    BY DEF Range
  <2>2. i + 1 \in 1..Len(r) /\ r[i + 1] = x
    BY <1>1, <1>2, <2>1
  <2> HIDE DEF r
  <2> QED  BY <1>1, <2>2 DEF Range
<1>6. o \in Range(r)
  <2>1. 1 \in 1..Len(r)
    BY <1>1
  <2> HIDE DEF r
  <2> QED  BY <1>1, <1>2, <2>1 DEF Range
<1> QED  BY <1>1, <1>4, <1>5, <1>6

\* A shorter history holds nothing else.
LEMMA PrefixRange ==
  ASSUME NEW S, NEW q \in Seq(S), NEW n \in 0..Len(q)
  PROVE  SubSeq(q, 1, n) \in Seq(S) /\ Range(SubSeq(q, 1, n)) \subseteq Range(q)
<1> DEFINE r == SubSeq(q, 1, n)
<1>1. r \in Seq(S) /\ Len(r) = n /\ \A i \in 1..n : r[i] = q[i]
  OBVIOUS
<1> QED  BY <1>1 DEF Range

\* History and Kept are sequences of attempts; Kept is a part of History.
LEMMA HistoryTypes ==
  ASSUME CopyAssumption, TypeOK, NEW s \in Sessions
  PROVE  /\ History(s) \in Seq(OperationIds) /\ Kept(s) \in Seq(OperationIds)
         /\ Range(Kept(s)) \subseteq Range(History(s))
         /\ Range(History(s)) \subseteq OperationIds
         /\ current[s] # None => current[s] \in Range(History(s))
<1>1. previous[s] \in Seq(OperationIds) /\ current[s] \in OperationIds \union {None}
  BY DEF TypeOK
<1>2. History(s) \in Seq(OperationIds) /\ (current[s] # None => current[s] \in Range(History(s)))
  <2>1. CASE current[s] = None
    <3>1. <<>> \o previous[s] = previous[s]
      BY <1>1
    <3> QED  BY <1>1, <2>1, <3>1 DEF History
  <2>2. CASE current[s] # None
    <3>1. History(s) = <<current[s]>> \o previous[s]
      BY <2>2 DEF History
    <3> QED  BY <1>1, <2>2, <3>1, PrependRange
  <2> QED  BY <2>1, <2>2
<1>3. Range(History(s)) \subseteq OperationIds
  BY <1>2 DEF Range
<1>4. Kept(s) \in Seq(OperationIds) /\ Range(Kept(s)) \subseteq Range(History(s))
  <2> DEFINE n == IF Len(History(s)) > HistoryCapacity THEN HistoryCapacity ELSE Len(History(s))
  <2>1. n \in 0..Len(History(s))
    BY <1>2 DEF CopyAssumption
  <2> QED  BY <1>2, <2>1, PrefixRange DEF Kept
<1> QED  BY <1>2, <1>3, <1>4

-----------------------------------------------------------------------------
(* What the parts say together *)

\* An operation with a thread is an entry of a session whose current attempt it is.
LEMMA ThreadEntry ==
  ASSUME CopyAssumption, CopyInvariant, NEW o \in OperationIds, pc[o] # "none"
  PROVE  /\ request[o] \in Requests
         /\ current[request[o].session] = o
         /\ state[o] \notin Terminal \union {"absent"}
BY DEF CopyAssumption, CopyInvariant, TypeOK, ThreadsRegistered, ThreadsAgree

\* The two invariants of the runs follow from the parts that are inductive.
LEMMA OutcomesFollow ==
  ASSUME TypeOK', ThreadsAgree', WrittenCompletes',
         \A o \in OperationIds : state'[o] = "Complete" => o \in written'
  PROVE  CancelHonoured' /\ OutcomeMatchesClipboard'
BY DEF TypeOK, ThreadsAgree, WrittenCompletes, CancelHonoured, OutcomeMatchesClipboard,
       Terminal, States

\* The attempts of a session stay its attempts while no history changes.
LEMMA HistoryStays ==
  ASSUME HistoryOwned, UNCHANGED <<current, previous>>,
         \A s \in Sessions : Range(History(s)) \subseteq OperationIds,
         \A o \in OperationIds :
           /\ state[o] # "absent" => state'[o] # "absent"
           /\ request[o] # None =>
                request'[o] # None /\ request'[o].session = request[o].session
  PROVE  HistoryOwned'
<1>1. \A s \in Sessions : History(s)' = History(s)
  BY DEF History
<1> QED  BY <1>1 DEF HistoryOwned

\* A batch less, or none left: the rest of the request is the same.
LEMMA EditBatches ==
  ASSUME NEW o \in OperationIds, request \in [OperationIds -> Requests \union {None}],
         request[o] \in Requests, CopyAssumption, NEW n \in 0..MaxBatches,
         request' = [request EXCEPT ![o].batches = n]
  PROVE  /\ request' \in [OperationIds -> Requests \union {None}]
         /\ request'[o] # None /\ request'[o].batches = n
         /\ request'[o].session = request[o].session
         /\ request'[o].reader = request[o].reader
         /\ \A i \in OperationIds \ {o} : request'[i] = request[i]
<1>1. request'[o] = [session |-> request[o].session, reader |-> request[o].reader, batches |-> n]
  BY DEF Requests
<1>2. request'[o] \in Requests /\ request'[o] # None
  BY <1>1 DEF Requests, CopyAssumption
<1>3. \A i \in OperationIds \ {o} : request'[i] = request[i]
  OBVIOUS
<1>4. request' \in [OperationIds -> Requests \union {None}]
  BY <1>2, <1>3
<1> QED  BY <1>1, <1>2, <1>3, <1>4

-----------------------------------------------------------------------------
(* The steps of a thread *)

\* A copy that begins shows Running again, and its flag stays.
LEMMA BeginCopyCorrect ==
  ASSUME CopyAssumption, CopyInvariant, NEW o \in OperationIds, BeginCopy(o)
  PROVE  CopyInvariant'
<1> USE DEF BeginCopy, readers, registry, At, Goto
<1>1. /\ request[o] \in Requests /\ current[request[o].session] = o
      /\ state[o] \notin Terminal \union {"absent"}
  BY ThreadEntry
<1>2. TypeOK'
  BY <1>1
    DEF CopyInvariant, TypeOK, ThreadsAgree, CopyAssumption, States, ControlPoints,
        Terminal
<1>3. ThreadsRegistered'
  BY <1>1, <1>2 DEF CopyInvariant, TypeOK, ThreadsRegistered, ThreadsAgree, Terminal
<1>4. HistoryOwned'
  <2>1. \A s \in Sessions : Range(History(s)) \subseteq OperationIds
    BY HistoryTypes DEF CopyInvariant
  <2>2. \A i \in OperationIds :
          /\ state[i] # "absent" => state'[i] # "absent"
          /\ request[i] # None => request'[i] # None /\ request'[i].session = request[i].session
    BY <1>1, <1>2 DEF CopyInvariant, TypeOK, ThreadsAgree, CopyAssumption, Terminal
  <2> QED  BY <2>1, <2>2, HistoryStays DEF CopyInvariant
<1>5. ThreadsAgree'
  BY <1>1, <1>2
    DEF CopyInvariant, TypeOK, ThreadsAgree, CopyAssumption, WrittenCompletes,
        OutcomeMatchesClipboard, Terminal, Requests
<1>6. WrittenCompletes'
  BY <1>1, <1>2
    DEF CopyInvariant, TypeOK, ThreadsAgree, CopyAssumption, WrittenCompletes, Terminal
<1>7. DroppedCancelled'
  BY <1>1, <1>2 DEF CopyInvariant, TypeOK, ThreadsAgree, DroppedCancelled
<1>8. \A i \in OperationIds : state'[i] = "Complete" => i \in written'
  BY <1>1, <1>2
    DEF CopyInvariant, TypeOK, ThreadsAgree, OutcomeMatchesClipboard, Terminal
<1> QED  BY <1>2, <1>3, <1>4, <1>5, <1>6, <1>7, <1>8, OutcomesFollow DEF CopyInvariant

\* A copy that sees its flag returns the gate with its outcome.
LEMMA SeeCancelCorrect ==
  ASSUME CopyAssumption, CopyInvariant, NEW o \in OperationIds, SeeCancel(o)
  PROVE  CopyInvariant'
<1> USE DEF SeeCancel, Returns, readers, registry, At, Goto
<1>1. /\ request[o] \in Requests /\ current[request[o].session] = o
      /\ state[o] \notin Terminal \union {"absent"}
  BY ThreadEntry
<1>2. TypeOK'
  BY <1>1
    DEF CopyInvariant, TypeOK, ThreadsAgree, CopyAssumption, States, ControlPoints,
        Terminal
<1>3. ThreadsRegistered'
  BY <1>1, <1>2 DEF CopyInvariant, TypeOK, ThreadsRegistered, ThreadsAgree, Terminal
<1>4. HistoryOwned'
  <2>1. \A s \in Sessions : Range(History(s)) \subseteq OperationIds
    BY HistoryTypes DEF CopyInvariant
  <2>2. \A i \in OperationIds :
          /\ state[i] # "absent" => state'[i] # "absent"
          /\ request[i] # None => request'[i] # None /\ request'[i].session = request[i].session
    BY <1>1, <1>2 DEF CopyInvariant, TypeOK, ThreadsAgree, CopyAssumption, Terminal
  <2> QED  BY <2>1, <2>2, HistoryStays DEF CopyInvariant
<1>5. ThreadsAgree'
  BY <1>1, <1>2
    DEF CopyInvariant, TypeOK, ThreadsAgree, CopyAssumption, WrittenCompletes,
        OutcomeMatchesClipboard, Terminal, Requests
<1>6. WrittenCompletes'
  BY <1>1, <1>2
    DEF CopyInvariant, TypeOK, ThreadsAgree, CopyAssumption, WrittenCompletes, Terminal
<1>7. DroppedCancelled'
  BY <1>1, <1>2 DEF CopyInvariant, TypeOK, ThreadsAgree, DroppedCancelled
<1>8. \A i \in OperationIds : state'[i] = "Complete" => i \in written'
  BY <1>1, <1>2
    DEF CopyInvariant, TypeOK, ThreadsAgree, OutcomeMatchesClipboard, Terminal
<1> QED  BY <1>2, <1>3, <1>4, <1>5, <1>6, <1>7, <1>8, OutcomesFollow DEF CopyInvariant

\* A batch leaves the entry as it was.
LEMMA ReadBatchCorrect ==
  ASSUME CopyAssumption, CopyInvariant, NEW o \in OperationIds, ReadBatch(o)
  PROVE  CopyInvariant'
<1> USE DEF ReadBatch, readers, registry, At, Goto
<1>1. /\ request[o] \in Requests /\ current[request[o].session] = o
      /\ state[o] \notin Terminal \union {"absent"}
  BY ThreadEntry
<1>batches. /\ request' \in [OperationIds -> Requests \union {None}]
      /\ request'[o] # None /\ request'[o].batches = request[o].batches - 1
      /\ request'[o].session = request[o].session
      /\ request'[o].reader = request[o].reader
      /\ \A i \in OperationIds \ {o} : request'[i] = request[i]
  <2>1. PICK n \in 0..MaxBatches : n = request[o].batches - 1
    BY <1>1 DEF CopyAssumption, CopyInvariant, ThreadsAgree, Requests
  <2>2. request' = [request EXCEPT ![o].batches = n]
    BY <2>1
  <2> HIDE DEF ReadBatch, readers, registry, At, Goto
  <2>3. /\ request' \in [OperationIds -> Requests \union {None}]
        /\ request'[o] # None /\ request'[o].batches = n
        /\ request'[o].session = request[o].session
        /\ request'[o].reader = request[o].reader
        /\ \A i \in OperationIds \ {o} : request'[i] = request[i]
    BY <1>1, <2>2, EditBatches DEF CopyInvariant, TypeOK
  <2> QED  BY <2>1, <2>3
<1>2. TypeOK'
  BY <1>batches
    DEF CopyInvariant, TypeOK, ThreadsAgree, CopyAssumption, States, ControlPoints,
        Terminal
<1>3. ThreadsRegistered'
  BY <1>1, <1>batches, <1>2
    DEF CopyInvariant, TypeOK, ThreadsRegistered, ThreadsAgree, Terminal
<1>4. HistoryOwned'
  <2>1. \A s \in Sessions : Range(History(s)) \subseteq OperationIds
    BY HistoryTypes DEF CopyInvariant
  <2>2. \A i \in OperationIds :
          /\ state[i] # "absent" => state'[i] # "absent"
          /\ request[i] # None => request'[i] # None /\ request'[i].session = request[i].session
    BY <1>1, <1>batches, <1>2
      DEF CopyInvariant, TypeOK, ThreadsAgree, CopyAssumption, Terminal
  <2> QED  BY <2>1, <2>2, HistoryStays DEF CopyInvariant
<1>5. ThreadsAgree'
  BY <1>1, <1>batches, <1>2
    DEF CopyInvariant, TypeOK, ThreadsAgree, CopyAssumption, WrittenCompletes,
        OutcomeMatchesClipboard, Terminal, Requests
<1>6. WrittenCompletes'
  BY <1>1, <1>2
    DEF CopyInvariant, TypeOK, ThreadsAgree, CopyAssumption, WrittenCompletes, Terminal
<1>7. DroppedCancelled'
  BY <1>1, <1>batches, <1>2 DEF CopyInvariant, TypeOK, ThreadsAgree, DroppedCancelled
<1>8. \A i \in OperationIds : state'[i] = "Complete" => i \in written'
  BY <1>1, <1>2
    DEF CopyInvariant, TypeOK, ThreadsAgree, OutcomeMatchesClipboard, Terminal
<1> QED  BY <1>2, <1>3, <1>4, <1>5, <1>6, <1>7, <1>8, OutcomesFollow DEF CopyInvariant

\* A copy that fails before the gate has written nothing.
LEMMA CopyFailsCorrect ==
  ASSUME CopyAssumption, CopyInvariant, NEW o \in OperationIds, CopyFails(o)
  PROVE  CopyInvariant'
<1> USE DEF CopyFails, Returns, readers, registry, At, Goto
<1>1. /\ request[o] \in Requests /\ current[request[o].session] = o
      /\ state[o] \notin Terminal \union {"absent"}
  BY ThreadEntry
<1>2. TypeOK'
  BY <1>1
    DEF CopyInvariant, TypeOK, ThreadsAgree, CopyAssumption, States, ControlPoints,
        Terminal
<1>3. ThreadsRegistered'
  BY <1>1, <1>2 DEF CopyInvariant, TypeOK, ThreadsRegistered, ThreadsAgree, Terminal
<1>4. HistoryOwned'
  <2>1. \A s \in Sessions : Range(History(s)) \subseteq OperationIds
    BY HistoryTypes DEF CopyInvariant
  <2>2. \A i \in OperationIds :
          /\ state[i] # "absent" => state'[i] # "absent"
          /\ request[i] # None => request'[i] # None /\ request'[i].session = request[i].session
    BY <1>1, <1>2 DEF CopyInvariant, TypeOK, ThreadsAgree, CopyAssumption, Terminal
  <2> QED  BY <2>1, <2>2, HistoryStays DEF CopyInvariant
<1>5. ThreadsAgree'
  BY <1>1, <1>2
    DEF CopyInvariant, TypeOK, ThreadsAgree, CopyAssumption, WrittenCompletes,
        OutcomeMatchesClipboard, Terminal, Requests
<1>6. WrittenCompletes'
  BY <1>1, <1>2
    DEF CopyInvariant, TypeOK, ThreadsAgree, CopyAssumption, WrittenCompletes, Terminal
<1>7. DroppedCancelled'
  BY <1>1, <1>2 DEF CopyInvariant, TypeOK, ThreadsAgree, DroppedCancelled
<1>8. \A i \in OperationIds : state'[i] = "Complete" => i \in written'
  BY <1>1, <1>2
    DEF CopyInvariant, TypeOK, ThreadsAgree, OutcomeMatchesClipboard, Terminal
<1> QED  BY <1>2, <1>3, <1>4, <1>5, <1>6, <1>7, <1>8, OutcomesFollow DEF CopyInvariant

\* The gate was free.
LEMMA TakeGateCorrect ==
  ASSUME CopyAssumption, CopyInvariant, NEW o \in OperationIds, TakeGate(o)
  PROVE  CopyInvariant'
<1> USE DEF TakeGate, readers, registry, At, Goto
<1>1. /\ request[o] \in Requests /\ current[request[o].session] = o
      /\ state[o] \notin Terminal \union {"absent"}
  BY ThreadEntry
<1>2. TypeOK'
  BY <1>1
    DEF CopyInvariant, TypeOK, ThreadsAgree, CopyAssumption, States, ControlPoints,
        Terminal
<1>3. ThreadsRegistered'
  BY <1>1, <1>2 DEF CopyInvariant, TypeOK, ThreadsRegistered, ThreadsAgree, Terminal
<1>4. HistoryOwned'
  <2>1. \A s \in Sessions : Range(History(s)) \subseteq OperationIds
    BY HistoryTypes DEF CopyInvariant
  <2>2. \A i \in OperationIds :
          /\ state[i] # "absent" => state'[i] # "absent"
          /\ request[i] # None => request'[i] # None /\ request'[i].session = request[i].session
    BY <1>1, <1>2 DEF CopyInvariant, TypeOK, ThreadsAgree, CopyAssumption, Terminal
  <2> QED  BY <2>1, <2>2, HistoryStays DEF CopyInvariant
<1>5. ThreadsAgree'
  BY <1>1, <1>2
    DEF CopyInvariant, TypeOK, ThreadsAgree, CopyAssumption, WrittenCompletes,
        OutcomeMatchesClipboard, Terminal, Requests
<1>6. WrittenCompletes'
  BY <1>1, <1>2
    DEF CopyInvariant, TypeOK, ThreadsAgree, CopyAssumption, WrittenCompletes, Terminal
<1>7. DroppedCancelled'
  BY <1>1, <1>2 DEF CopyInvariant, TypeOK, ThreadsAgree, DroppedCancelled
<1>8. \A i \in OperationIds : state'[i] = "Complete" => i \in written'
  BY <1>1, <1>2
    DEF CopyInvariant, TypeOK, ThreadsAgree, OutcomeMatchesClipboard, Terminal
<1> QED  BY <1>2, <1>3, <1>4, <1>5, <1>6, <1>7, <1>8, OutcomesFollow DEF CopyInvariant

\* What goes on to the clipboard is not cancelled.
LEMMA ValidateAndCommitCorrect ==
  ASSUME CopyAssumption, CopyInvariant, NEW o \in OperationIds, ValidateAndCommit(o)
  PROVE  CopyInvariant'
<1> USE DEF ValidateAndCommit, Returns, readers, registry, At, Goto
<1>1. /\ request[o] \in Requests /\ current[request[o].session] = o
      /\ state[o] \notin Terminal \union {"absent"}
  BY ThreadEntry
<1>2. TypeOK'
  <2>1. CASE o \in stale
    BY <2>1
      DEF CopyInvariant, TypeOK, ThreadsAgree, CopyAssumption, States, ControlPoints,
          Terminal
  <2>2. CASE o \notin stale
    <3>1. pc' = [pc EXCEPT ![o] = "write"] /\ state' = [state EXCEPT ![o] = "Committing"]
      BY <2>2
    <3>2. /\ pc' \in [OperationIds -> ControlPoints]
          /\ state' \in [OperationIds -> States]
      BY <3>1 DEF CopyInvariant, TypeOK, States, ControlPoints
    <3> QED  BY <2>2, <3>2 DEF CopyInvariant, TypeOK
  <2> QED  BY <2>1, <2>2
<1>3. ThreadsRegistered'
  BY <1>1, <1>2 DEF CopyInvariant, TypeOK, ThreadsRegistered, ThreadsAgree, Terminal
<1>4. HistoryOwned'
  <2>1. \A s \in Sessions : Range(History(s)) \subseteq OperationIds
    BY HistoryTypes DEF CopyInvariant
  <2>2. \A i \in OperationIds :
          /\ state[i] # "absent" => state'[i] # "absent"
          /\ request[i] # None => request'[i] # None /\ request'[i].session = request[i].session
    BY <1>1, <1>2 DEF CopyInvariant, TypeOK, ThreadsAgree, CopyAssumption, Terminal
  <2> QED  BY <2>1, <2>2, HistoryStays DEF CopyInvariant
<1>5. ThreadsAgree'
  BY <1>1, <1>2
    DEF CopyInvariant, TypeOK, ThreadsAgree, CopyAssumption, WrittenCompletes,
        OutcomeMatchesClipboard, Terminal, Requests
<1>6. WrittenCompletes'
  BY <1>1, <1>2
    DEF CopyInvariant, TypeOK, ThreadsAgree, CopyAssumption, WrittenCompletes, Terminal
<1>7. DroppedCancelled'
  BY <1>1, <1>2 DEF CopyInvariant, TypeOK, ThreadsAgree, DroppedCancelled
<1>8. \A i \in OperationIds : state'[i] = "Complete" => i \in written'
  BY <1>1, <1>2
    DEF CopyInvariant, TypeOK, ThreadsAgree, OutcomeMatchesClipboard, Terminal
<1> QED  BY <1>2, <1>3, <1>4, <1>5, <1>6, <1>7, <1>8, OutcomesFollow DEF CopyInvariant

\* The clipboard has the text exactly when the outcome is Complete.
LEMMA WriteClipboardCorrect ==
  ASSUME CopyAssumption, CopyInvariant, NEW o \in OperationIds, WriteClipboard(o)
  PROVE  CopyInvariant'
<1> USE DEF WriteClipboard, Returns, readers, registry, At, Goto
<1>1. /\ request[o] \in Requests /\ current[request[o].session] = o
      /\ state[o] \notin Terminal \union {"absent"}
  BY ThreadEntry
<1>2. TypeOK'
  BY <1>1
    DEF CopyInvariant, TypeOK, ThreadsAgree, CopyAssumption, States, ControlPoints,
        Terminal
<1>3. ThreadsRegistered'
  BY <1>1, <1>2 DEF CopyInvariant, TypeOK, ThreadsRegistered, ThreadsAgree, Terminal
<1>4. HistoryOwned'
  <2>1. \A s \in Sessions : Range(History(s)) \subseteq OperationIds
    BY HistoryTypes DEF CopyInvariant
  <2>2. \A i \in OperationIds :
          /\ state[i] # "absent" => state'[i] # "absent"
          /\ request[i] # None => request'[i] # None /\ request'[i].session = request[i].session
    BY <1>1, <1>2 DEF CopyInvariant, TypeOK, ThreadsAgree, CopyAssumption, Terminal
  <2> QED  BY <2>1, <2>2, HistoryStays DEF CopyInvariant
<1>5. ThreadsAgree'
  BY <1>1, <1>2
    DEF CopyInvariant, TypeOK, ThreadsAgree, CopyAssumption, WrittenCompletes,
        OutcomeMatchesClipboard, Terminal, Requests
<1>6. WrittenCompletes'
  BY <1>1, <1>2
    DEF CopyInvariant, TypeOK, ThreadsAgree, CopyAssumption, WrittenCompletes, Terminal
<1>7. DroppedCancelled'
  BY <1>1, <1>2 DEF CopyInvariant, TypeOK, ThreadsAgree, DroppedCancelled
<1>8. \A i \in OperationIds : state'[i] = "Complete" => i \in written'
  BY <1>1, <1>2
    DEF CopyInvariant, TypeOK, ThreadsAgree, OutcomeMatchesClipboard, Terminal
<1> QED  BY <1>2, <1>3, <1>4, <1>5, <1>6, <1>7, <1>8, OutcomesFollow DEF CopyInvariant

\* The outcome becomes the state of the entry.
LEMMA EndCopyCorrect ==
  ASSUME CopyAssumption, CopyInvariant, NEW o \in OperationIds, EndCopy(o)
  PROVE  CopyInvariant'
<1> USE DEF EndCopy, readers, registry, At, Goto
<1>1. /\ request[o] \in Requests /\ current[request[o].session] = o
      /\ state[o] \notin Terminal \union {"absent"}
  BY ThreadEntry
<1>batches. /\ request' \in [OperationIds -> Requests \union {None}]
      /\ request'[o] # None /\ request'[o].batches = 0
      /\ request'[o].session = request[o].session
      /\ request'[o].reader = request[o].reader
      /\ \A i \in OperationIds \ {o} : request'[i] = request[i]
  <2>1. 0 \in 0..MaxBatches
    BY <1>1 DEF CopyAssumption, CopyInvariant, ThreadsAgree, Requests
  <2>2. request' = [request EXCEPT ![o].batches = 0]
    OBVIOUS
  <2> HIDE DEF EndCopy, readers, registry, At, Goto
  <2> QED  BY <1>1, <2>1, <2>2, EditBatches DEF CopyInvariant, TypeOK
<1>2. TypeOK'
  BY <1>batches
    DEF CopyInvariant, TypeOK, ThreadsAgree, CopyAssumption, States, ControlPoints,
        Terminal
<1>3. ThreadsRegistered'
  BY <1>1, <1>batches, <1>2
    DEF CopyInvariant, TypeOK, ThreadsRegistered, ThreadsAgree, Terminal
<1>4. HistoryOwned'
  <2>1. \A s \in Sessions : Range(History(s)) \subseteq OperationIds
    BY HistoryTypes DEF CopyInvariant
  <2>2. \A i \in OperationIds :
          /\ state[i] # "absent" => state'[i] # "absent"
          /\ request[i] # None => request'[i] # None /\ request'[i].session = request[i].session
    BY <1>1, <1>batches, <1>2
      DEF CopyInvariant, TypeOK, ThreadsAgree, CopyAssumption, Terminal
  <2> QED  BY <2>1, <2>2, HistoryStays DEF CopyInvariant
<1>5. ThreadsAgree'
  BY <1>1, <1>batches, <1>2
    DEF CopyInvariant, TypeOK, ThreadsAgree, CopyAssumption, WrittenCompletes,
        OutcomeMatchesClipboard, Terminal, Requests
<1>6. WrittenCompletes'
  BY <1>1, <1>2
    DEF CopyInvariant, TypeOK, ThreadsAgree, CopyAssumption, WrittenCompletes, Terminal
<1>7. DroppedCancelled'
  BY <1>1, <1>batches, <1>2 DEF CopyInvariant, TypeOK, ThreadsAgree, DroppedCancelled
<1>8. \A i \in OperationIds : state'[i] = "Complete" => i \in written'
  BY <1>1, <1>2
    DEF CopyInvariant, TypeOK, ThreadsAgree, OutcomeMatchesClipboard, Terminal
<1> QED  BY <1>2, <1>3, <1>4, <1>5, <1>6, <1>7, <1>8, OutcomesFollow DEF CopyInvariant

-----------------------------------------------------------------------------
(* Cancellations, drops and replacements *)

\* Cancelling copies that have not begun to commit keeps everything but what the
\* command is about to drop.
LEMMA CancellingCorrect ==
  ASSUME CopyAssumption, CopyInvariant, NEW ops \in SUBSET OperationIds,
         Cancelling(ops), dropping' \in Drops \union {None}
  PROVE  /\ TypeOK' /\ ThreadsRegistered' /\ HistoryOwned' /\ ThreadsAgree'
         /\ WrittenCompletes' /\ OutcomeMatchesClipboard' /\ CancelHonoured'
         /\ \A o \in OperationIds : cancel[o] => cancel'[o]
         /\ \A o \in ops : state[o] \in {"Queued", "Running"} => cancel'[o]
<1> DEFINE hit == {o \in ops : state[o] \in {"Queued", "Running"}}
<1>1. /\ cancel' = [o \in OperationIds |-> cancel[o] \/ o \in hit]
      /\ state' = [o \in OperationIds |-> IF o \in hit THEN "Cancelling" ELSE state[o]]
      /\ UNCHANGED <<request, current, previous, pc, outcome, commit_gate, stale,
                     dropped, written, starts>>
  BY DEF Cancelling, CancelThese
<1>2. \A o \in OperationIds :
        \/ o \in hit /\ state[o] \in {"Queued", "Running"} /\ cancel'[o]
           /\ state'[o] = "Cancelling"
        \/ o \notin hit /\ state'[o] = state[o] /\ cancel'[o] = cancel[o]
  <2>1. \A o \in OperationIds : cancel[o] \in BOOLEAN
    BY DEF CopyInvariant, TypeOK
  <2>2. \A o \in hit : state[o] \in {"Queued", "Running"}
    OBVIOUS
  <2> HIDE DEF hit
  <2> QED  BY <1>1, <2>1, <2>2
<1>3. \A o \in ops : state[o] \in {"Queued", "Running"} => o \in hit
  OBVIOUS
<1> HIDE DEF hit
<1>4. TypeOK'
  <2>1. cancel' \in [OperationIds -> BOOLEAN]
    BY <1>1 DEF CopyInvariant, TypeOK
  <2>2. state' \in [OperationIds -> States]
    BY <1>1 DEF CopyInvariant, TypeOK, States
  <2> QED  BY <1>1, <2>1, <2>2 DEF CopyInvariant, TypeOK
<1>5. ThreadsRegistered'
  BY <1>1, <1>2 DEF CopyInvariant, ThreadsRegistered, Terminal
<1>6. HistoryOwned'
  <2>1. \A s \in Sessions : Range(History(s)) \subseteq OperationIds
    BY HistoryTypes DEF CopyInvariant
  <2> QED  BY <1>1, <1>2, <2>1, HistoryStays DEF CopyInvariant
<1>7. ThreadsAgree'
  BY <1>1, <1>2 DEF CopyInvariant, TypeOK, ThreadsAgree
<1>8. WrittenCompletes'
  BY <1>1, <1>2 DEF CopyInvariant, TypeOK, ThreadsAgree, WrittenCompletes
<1>9. \A o \in OperationIds : state'[o] = "Complete" => o \in written'
  BY <1>1, <1>2 DEF CopyInvariant, OutcomeMatchesClipboard
<1> QED  BY <1>2, <1>3, <1>4, <1>5, <1>6, <1>7, <1>8, <1>9, OutcomesFollow, <1>1
         DEF CopyInvariant, TypeOK

\* A cancellation of one copy or of all drops nothing.
LEMMA CancelCorrect ==
  ASSUME CopyAssumption, CopyInvariant,
         CancelAll \/ \E o \in OperationIds : Cancel(o)
  PROVE  CopyInvariant'
<1>1. PICK ops \in SUBSET OperationIds : Cancelling(ops) /\ UNCHANGED dropping
  BY DEF CancelAll, Cancel
<1>2. dropping' \in Drops \union {None}
  BY <1>1 DEF CopyInvariant, TypeOK
<1>3. /\ TypeOK' /\ ThreadsRegistered' /\ HistoryOwned' /\ ThreadsAgree'
      /\ WrittenCompletes' /\ OutcomeMatchesClipboard' /\ CancelHonoured'
      /\ \A o \in OperationIds : cancel[o] => cancel'[o]
  BY <1>1, <1>2, CancellingCorrect
<1>4. DroppedCancelled'
  BY <1>1, <1>3 DEF Cancelling, CopyInvariant, DroppedCancelled
<1> QED  BY <1>3, <1>4 DEF CopyInvariant

\* A close or a new query has the gate: no copy of what it drops is past its last
\* look at the flag, so every one that runs is cancelled.
LEMMA CancelSessionCorrect ==
  ASSUME CopyAssumption, CopyInvariant, NEW d \in Drops, CancelSession(d)
  PROVE  CopyInvariant'
<1>1. /\ Cancelling(CopiesOf(d)) /\ dropping' = d /\ dropping = None
      /\ CopiesOf(d) \in SUBSET OperationIds
      /\ commit_gate = None /\ UNCHANGED <<request, pc, dropped>>
  BY DEF CancelSession, CopiesOf, Cancelling
<1>2. /\ TypeOK' /\ ThreadsRegistered' /\ HistoryOwned' /\ ThreadsAgree'
      /\ WrittenCompletes' /\ OutcomeMatchesClipboard' /\ CancelHonoured'
      /\ \A o \in OperationIds : cancel[o] => cancel'[o]
      /\ \A o \in CopiesOf(d) : state[o] \in {"Queued", "Running"} => cancel'[o]
  BY <1>1, CancellingCorrect
<1>3. ASSUME NEW o \in OperationIds, request[o] # None, request[o].session = d.session,
             d.query_only => request[o].reader = "query"
      PROVE  cancel'[o] \/ pc[o] \in {"none", "finish"}
  <2>1. CASE pc[o] \in {"spawned", "read", "flush"}
    <3>1. state[o] \in {"Queued", "Running", "Cancelling"}
      BY <2>1 DEF CopyInvariant, ThreadsAgree
    <3>2. o \in CopiesOf(d)
      BY <1>3, <3>1 DEF CopiesOf
    <3>3. state[o] = "Cancelling" => cancel[o]
      BY DEF CopyInvariant, ThreadsAgree
    <3> QED  BY <1>2, <3>1, <3>2, <3>3
  <2>2. CASE pc[o] \in {"gated", "write"}
    BY <1>1, <2>2 DEF CopyInvariant, ThreadsAgree, CopyAssumption
  <2> QED  BY <2>1, <2>2 DEF CopyInvariant, TypeOK, ControlPoints
<1>4. DroppedCancelled'
  BY <1>1, <1>2, <1>3 DEF CopyInvariant, DroppedCancelled
<1> QED  BY <1>2, <1>4 DEF CopyInvariant

\* What goes with a session or a query was cancelled before.
LEMMA DropCorrect ==
  ASSUME CopyAssumption, CopyInvariant, Drop
  PROVE  CopyInvariant'
<1> DEFINE gone == Running(CopiesOf(dropping))
<1>1. /\ dropping # None /\ dropping' = None
      /\ stale' = stale \union gone /\ dropped' = dropped \union gone
      /\ UNCHANGED <<registry, request, pc, outcome, commit_gate, written, starts>>
  BY DEF Drop
<1>2. gone \subseteq OperationIds /\ \A o \in gone :
        /\ pc[o] \notin {"none", "finish"}
        /\ request[o].session = dropping.session
        /\ dropping.query_only => request[o].reader = "query"
  BY DEF Running, CopiesOf
<1>3. \A o \in gone : cancel[o]
  BY <1>1, <1>2 DEF CopyInvariant, ThreadsAgree, DroppedCancelled
<1> HIDE DEF gone
<1>4. TypeOK'
  BY <1>1, <1>2 DEF CopyInvariant, TypeOK, registry
<1>5. DroppedCancelled'
  BY <1>1, <1>2, <1>3 DEF CopyInvariant, DroppedCancelled, registry
<1>6. ThreadsAgree'
  BY <1>1, <1>2 DEF CopyInvariant, ThreadsAgree, registry
<1>7. HistoryOwned'
  BY <1>1 DEF CopyInvariant, HistoryOwned, History, registry
<1> QED  BY <1>1, <1>4, <1>5, <1>6, <1>7
         DEF CopyInvariant, ThreadsRegistered, WrittenCompletes, OutcomeMatchesClipboard,
             CancelHonoured, registry

\* A source that is replaced leaves its copies as they are.
LEMMA ReplaceCorrect ==
  ASSUME CopyAssumption, CopyInvariant, NEW s \in Sessions, Replace(s)
  PROVE  CopyInvariant'
<1> DEFINE gone == Running(CopiesOf([session |-> s, query_only |-> FALSE]))
<1>1. /\ stale' = stale \union gone /\ gone \subseteq OperationIds
      /\ UNCHANGED <<registry, request, pc, outcome, commit_gate, dropped, dropping,
                     written, starts>>
  BY DEF Replace, Running, CopiesOf
<1> HIDE DEF gone
<1>2. TypeOK'
  BY <1>1 DEF CopyInvariant, TypeOK, registry
<1>3. HistoryOwned'
  BY <1>1 DEF CopyInvariant, HistoryOwned, History, registry
<1> QED  BY <1>1, <1>2, <1>3
         DEF CopyInvariant, ThreadsRegistered, ThreadsAgree, WrittenCompletes,
             DroppedCancelled, OutcomeMatchesClipboard, CancelHonoured, registry

-----------------------------------------------------------------------------
(* A new copy *)

\* Every attempt of the history of a session without an active copy is over.
LEMMA HistoryIsOver ==
  ASSUME CopyAssumption, CopyInvariant, NEW s \in Sessions, ~ActiveIn(s),
         NEW o \in Range(History(s))
  PROVE  pc[o] = "none" /\ state[o] # "absent" /\ request[o] # None
         /\ request[o].session = s
<1>1. o \in OperationIds
  BY HistoryTypes DEF CopyInvariant
<1>2. state[o] # "absent" /\ request[o] # None /\ request[o].session = s
  BY DEF CopyInvariant, HistoryOwned
<1>3. ASSUME pc[o] # "none"  PROVE FALSE
  <2>1. current[s] = o /\ state[o] \notin Terminal \union {"absent"}
    BY <1>1, <1>2, <1>3, ThreadEntry
  <2> QED  BY <1>1, <2>1 DEF ActiveIn, CopyAssumption
<1> QED  BY <1>2, <1>3

\* Ids that leave the history have no thread, and neither has the id that is used.
LEMMA StartCorrect ==
  ASSUME CopyAssumption, CopyInvariant, NEW o \in OperationIds, NEW r \in Requests,
         NEW withinLimit \in BOOLEAN, Start(o, r, withinLimit)
  PROVE  CopyInvariant'
<1>0. PICK s \in Sessions : s = r.session
  BY DEF Requests
<1>1. PICK gone \in SUBSET OperationIds, kept \in Seq(OperationIds) :
        /\ gone = Expired(s) /\ kept = Kept(s)
        /\ Range(kept) \intersect gone = {}
        /\ Range(kept) \union gone \subseteq Range(History(s))
  <2>1. Kept(s) \in Seq(OperationIds) /\ Range(Kept(s)) \subseteq Range(History(s))
        /\ Range(History(s)) \subseteq OperationIds
    BY HistoryTypes DEF CopyInvariant
  <2>2. /\ Expired(s) \in SUBSET OperationIds
        /\ Range(Kept(s)) \intersect Expired(s) = {}
        /\ Range(Kept(s)) \union Expired(s) \subseteq Range(History(s))
    BY <2>1 DEF Expired
  <2> QED  BY <2>1, <2>2, Zenon
<1>2. /\ state[o] = "absent" /\ ~ActiveIn(s) /\ dropping = None
      /\ starts < MaxStarts /\ starts' = starts + 1 /\ r.batches >= 1
      /\ current' = [current EXCEPT ![s] = o]
      /\ previous' = [previous EXCEPT ![s] = kept]
      /\ state' = [i \in OperationIds |->
           IF i = o THEN IF withinLimit THEN "Queued" ELSE "Failed"
           ELSE IF i \in gone THEN "absent" ELSE state[i]]
      /\ request' = [i \in OperationIds |->
           IF i = o THEN r ELSE IF i \in gone THEN None ELSE request[i]]
      /\ cancel' = [i \in OperationIds |-> cancel[i] /\ i \notin gone \union {o}]
      /\ outcome' = [i \in OperationIds |->
           IF i \in gone \union {o} THEN None ELSE outcome[i]]
      /\ pc' = [pc EXCEPT ![o] = IF withinLimit THEN "spawned" ELSE "none"]
      /\ written' = written \ (gone \union {o})
      /\ UNCHANGED <<commit_gate, readers>>
  BY <1>0, <1>1 DEF Start
<1>3. /\ pc[o] = "none" /\ outcome[o] = None /\ o \notin dropped /\ commit_gate # o
      /\ r # None /\ r.session = s /\ r.batches # 0
  <2>1. pc[o] = "none"
    BY <1>2, ThreadEntry
  <2>2. outcome[o] = None /\ o \notin dropped /\ commit_gate # o
    BY <2>1 DEF CopyInvariant, ThreadsAgree
  <2>3. r # None /\ r.session = s /\ r.batches # 0
    BY <1>0, <1>2 DEF CopyAssumption
  <2> QED  BY <2>1, <2>2, <2>3
<1>4. \A i \in Range(kept) \union gone :
        pc[i] = "none" /\ state[i] # "absent" /\ request[i] # None
        /\ request[i].session = s /\ i # o
  BY <1>1, <1>2, HistoryIsOver
<1>5. \A i \in OperationIds \ (gone \union {o}) :
        /\ state'[i] = state[i] /\ request'[i] = request[i] /\ outcome'[i] = outcome[i]
        /\ pc'[i] = pc[i] /\ (cancel'[i] <=> cancel[i])
        /\ (i \in written' <=> i \in written)
  BY <1>2 DEF CopyInvariant, TypeOK
<1>6. \A i \in gone :
        /\ state'[i] = "absent" /\ request'[i] = None /\ outcome'[i] = None
        /\ pc'[i] = "none" /\ ~cancel'[i] /\ i \notin written'
  BY <1>2, <1>4 DEF CopyInvariant, TypeOK
<1>7. /\ state'[o] = IF withinLimit THEN "Queued" ELSE "Failed"
      /\ pc'[o] = IF withinLimit THEN "spawned" ELSE "none"
      /\ request'[o] = r /\ outcome'[o] = None /\ ~cancel'[o] /\ o \notin written'
  BY <1>2 DEF CopyInvariant, TypeOK
<1>8. /\ current' \in [Sessions -> OperationIds \union {None}]
      /\ previous' \in [Sessions -> Seq(OperationIds)]
      /\ current'[s] = o /\ previous'[s] = kept
      /\ \A t \in Sessions \ {s} : current'[t] = current[t] /\ previous'[t] = previous[t]
  BY <1>2 DEF CopyInvariant, TypeOK
<1>9. UNCHANGED <<commit_gate, stale, dropped, dropping>>
  BY <1>2 DEF readers
<1>10. TypeOK'
  <2>1. state' \in [OperationIds -> States]
    BY <1>2 DEF CopyInvariant, TypeOK, States, Terminal
  <2>2. request' \in [OperationIds -> Requests \union {None}]
    BY <1>2 DEF CopyInvariant, TypeOK
  <2>3. cancel' \in [OperationIds -> BOOLEAN]
    BY <1>2 DEF CopyInvariant, TypeOK
  <2>4. outcome' \in [OperationIds -> Terminal \union {None}]
    BY <1>2 DEF CopyInvariant, TypeOK
  <2>5. pc' \in [OperationIds -> ControlPoints]
    BY <1>2 DEF CopyInvariant, TypeOK, ControlPoints
  <2>6. written' \in SUBSET OperationIds /\ starts' \in 0..MaxStarts
    BY <1>2 DEF CopyInvariant, TypeOK, CopyAssumption
  <2> QED  BY <1>8, <1>9, <2>1, <2>2, <2>3, <2>4, <2>5, <2>6 DEF CopyInvariant, TypeOK
<1>11. ThreadsRegistered'
  <2> SUFFICES ASSUME NEW i \in OperationIds, pc'[i] # "none"
               PROVE  state'[i] \notin Terminal \union {"absent"}
                      /\ current'[request'[i].session] = i
    BY DEF ThreadsRegistered
  <2>1. CASE i = o
    BY <1>3, <1>7, <1>8, <2>1 DEF Terminal
  <2>2. CASE i # o
    <3>1. i \notin gone /\ pc[i] # "none"
      BY <1>5, <1>6, <2>2
    <3>2. /\ request[i] \in Requests /\ current[request[i].session] = i
          /\ state[i] \notin Terminal \union {"absent"}
      BY <3>1, ThreadEntry
    <3>3. request[i].session \in Sessions /\ request[i].session # s
      BY <1>2, <3>2 DEF Requests, ActiveIn, CopyAssumption
    <3> QED  BY <1>5, <1>8, <2>2, <3>1, <3>2, <3>3
  <2> QED  BY <2>1, <2>2
<1>12. HistoryOwned'
  <2> SUFFICES ASSUME NEW t \in Sessions, NEW i \in Range(History(t)')
               PROVE  state'[i] # "absent" /\ request'[i] # None
                      /\ request'[i].session = t
    BY DEF HistoryOwned
  <2>1. CASE t = s
    <3>1. History(s)' = <<o>> \o kept
      BY <1>8 DEF History, CopyAssumption
    <3>2. Range(History(s)') = {o} \union Range(kept)
      BY <3>1, PrependRange
    <3>3. i = o \/ (i \in Range(kept) /\ i \notin gone /\ i # o /\ i \in OperationIds)
      BY <1>1, <1>4, <2>1, <3>2, HistoryTypes DEF CopyInvariant
    <3>4. CASE i = o
      BY <1>3, <1>7, <2>1, <3>4
    <3>5. CASE i # o
      BY <1>4, <1>5, <2>1, <3>3, <3>5
    <3> QED  BY <3>4, <3>5
  <2>2. CASE t # s
    <3>1. History(t)' = History(t)
      BY <1>8, <2>2 DEF History
    <3>2. /\ i \in OperationIds /\ state[i] # "absent"
          /\ request[i] # None /\ request[i].session = t
      BY <3>1, HistoryTypes DEF CopyInvariant, HistoryOwned
    <3>3. i \notin gone /\ i # o
      BY <1>2, <1>4, <2>2, <3>2
    <3> QED  BY <1>5, <3>2, <3>3
  <2> QED  BY <2>1, <2>2
<1>13. ThreadsAgree'
  <2> SUFFICES ASSUME NEW i \in OperationIds
               PROVE  /\ pc'[i] \in {"gated", "write"} <=> commit_gate' = i
                      /\ pc'[i] \in {"spawned", "read", "flush", "gated"} =>
                           /\ state'[i] \in {"Queued", "Running", "Cancelling"}
                           /\ outcome'[i] = None
                      /\ pc'[i] = "write" =>
                           state'[i] = "Committing" /\ ~cancel'[i] /\ outcome'[i] = None
                      /\ pc'[i] = "finish" => outcome'[i] \in Terminal
                      /\ pc'[i] = "none" => outcome'[i] = None /\ i \notin dropped'
                      /\ outcome'[i] = "Complete" =>
                           state'[i] = "Committing" /\ i \in written'
                      /\ state'[i] = "Committing" =>
                           ~cancel'[i] /\ pc'[i] \in {"write", "finish"}
                      /\ state'[i] = "Cancelling" => cancel'[i]
                      /\ pc'[i] # "none" => request'[i] # None
                      /\ pc'[i] \in {"spawned", "read"} => request'[i].batches # 0
    BY DEF ThreadsAgree
  <2>1. CASE i = o
    BY <1>3, <1>7, <1>9, <2>1 DEF CopyAssumption, Terminal
  <2>2. CASE i \in gone
    BY <1>4, <1>6, <1>9, <2>2 DEF CopyInvariant, ThreadsAgree, CopyAssumption, Terminal
  <2>3. CASE i \notin gone \union {o}
    BY <1>5, <1>9, <2>3 DEF CopyInvariant, ThreadsAgree
  <2> QED  BY <2>1, <2>2, <2>3
<1>14. WrittenCompletes'
  BY <1>5, <1>6, <1>7, <1>10 DEF CopyInvariant, WrittenCompletes, TypeOK
<1>15. DroppedCancelled'
  <2>1. \A i \in dropped : i # o /\ i \in OperationIds
    BY <1>3 DEF CopyInvariant, TypeOK
  <2> QED  BY <1>2, <1>5, <1>6, <1>9, <2>1 DEF CopyInvariant, DroppedCancelled
<1>16. \A i \in OperationIds : state'[i] = "Complete" => i \in written'
  BY <1>5, <1>6, <1>7 DEF CopyInvariant, OutcomeMatchesClipboard
<1> QED  BY <1>10, <1>11, <1>12, <1>13, <1>14, <1>15, <1>16, OutcomesFollow
         DEF CopyInvariant

-----------------------------------------------------------------------------
(* The theorems *)

\* Nothing is copied yet.
LEMMA InitCorrect == CopyAssumption /\ Init => CopyInvariant
<1> SUFFICES ASSUME CopyAssumption, Init  PROVE CopyInvariant
  OBVIOUS
<1>1. TypeOK
  BY DEF Init, TypeOK, States, ControlPoints, CopyAssumption
<1>2. \A s \in Sessions : History(s) = <<>>
  <2>1. \A s \in Sessions : History(s) = <<>> \o <<>>
    BY DEF Init, History
  <2> QED  BY <2>1
<1>3. HistoryOwned
  BY <1>2 DEF HistoryOwned, Range
<1> QED  BY <1>1, <1>3
         DEF CopyInvariant, Init, ThreadsRegistered, ThreadsAgree, WrittenCompletes,
             DroppedCancelled, OutcomeMatchesClipboard, CancelHonoured, CopyAssumption,
             Terminal

\* Every step of a copy, a command or a replacement keeps the invariant.
LEMMA NextCorrect ==
  ASSUME CopyAssumption, CopyInvariant, [Next]_vars  PROVE CopyInvariant'
<1>1. CASE Next
  <2>1. CASE \E o \in OperationIds : Step(o) \/ CopyFails(o)
    BY <2>1, BeginCopyCorrect, SeeCancelCorrect, ReadBatchCorrect, TakeGateCorrect,
       ValidateAndCommitCorrect, WriteClipboardCorrect, EndCopyCorrect, CopyFailsCorrect
       DEF Step
  <2>2. CASE CancelAll \/ \E o \in OperationIds : Cancel(o)
    BY <2>2, CancelCorrect
  <2>3. CASE \E o \in OperationIds, r \in Requests, withinLimit \in BOOLEAN :
               Start(o, r, withinLimit)
    BY <2>3, StartCorrect
  <2>4. CASE Drop \/ (\E d \in Drops : CancelSession(d)) \/ \E s \in Sessions : Replace(s)
    BY <2>4, DropCorrect, CancelSessionCorrect, ReplaceCorrect
  <2> QED  BY <1>1, <2>1, <2>2, <2>3, <2>4 DEF Next
<1>2. CASE UNCHANGED vars
  <2>1. HistoryOwned'
    BY <1>2 DEF vars, CopyInvariant, HistoryOwned, History
  <2> QED  BY <1>2, <2>1
           DEF vars, CopyInvariant, TypeOK, ThreadsRegistered, ThreadsAgree,
               WrittenCompletes, DroppedCancelled, OutcomeMatchesClipboard, CancelHonoured
<1> QED  BY <1>1, <1>2

\* The entries, the threads, the gate and the clipboard of the copy manager agree in
\* every state, for any number of operations and sessions and any history.
THEOREM CopiesAgree == Spec => []CopyInvariant
<1>1. Init => CopyInvariant
  BY CopyAssumption, InitCorrect
<1>2. CopyInvariant /\ [Next]_vars => CopyInvariant'
  BY CopyAssumption, NextCorrect
<1> QED  BY <1>1, <1>2, PTL DEF Spec

\* Every variable keeps its type, and the history keeps at most the current and the previous
\* attempt of a session.
THEOREM CopiesTyped == Spec => []TypeOK
<1>1. CopyInvariant => TypeOK
  BY DEF CopyInvariant
<1> QED  BY <1>1, CopiesAgree, PTL

\* A copy that cancel, cancel_session or cancel_all has marked never reaches the
\* clipboard, wherever its thread is when the flag is set.
THEOREM CancelHonouredAlways == Spec => []CancelHonoured
<1>1. CopyInvariant => CancelHonoured
  BY DEF CopyInvariant
<1> QED  BY <1>1, CopiesAgree, PTL

\* The terminal state of run_copy tells whether the clipboard has the text.
THEOREM OutcomeMatchesClipboardAlways == Spec => []OutcomeMatchesClipboard
<1>1. CopyInvariant => OutcomeMatchesClipboard
  BY DEF CopyInvariant
<1> QED  BY <1>1, CopiesAgree, PTL

\* close and execute_query cancel under the gate before they drop: no copy of what
\* they dropped writes the clipboard afterwards.
THEOREM DroppedNeverWrittenAlways == Spec => DroppedNeverWritten
<1>1. CopyInvariant /\ [Next]_vars => [dropped \intersect written' \subseteq written]_vars
  <2> SUFFICES ASSUME CopyInvariant, Next, NEW o \in dropped, o \in written'
               PROVE  o \in written
    OBVIOUS
  <2>1. o \in OperationIds
    BY DEF CopyInvariant, TypeOK
  <2>2. ASSUME WriteClipboard(o)  PROVE FALSE
    BY <2>1, <2>2 DEF WriteClipboard, At, CopyInvariant, DroppedCancelled, ThreadsAgree
  <2>3. written' \subseteq written \/ \E i \in OperationIds :
          WriteClipboard(i) /\ written' \subseteq written \union {i}
    <3>1. ASSUME NEW i \in OperationIds, Step(i) \/ CopyFails(i) \/ Cancel(i)
          PROVE  \/ written' \subseteq written
                 \/ WriteClipboard(i) /\ written' \subseteq written \union {i}
      BY <3>1 DEF Step, CopyFails, Cancel, Cancelling, BeginCopy, SeeCancel, ReadBatch,
                  TakeGate, ValidateAndCommit, WriteClipboard, EndCopy
    <3>2. ASSUME NEW i \in OperationIds, NEW r \in Requests, NEW withinLimit \in BOOLEAN,
                 Start(i, r, withinLimit)
          PROVE  written' \subseteq written
      BY <3>2 DEF Start
    <3>3. ASSUME \/ Drop \/ CancelAll \/ \E d \in Drops : CancelSession(d)
                 \/ \E s \in Sessions : Replace(s)
          PROVE  written' \subseteq written
      BY <3>3 DEF Drop, CancelAll, CancelSession, Cancelling, Replace
    <3> QED  BY <3>1, <3>2, <3>3 DEF Next
  <2> QED  BY <2>1, <2>2, <2>3
<1> QED  BY <1>1, CopiesAgree, PTL DEF Spec, DroppedNeverWritten

===============================================================================
