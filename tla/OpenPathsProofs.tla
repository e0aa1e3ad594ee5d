----------------------------- MODULE OpenPathsProofs ---------------------------
(***************************************************************************)
(* Concurrent batches: their reservations, the permits of their workers,   *)
(* the lists of request ids and the types, for any batches, paths, limits  *)
(* and any order of the paths in them.                                     *)
(***************************************************************************)
EXTENDS OpenPaths, FiniteSetTheorems, SequenceTheorems, WellFoundedInduction, TLAPS

-----------------------------------------------------------------------------
(* Items and their reservations *)

\* A path named by a batch is a path.
LEMMA RequestedPaths ==
  ASSUME NEW b \in Batches, NEW i \in 1..Len(Request[b]), Request[b][i] # BadPath
  PROVE  Request[b][i] \in Paths
<1>1. Request[b] \in Seq(Nat)
  BY RequestAssumption
<1>2. Request[b][i] \in Range(Request[b])
  BY <1>1 DEF Range
<1>3. Request[b][i] \in UNION {Range(Request[c]) : c \in Batches}
  BY <1>2, Zenon
<1>4. QED
  BY <1>3, Zenon DEF Paths

\* A step that leaves the reservations and the unsettled items alone.
LEMMA SameItems ==
  ASSUME BatchTypes, ItemsHold, UNCHANGED reservations,
         \A b \in Batches :
           /\ Unsettled(b)' = Unsettled(b)
           /\ \A i \in Unsettled(b) : plans'[b][i] = plans[b][i]
  PROVE  ItemsHold'
<1>1. Reserved' = Reserved
  BY DEF Reserved
<1>2. QED
  BY <1>1 DEF ItemsHold

\* What appending to the plans or the outcomes of a batch does.
LEMMA Appended ==
  ASSUME NEW S, NEW q \in Seq(S), NEW x \in S
  PROVE  /\ Append(q, x) \in Seq(S) /\ Len(Append(q, x)) = Len(q) + 1
         /\ DOMAIN Append(q, x) = DOMAIN q \union {Len(q) + 1}
         /\ Append(q, x)[Len(q) + 1] = x
         /\ \A i \in DOMAIN q : Append(q, x)[i] = q[i]
         /\ Len(q) \in Nat /\ DOMAIN q = 1..Len(q)
OBVIOUS

\* A plan that reserves nothing is added.
LEMMA PlanAdded ==
  ASSUME BatchInvariant, NEW b \in Batches, pc[b] = "reserving",
         NEW plan \in Plans, plan.kind # "Reserved", Plan(b, plan),
         UNCHANGED <<registry, pc, outcomes>>
  PROVE  BatchInvariant'
<1>1. /\ plans' \in [Batches -> Seq(Plans)]
      /\ plans'[b] = Append(plans[b], plan)
      /\ \A c \in Batches : c # b => plans'[c] = plans[c]
  BY DEF BatchInvariant, BatchTypes, Plan
<1>2. plans[b] \in Seq(Plans)
  BY DEF BatchInvariant, BatchTypes
<1>3. BatchTypes'
  BY <1>1 DEF BatchInvariant, BatchTypes, registry
<1>4. PhasesOrdered'
  BY <1>1 DEF BatchInvariant, PhasesOrdered, SettlingPhases
<1>5. \A c \in Batches : /\ Unsettled(c)' = Unsettled(c)
                         /\ \A i \in Unsettled(c) : plans'[c][i] = plans[c][i]
  <2>1. /\ Unsettled(b)' = Unsettled(b)
        /\ \A i \in Unsettled(b) : plans'[b][i] = plans[b][i]
    BY <1>1, <1>2, Appended DEF Unsettled
  <2>2. QED
    BY <1>1, <2>1 DEF Unsettled
<1>6. ItemsHold'
  BY <1>5, SameItems DEF BatchInvariant, registry
<1>7. QED
  BY <1>3, <1>4, <1>6 DEF BatchInvariant

\* A step that leaves plans, outcomes and reservations alone.
LEMMA PhaseStep ==
  ASSUME BatchInvariant, UNCHANGED <<plans, outcomes, reservations, next_document_id>>,
         paths' \in [Paths -> Nat],
         pc' \in [Batches -> Phases],
         \A b \in Batches :
           /\ pc'[b] \notin SettlingPhases \union {"done"} => outcomes[b] = <<>>
           /\ pc'[b] \in SettlingPhases => Len(plans[b]) = Len(Request[b])
           /\ pc'[b] = "done" => /\ Len(plans[b]) = Len(Request[b])
                                 /\ Len(outcomes[b]) >= Len(plans[b])
  PROVE  BatchInvariant'
<1>1. BatchTypes' /\ PhasesOrdered'
  BY DEF BatchInvariant, BatchTypes, PhasesOrdered, SettlingPhases
<1>2. ItemsHold'
  BY SameItems DEF BatchInvariant, Unsettled
<1>3. QED
  BY <1>1, <1>2 DEF BatchInvariant

\* reserve_path gives a free path to the item that asked.
LEMMA PathReserved ==
  ASSUME BatchInvariant, NEW b \in Batches, ReservePath(b),
         next_document_id' = next_document_id + 1
  PROVE  BatchInvariant'
<1> DEFINE k == NextItem(b)
           p == Request[b][k]
           plan == [kind |-> "Reserved", document |-> next_document_id, first_index |-> 0]
<1>1. /\ next_document_id \in Nat \ {0} /\ reservations \in [Paths -> Nat]
      /\ plans[b] \in Seq(Plans) /\ outcomes[b] \in Seq(Outcomes)
  BY DEF BatchInvariant, BatchTypes
<1>2. /\ k \in 1..Len(Request[b]) /\ p # BadPath /\ pc[b] = "reserving"
      /\ reservations[p] = None
      /\ reservations' = [reservations EXCEPT ![p] = next_document_id]
      /\ plans' = [plans EXCEPT ![b] = Append(@, plan)]
      /\ UNCHANGED <<paths, pc, outcomes>>
  BY <1>1, RequestAssumption DEF ReservePath, registry, Plan, NextItem
<1>3. p \in Paths
  BY <1>2, RequestedPaths
<1>4. plan \in Plans
  BY <1>1 DEF Plans
<1>5. k = Len(plans[b]) + 1 /\ plan.kind = "Reserved" /\ plan.document = next_document_id
  BY DEF NextItem
<1> HIDE DEF p, plan, k
<1>6. /\ plans' \in [Batches -> Seq(Plans)] /\ plans'[b] = Append(plans[b], plan)
      /\ \A c \in Batches : c # b => plans'[c] = plans[c]
  BY <1>2, <1>4 DEF BatchInvariant, BatchTypes
<1>7. /\ reservations' \in [Paths -> Nat] /\ reservations'[p] = next_document_id
      /\ \A q \in Paths : q # p => reservations'[q] = reservations[q]
      /\ Reserved' = Reserved \union {p} /\ p \notin Reserved
  BY <1>1, <1>2, <1>3 DEF Reserved, None
<1>8. BatchTypes'
  BY <1>1, <1>2, <1>6, <1>7 DEF BatchInvariant, BatchTypes
<1>9. PhasesOrdered'
  BY <1>2, <1>6 DEF BatchInvariant, PhasesOrdered, SettlingPhases
<1>10. /\ plans'[b][k] = plan
       /\ DOMAIN plans'[b] = DOMAIN plans[b] \union {k}
       /\ \A i \in DOMAIN plans[b] : plans'[b][i] = plans[b][i]
       /\ k \notin DOMAIN plans[b]
  BY <1>1, <1>4, <1>5, <1>6, Appended
<1>11. \A c \in Batches : c # b =>
         /\ Unsettled(c)' = Unsettled(c)
         /\ \A i \in Unsettled(c) : plans'[c][i] = plans[c][i]
  BY <1>2, <1>6 DEF Unsettled
<1>12. k > Len(outcomes[b])
  BY <1>1, <1>2 DEF BatchInvariant, PhasesOrdered, SettlingPhases
<1>13. /\ Unsettled(b)' = Unsettled(b) \union {k}
       /\ \A i \in Unsettled(b) : plans'[b][i] = plans[b][i]
  BY <1>2, <1>5, <1>10, <1>12 DEF Unsettled
<1>14. \A c \in Batches : \A i \in Unsettled(c) : Request[c][i] # p
  BY <1>7 DEF BatchInvariant, ItemsHold
<1>15. \A c \in Batches : \A i \in Unsettled(c)' :
         \/ /\ i \in Unsettled(c) /\ Request[c][i] # p
            /\ Request[c][i] \in Reserved
            /\ reservations'[Request[c][i]] = plans'[c][i].document
         \/ c = b /\ i = k
  BY <1>7, <1>11, <1>13, <1>14 DEF BatchInvariant, ItemsHold, Reserved
<1>16. \A c \in Batches : \A i \in Unsettled(c)' :
         /\ Request[c][i] \in Reserved'
         /\ reservations'[Request[c][i]] = plans'[c][i].document
  BY <1>5, <1>7, <1>10, <1>15 DEF p
<1>17. \A c, d \in Batches : \A i \in Unsettled(c)', j \in Unsettled(d)' :
         Request[c][i] = Request[d][j] => c = d /\ i = j
  BY <1>15 DEF BatchInvariant, ItemsHold, p
<1>18. \A q \in Reserved' : \E c \in Batches : \E i \in Unsettled(c)' : Request[c][i] = q
  BY <1>7, <1>11, <1>13 DEF BatchInvariant, ItemsHold, p
<1>19. QED
  BY <1>8, <1>9, <1>16, <1>17, <1>18 DEF BatchInvariant, ItemsHold

\* A set of numbers with an element has a first one.
LEMMA LeastNumber ==
  ASSUME NEW S, S \subseteq Nat, S # {}
  PROVE  \E j \in S : \A k \in S : j <= k
<1> DEFINE R == {pair \in Nat \X Nat : pair[1] < pair[2]}
<1>1. IsWellFoundedOn(R, Nat)
  BY NatLessThanWellFounded, Zenon DEF OpToRel
<1>2. \E x \in S : \A y \in S : <<y, x>> \notin R
  <2> HIDE DEF R
  <2>1. QED
    BY <1>1, WFMin
<1>3. \A x, y \in S : <<y, x>> \in R <=> y < x
  OBVIOUS
<1> HIDE DEF R
<1>4. \A x, y \in S : ~(y < x) => x <= y
  OBVIOUS
<1>5. QED
  BY <1>2, <1>3, <1>4

\* The first of the earlier items is a number.
LEMMA FirstEarlier ==
  ASSUME NEW b \in Batches, NEW n \in Nat, Earlier(b, n) # {}
  PROVE  (CHOOSE j \in Earlier(b, n) : \A k \in Earlier(b, n) : j <= k) \in Nat
<1>1. Earlier(b, n) \subseteq Nat
  BY DEF Earlier
<1> HIDE DEF Earlier
<1>2. \E j \in Earlier(b, n) : \A k \in Earlier(b, n) : j <= k
  BY <1>1, LeastNumber
<1>3. QED
  BY <1>1, <1>2

\* Every action of the reserving phase.
LEMMA ReservingCorrect ==
  ASSUME BatchInvariant, NEW b \in Batches, PlanWithoutReservation(b) \/ ReservePath(b)
  PROVE  BatchInvariant'
<1>1. CASE PlanWithoutReservation(b)
  <2>1. PICK plan \in Plans : plan.kind # "Reserved" /\ Plan(b, plan)
    <3>1. CASE Plan(b, Failed)
      <4>1. Failed \in Plans /\ Failed.kind # "Reserved"
        BY DEF Failed, Plans, None
      <4>2. QED
        BY <3>1, <4>1
    <3>2. CASE /\ Earlier(b, NextItem(b)) # {}
               /\ Plan(b, [kind |-> "Duplicate", document |-> None,
                    first_index |-> CHOOSE j \in Earlier(b, NextItem(b)) :
                                      \A k \in Earlier(b, NextItem(b)) : j <= k])
      <4> DEFINE first == CHOOSE j \in Earlier(b, NextItem(b)) :
                            \A k \in Earlier(b, NextItem(b)) : j <= k
      <4>1. first \in Nat
        <5>1. Len(plans[b]) \in Nat
          BY DEF BatchInvariant, BatchTypes
        <5>2. PICK n \in Nat : n = NextItem(b)
          BY <5>1 DEF NextItem
        <5>3. QED
          BY <3>2, <5>2, FirstEarlier
      <4> HIDE DEF first
      <4>2. [kind |-> "Duplicate", document |-> None, first_index |-> first] \in Plans
        BY <4>1 DEF Plans, None
      <4>3. Plan(b, [kind |-> "Duplicate", document |-> None, first_index |-> first])
        BY <3>2 DEF first
      <4>4. QED
        BY <4>2, <4>3
    <3>3. QED
      BY <1>1, <3>1, <3>2 DEF PlanWithoutReservation
  <2>2. pc[b] = "reserving" /\ UNCHANGED <<registry, pc, outcomes>>
    BY <1>1 DEF PlanWithoutReservation
  <2>3. QED
    BY <2>1, <2>2, PlanAdded
<1>2. CASE ReservePath(b)
  <2> DEFINE p == Request[b][NextItem(b)]
  <2>1. CASE UNCHANGED <<registry, plans>> /\ pc' = [pc EXCEPT ![b] = "waiting"]
    <3>1. /\ UNCHANGED <<plans, outcomes, reservations, next_document_id, paths>>
          /\ pc[b] = "reserving"
      BY <1>2, <2>1 DEF ReservePath, registry
    <3>2. QED
      BY <2>1, <3>1, PhaseStep
      DEF BatchInvariant, BatchTypes, PhasesOrdered, SettlingPhases, Phases
  <2>2. CASE UNCHANGED <<registry, pc>> /\ Plan(b, Failed)
    <3>1. Failed \in Plans /\ Failed.kind # "Reserved"
      BY DEF Failed, Plans, None
    <3>2. pc[b] = "reserving" /\ UNCHANGED outcomes
      BY <1>2 DEF ReservePath
    <3>3. QED
      BY <2>2, <3>1, <3>2, PlanAdded
  <2>3. CASE /\ UNCHANGED <<registry, pc>>
             /\ Plan(b, [kind |-> "Existing", document |-> paths[p], first_index |-> 0])
    <3>1. /\ pc[b] = "reserving" /\ UNCHANGED outcomes
          /\ NextItem(b) \in 1..Len(Request[b]) /\ p # BadPath
      BY <1>2, RequestAssumption DEF ReservePath, NextItem, BatchInvariant, BatchTypes
    <3>2. paths[p] \in Nat
      BY <3>1, RequestedPaths DEF BatchInvariant, BatchTypes
    <3> HIDE DEF p
    <3>3. [kind |-> "Existing", document |-> paths[p], first_index |-> 0] \in Plans
      BY <3>2 DEF Plans
    <3>4. PICK plan \in Plans : plan.kind # "Reserved" /\ Plan(b, plan)
      BY <2>3, <3>3
    <3>5. QED
      BY <2>3, <3>1, <3>4, PlanAdded
  <2>4. CASE next_document_id' = next_document_id + 1
    BY <1>2, <2>4, PathReserved
  <2>5. QED
    BY <1>2, <2>1, <2>2, <2>3, <2>4 DEF ReservePath
<1>3. QED
  BY <1>1, <1>2

\* The next item of a batch that settles.
LEMMA NextUnsettled ==
  ASSUME BatchInvariant, NEW b \in Batches, pc[b] \in SettlingPhases,
         Settled(b) <= Len(Request[b])
  PROVE  /\ Settled(b) \in DOMAIN plans[b] /\ Settled(b) = Len(outcomes[b]) + 1
         /\ Settled(b) \in Nat /\ Len(outcomes[b]) \in Nat
BY RequestAssumption DEF BatchInvariant, BatchTypes, PhasesOrdered, SettlingPhases, Settled

\* An outcome for an item that holds no reservation.
LEMMA OutcomeAdded ==
  ASSUME BatchInvariant, NEW b \in Batches, pc[b] \in SettlingPhases,
         Settled(b) <= Len(Request[b]), PlanOf(b).kind # "Reserved",
         NEW outcome \in Nat, Settle(b, outcome), UNCHANGED <<registry, plans, pc>>
  PROVE  BatchInvariant'
<1>1. /\ outcomes' \in [Batches -> Seq(Outcomes)]
      /\ outcomes'[b] = Append(outcomes[b], outcome)
      /\ \A c \in Batches : c # b => outcomes'[c] = outcomes[c]
  BY DEF BatchInvariant, BatchTypes, Settle, Outcomes
<1>2. outcomes[b] \in Seq(Outcomes) /\ outcome \in Outcomes
  BY DEF BatchInvariant, BatchTypes, Outcomes
<1>3. Len(outcomes'[b]) = Len(outcomes[b]) + 1
  BY <1>1, <1>2, Appended
<1>4. BatchTypes'
  BY <1>1 DEF BatchInvariant, BatchTypes, registry
<1>5. PhasesOrdered'
  BY <1>1, <1>3 DEF BatchInvariant, PhasesOrdered
<1>6. \A c \in Batches : Unsettled(c)' = Unsettled(c)
  <2>1. \A i \in DOMAIN plans[b] :
          plans[b][i].kind = "Reserved" => (i > Len(outcomes[b]) + 1 <=> i > Len(outcomes[b]))
    BY NextUnsettled DEF PlanOf, BatchInvariant, BatchTypes
  <2>2. Unsettled(b)' = Unsettled(b)
    BY <1>3, <2>1 DEF Unsettled
  <2>3. QED
    BY <1>1, <2>2 DEF Unsettled
<1>7. ItemsHold'
  BY <1>6, SameItems DEF BatchInvariant, registry
<1>8. QED
  BY <1>4, <1>5, <1>7 DEF BatchInvariant

\* commit_prepared and cancel_reservation give the path of the item back, whatever
\* becomes of it.
LEMMA ItemReleased ==
  ASSUME BatchInvariant, NEW b \in Batches,
         NEW phase \in SettlingPhases, Settling(b, phase, "Reserved"),
         NEW outcome \in Nat, Settle(b, outcome), NotifyAll(b, "settling"),
         reservations' = [reservations EXCEPT ![Request[b][Settled(b)]] = None],
         paths' \in [Paths -> Nat], UNCHANGED <<plans, next_document_id>>
  PROVE  BatchInvariant'
<1> DEFINE k == Settled(b)
           p == Request[b][k]
<1>1. /\ pc[b] \in SettlingPhases /\ k \in DOMAIN plans[b] /\ k = Len(outcomes[b]) + 1
      /\ plans[b][k].kind = "Reserved" /\ k \in Nat /\ Len(outcomes[b]) \in Nat
  BY NextUnsettled DEF Settling, PlanOf
<1>2. k \in Unsettled(b)
  BY <1>1 DEF Unsettled
<1>3. p \in Reserved /\ p \in Paths
  BY <1>2 DEF BatchInvariant, ItemsHold, Reserved
<1> HIDE DEF k
<1>4. /\ outcomes' \in [Batches -> Seq(Outcomes)]
      /\ outcomes'[b] = Append(outcomes[b], outcome)
      /\ \A c \in Batches : c # b => outcomes'[c] = outcomes[c]
  BY DEF BatchInvariant, BatchTypes, Settle, Outcomes
<1>5. Len(outcomes'[b]) = Len(outcomes[b]) + 1
  <2>1. outcomes[b] \in Seq(Outcomes) /\ outcome \in Outcomes
    BY DEF BatchInvariant, BatchTypes, Outcomes
  <2>2. QED
    BY <1>4, <2>1, Appended
<1>6. /\ reservations' \in [Paths -> Nat] /\ Reserved' = Reserved \ {p}
      /\ \A q \in Paths : q # p => reservations'[q] = reservations[q]
  BY <1>3 DEF BatchInvariant, BatchTypes, Reserved, None, k
<1>7. \A c \in Batches : /\ c = b => pc'[c] = "settling"
                         /\ c # b => pc'[c] = pc[c] \/ (pc[c] = "waiting" /\ pc'[c] = "reserving")
  BY DEF NotifyAll
<1>8. BatchTypes'
  <2>1. pc' \in [Batches -> Phases]
    BY DEF NotifyAll, BatchInvariant, BatchTypes, Phases
  <2>2. QED
    BY <1>4, <1>6, <2>1 DEF BatchInvariant, BatchTypes
<1>9. PhasesOrdered'
  BY <1>1, <1>4, <1>5, <1>7 DEF BatchInvariant, PhasesOrdered, SettlingPhases
<1>10. /\ Unsettled(b)' = Unsettled(b) \ {k}
       /\ \A c \in Batches : c # b => Unsettled(c)' = Unsettled(c)
  <2>1. \A i \in DOMAIN plans[b] : i > Len(outcomes[b]) + 1 <=> i > Len(outcomes[b]) /\ i # k
    BY <1>1 DEF BatchInvariant, BatchTypes
  <2>2. Unsettled(b)' = Unsettled(b) \ {k}
    BY <1>5, <2>1 DEF Unsettled
  <2>3. QED
    BY <1>4, <2>2 DEF Unsettled
<1>11. \A c \in Batches : \A i \in Unsettled(c)' :
         i \in Unsettled(c) /\ Request[c][i] # p
  <2>1. \A c \in Batches : \A i \in Unsettled(c) :
          Request[c][i] = p => c = b /\ i = k
    BY <1>2 DEF BatchInvariant, ItemsHold, k
  <2>2. QED
    BY <1>10, <2>1
<1>12. \A c \in Batches : \A i \in Unsettled(c)' :
         /\ Request[c][i] \in Reserved'
         /\ reservations'[Request[c][i]] = plans'[c][i].document
  BY <1>6, <1>11 DEF BatchInvariant, ItemsHold, Reserved
<1>13. \A c, d \in Batches : \A i \in Unsettled(c)', j \in Unsettled(d)' :
         Request[c][i] = Request[d][j] => c = d /\ i = j
  BY <1>11 DEF BatchInvariant, ItemsHold
<1>14. \A q \in Reserved' : \E c \in Batches : \E i \in Unsettled(c)' : Request[c][i] = q
  <2>1. ASSUME NEW q \in Reserved, q # p
        PROVE  \E c \in Batches : \E i \in Unsettled(c)' : Request[c][i] = q
    <3>1. PICK c \in Batches : \E i \in Unsettled(c) : Request[c][i] = q
      BY DEF BatchInvariant, ItemsHold
    <3>2. PICK i \in Unsettled(c) : Request[c][i] = q
      BY <3>1
    <3>3. i \in Unsettled(c)'
      BY <1>10, <2>1, <3>2 DEF k
    <3>4. QED
      BY <3>2, <3>3
  <2>2. QED
    BY <1>6, <2>1
<1>15. QED
  BY <1>8, <1>9, <1>12, <1>13, <1>14 DEF BatchInvariant, ItemsHold

\* Every action of the settling phase.
LEMMA SettlingCorrect ==
  ASSUME BatchInvariant, NEW b \in Batches,
         \/ SettleFailed(b) \/ SettleExisting(b) \/ SettleDuplicate(b)
         \/ CheckRequest(b) \/ CommitPrepared(b) \/ CancelReservation(b)
  PROVE  BatchInvariant'
<1>0. "settling" \in SettlingPhases /\ "committing" \in SettlingPhases
      /\ "cancelling" \in SettlingPhases
  BY DEF SettlingPhases
<1>1. CASE SettleFailed(b)
  <2>1. None \in Nat
    BY DEF None
  <2>2. QED
    BY <1>0, <1>1, <2>1, OutcomeAdded DEF SettleFailed, Settling
<1>2. ASSUME NEW d, Join(b, d),
             Settling(b, "settling", "Existing") \/ Settling(b, "settling", "Duplicate")
      PROVE  BatchInvariant'
  <2>1. PICK outcome \in Nat : Settle(b, outcome)
    BY <1>2 DEF Join, IsOpen, None, BatchInvariant, BatchTypes
  <2>2. QED
    BY <1>0, <1>2, <2>1, OutcomeAdded DEF Join, Settling
<1>3. CASE CommitPrepared(b)
  <2> DEFINE p == Request[b][Settled(b)]
  <2>1. PlanOf(b).document \in Nat
    <3>1. Settled(b) \in DOMAIN plans[b]
      BY <1>0, <1>3, NextUnsettled DEF CommitPrepared, Settling
    <3>2. plans[b] \in Seq(Plans)
      BY DEF BatchInvariant, BatchTypes
    <3>3. plans[b][Settled(b)] \in Plans
      BY <3>1, <3>2
    <3>4. QED
      BY <3>3 DEF PlanOf, Plans
  <2>2. PICK d \in Nat : d = PlanOf(b).document
    BY <2>1
  <2>3. paths' \in [Paths -> Nat]
    BY <1>3, <2>1 DEF CommitPrepared, BatchInvariant, BatchTypes
  <2>4. /\ Settling(b, "committing", "Reserved") /\ Settle(b, d) /\ NotifyAll(b, "settling")
        /\ reservations' = [reservations EXCEPT ![Request[b][Settled(b)]] = None]
        /\ UNCHANGED <<plans, next_document_id>>
    BY <1>3, <2>2 DEF CommitPrepared
  <2>5. QED
    BY <1>0, <2>3, <2>4, ItemReleased
<1>4. CASE CancelReservation(b)
  <2>1. None \in Nat
    BY DEF None
  <2>2. PICK phase \in SettlingPhases : Settling(b, phase, "Reserved")
    BY <1>0, <1>4 DEF CancelReservation, MustCancel
  <2>3. QED
    BY <1>4, <2>1, <2>2, ItemReleased DEF CancelReservation, BatchInvariant, BatchTypes
<1>5. CASE CheckRequest(b)
  <2>1. /\ pc[b] = "settling" /\ UNCHANGED <<registry, plans, outcomes>>
        /\ \E phase \in {"committing", "cancelling"} : pc' = [pc EXCEPT ![b] = phase]
    BY <1>5 DEF CheckRequest, Settling
  <2>2. QED
    BY <1>0, <2>1, PhaseStep
       DEF registry, BatchInvariant, BatchTypes, PhasesOrdered, Phases, SettlingPhases
<1>6. QED
  BY <1>1, <1>2, <1>3, <1>4, <1>5 DEF SettleExisting, SettleDuplicate

\* Registering, preparing, responding, cancelling and closing.
LEMMA OthersCorrect ==
  ASSUME BatchInvariant,
         \/ \E b \in Batches : \/ Register(b) \/ SpawnChunk(b) \/ JoinLast(b) \/ Respond(b)
                               \/ \E i \in Items(b) : Worker(b, i)
         \/ \E id \in RequestIds : CancelOpen(id)
         \/ \E p \in Paths : Close(p)
  PROVE  BatchInvariant'
<1> USE DEF BatchInvariant, BatchTypes, PhasesOrdered, Phases, SettlingPhases
<1>1. ASSUME NEW b \in Batches, Register(b)
      PROVE  BatchInvariant'
  BY <1>1, PhaseStep DEF Register, registry
<1>2. ASSUME NEW b \in Batches, SpawnChunk(b)
      PROVE  BatchInvariant'
  BY <1>2, PhaseStep DEF SpawnChunk, registry
<1>3. ASSUME NEW b \in Batches, JoinLast(b)
      PROVE  BatchInvariant'
  BY <1>3, PhaseStep DEF JoinLast, registry
<1>4. ASSUME NEW b \in Batches, Respond(b)
      PROVE  BatchInvariant'
  <2>1. Len(outcomes[b]) >= Len(Request[b]) /\ Len(plans[b]) = Len(Request[b])
    BY <1>4, RequestAssumption DEF Respond, Settled
  <2>2. QED
    BY <1>4, <2>1, PhaseStep DEF Respond, registry
<1>5. ASSUME NEW b \in Batches, NEW i \in Items(b), Worker(b, i)
      PROVE  BatchInvariant'
  BY <1>5, PhaseStep DEF Worker, AcquirePermit, PrepareSource, registry
<1>6. ASSUME NEW id \in RequestIds, CancelOpen(id)
      PROVE  BatchInvariant'
  BY <1>6, PhaseStep DEF CancelOpen, registry
<1>7. ASSUME NEW p \in Paths, Close(p)
      PROVE  BatchInvariant'
  <2>1. paths' \in [Paths -> Nat]
    BY <1>7 DEF Close, None
  <2>2. QED
    BY <1>7, <2>1, PhaseStep DEF Close
<1>8. QED
  BY <1>1, <1>2, <1>3, <1>4, <1>5, <1>6, <1>7

-----------------------------------------------------------------------------
(* The theorems *)

LEMMA InitCorrect == Init => BatchInvariant
<1> SUFFICES ASSUME Init  PROVE BatchInvariant
  OBVIOUS
<1>1. BatchTypes
  BY DEF Init, BatchTypes, None, Phases
<1>2. PhasesOrdered
  BY DEF Init, PhasesOrdered, SettlingPhases
<1>3. Reserved = {} /\ \A b \in Batches : Unsettled(b) = {}
  BY DEF Init, Reserved, Unsettled
<1>4. QED
  BY <1>1, <1>2, <1>3 DEF BatchInvariant, ItemsHold

\* The reservations and the unsettled items of all batches are in one-to-one
\* correspondence in every state.
THEOREM ItemsHoldAlways == Spec => []BatchInvariant
<1>1. BatchInvariant /\ [Next]_vars => BatchInvariant'
  <2> SUFFICES ASSUME BatchInvariant, [Next]_vars  PROVE BatchInvariant'
    OBVIOUS
  <2>1. CASE Next
    BY <2>1, ReservingCorrect, SettlingCorrect, OthersCorrect DEF Next, Work
  <2>2. CASE UNCHANGED vars
    BY <2>2, PhaseStep
       DEF vars, registry, BatchInvariant, BatchTypes, PhasesOrdered
  <2>3. QED
    BY <2>1, <2>2
<1>2. QED
  BY <1>1, InitCorrect, PTL DEF Spec

\* Every reservation made by open_paths is held by exactly one batch that has yet to
\* settle it, and a batch that has responded holds none, for any number of batches
\* that name the same paths in any order.
THEOREM ReservationsAccountedAlways == Spec => []ReservationsAccounted
<1>1. BatchInvariant => ReservationsAccounted
  <2> SUFFICES ASSUME BatchInvariant  PROVE ReservationsAccounted
    OBVIOUS
  <2>1. \A b \in Batches : \A p \in Paths :
          p \in Holds(b) <=> \E i \in Unsettled(b) : Request[b][i] = p
    BY DEF Holds, Unsettled, BatchInvariant, ItemsHold
  <2>2. ASSUME NEW p \in Reserved
        PROVE  Cardinality({b \in Batches : p \in Holds(b)}) = 1
    <3>1. PICK b \in Batches : \E i \in Unsettled(b) : Request[b][i] = p
      BY DEF BatchInvariant, ItemsHold
    <3>2. {c \in Batches : p \in Holds(c)} = {b}
      BY <2>1, <3>1 DEF BatchInvariant, ItemsHold, Reserved
    <3>3. QED
      BY <3>2, FS_Singleton
  <2>3. ASSUME NEW b \in Batches, pc[b] = "done"
        PROVE  Holds(b) = {}
    <3>1. Unsettled(b) = {}
      BY <2>3 DEF BatchInvariant, BatchTypes, PhasesOrdered, Unsettled
    <3>2. QED
      BY <3>1 DEF Holds, Unsettled
  <2>4. QED
    BY <2>2, <2>3 DEF ReservationsAccounted
<1>2. QED
  BY <1>1, ItemsHoldAlways, PTL

-----------------------------------------------------------------------------
(* The permits *)

\* Every item of a batch is a slot a worker can run in.
LEMMA RunningItems ==
  \A b \in Batches : \A i \in Items(b) :
    <<b, i>> \in Batches \X UNION {Items(c) : c \in Batches}
OBVIOUS

\* A step that leaves the permits and the running workers alone.
LEMMA PermitsUnchanged ==
  ASSUME PermitsCounted, UNCHANGED <<active, prepared>>
  PROVE  PermitsCounted'
BY DEF PermitsCounted, Running, Items

LEMMA PermitsStep ==
  ASSUME PermitsCounted, [Next]_vars
  PROVE  PermitsCounted'
<1>1. /\ prepared = [b \in Batches |-> [i \in Items(b) |-> prepared[b][i]]]
      /\ IsFiniteSet(Running) /\ active = Cardinality(Running) /\ active \in Nat
      /\ active <= MaxPrepares
  BY FS_CardinalityType DEF PermitsCounted
<1>2. ASSUME NEW b \in Batches, NEW i \in Items(b), NEW to \in {"running", "ok", "failed"},
             prepared' = [prepared EXCEPT ![b][i] = to]
      PROVE  /\ prepared' = [c \in Batches |-> [j \in Items(c) |-> prepared'[c][j]]]
             /\ prepared'[b][i] = to
             /\ \A c \in Batches : \A j \in Items(c) :
                  <<c, j>> # <<b, i>> => prepared'[c][j] = prepared[c][j]
  <2>1. prepared[b] = [j \in Items(b) |-> prepared[b][j]]
    BY <1>1
  <2>2. PICK f : f = [prepared[b] EXCEPT ![i] = to] /\ prepared' = [prepared EXCEPT ![b] = f]
    BY <1>2
  <2>3. /\ f = [j \in Items(b) |-> f[j]] /\ f[i] = to
        /\ \A j \in Items(b) : j # i => f[j] = prepared[b][j]
    BY <2>1, <2>2
  <2>4. prepared'[b] = f /\ \A c \in Batches : c # b => prepared'[c] = prepared[c]
    BY <1>1, <2>2
  <2>5. \A c \in Batches : prepared'[c] = [j \in Items(c) |-> prepared'[c][j]]
    BY <1>1, <2>3, <2>4
  <2>6. prepared' = [c \in Batches |-> prepared'[c]]
    BY <1>1, <2>2
  <2>7. prepared' = [c \in Batches |-> [j \in Items(c) |-> prepared'[c][j]]]
    BY <2>5, <2>6
  <2>8. QED
    BY <2>3, <2>4, <2>7
<1>3. ASSUME NEW b \in Batches, NEW i \in Items(b), AcquirePermit(b, i)
      PROVE  PermitsCounted'
  <2>1. /\ prepared[b][i] = "queued" /\ active < MaxPrepares /\ active' = active + 1
        /\ prepared' = [prepared EXCEPT ![b][i] = "running"]
    BY <1>3 DEF AcquirePermit
  <2> PICK to \in {"running", "ok", "failed"} : to = "running"
    OBVIOUS
  <2>0. prepared' = [prepared EXCEPT ![b][i] = to]
    BY <2>1
  <2>2. /\ prepared' = [c \in Batches |-> [j \in Items(c) |-> prepared'[c][j]]]
        /\ prepared'[b][i] = to
        /\ \A c \in Batches : \A j \in Items(c) :
             <<c, j>> # <<b, i>> => prepared'[c][j] = prepared[c][j]
    BY <1>2, <2>0
  <2>3. Running' = Running \union {<<b, i>>} /\ <<b, i>> \notin Running
    <3>1. \A c \in Batches : \A j \in Items(c) :
            <<c, j>> \in Running <=> prepared[c][j] = "running"
      BY RunningItems DEF Running
    <3>2. \A c \in Batches : \A j \in Items(c) :
            <<c, j>> \in Running' <=> prepared'[c][j] = "running"
      BY RunningItems DEF Running
    <3>3. /\ \A w \in Running : \E c \in Batches : \E j \in Items(c) : w = <<c, j>>
          /\ \A w \in Running' : \E c \in Batches : \E j \in Items(c) : w = <<c, j>>
      BY DEF Running
    <3> QED
      BY <3>1, <3>2, <3>3, <2>1, <2>2
  <2>4. IsFiniteSet(Running') /\ Cardinality(Running') = active + 1
    BY <1>1, <2>3, FS_AddElement
  <2>5. QED
    BY <1>1, <2>1, <2>2, <2>4, RequestAssumption DEF PermitsCounted
<1>4. ASSUME NEW b \in Batches, NEW i \in Items(b), NEW result \in {"ok", "failed"},
             PrepareSource(b, i, result)
      PROVE  PermitsCounted'
  <2>1. /\ prepared[b][i] = "running" /\ active' = active - 1
        /\ prepared' = [prepared EXCEPT ![b][i] = result]
    BY <1>4 DEF PrepareSource
  <2>2. /\ prepared' = [c \in Batches |-> [j \in Items(c) |-> prepared'[c][j]]]
        /\ prepared'[b][i] = result
        /\ \A c \in Batches : \A j \in Items(c) :
             <<c, j>> # <<b, i>> => prepared'[c][j] = prepared[c][j]
    BY <1>2, <2>1
  <2>3. Running' = Running \ {<<b, i>>} /\ <<b, i>> \in Running
    <3>1. \A c \in Batches : \A j \in Items(c) :
            <<c, j>> \in Running <=> prepared[c][j] = "running"
      BY RunningItems DEF Running
    <3>2. \A c \in Batches : \A j \in Items(c) :
            <<c, j>> \in Running' <=> prepared'[c][j] = "running"
      BY RunningItems DEF Running
    <3>3. /\ \A w \in Running : \E c \in Batches : \E j \in Items(c) : w = <<c, j>>
          /\ \A w \in Running' : \E c \in Batches : \E j \in Items(c) : w = <<c, j>>
      BY DEF Running
    <3> QED
      BY <3>1, <3>2, <3>3, <2>1, <2>2
  <2>4. IsFiniteSet(Running') /\ Cardinality(Running') = active - 1
    BY <1>1, <2>3, FS_RemoveElement
  <2>5. QED
    BY <1>1, <2>1, <2>2, <2>4, RequestAssumption DEF PermitsCounted
<1>5. ASSUME NEW b \in Batches, SpawnChunk(b)
      PROVE  PermitsCounted'
  <2>1. /\ active' = active
        /\ prepared' = [prepared EXCEPT ![b] =
             [i \in Items(b) |-> IF i \in Chunk(Unspawned(b)) THEN "queued" ELSE @[i]]]
    BY <1>5 DEF SpawnChunk
  <2>2. \A i \in Chunk(Unspawned(b)) : prepared[b][i] = "none"
    BY DEF Chunk, Unspawned
  <2>3. /\ prepared' = [c \in Batches |-> [j \in Items(c) |-> prepared'[c][j]]]
        /\ \A c \in Batches : \A j \in Items(c) :
             prepared'[c][j] = "running" <=> prepared[c][j] = "running"
    BY <1>1, <2>1, <2>2
  <2>4. Running' = Running
    BY <2>3 DEF Running, Items
  <2>5. QED
    BY <1>1, <2>1, <2>3, <2>4 DEF PermitsCounted
<1>6. ASSUME NEW b \in Batches,
             \/ Register(b) \/ PlanWithoutReservation(b) \/ ReservePath(b) \/ JoinLast(b)
             \/ SettleFailed(b) \/ SettleExisting(b) \/ SettleDuplicate(b)
             \/ CheckRequest(b) \/ CommitPrepared(b) \/ CancelReservation(b) \/ Respond(b)
      PROVE  UNCHANGED <<active, prepared>>
  BY <1>6 DEF Register, PlanWithoutReservation, ReservePath, JoinLast, SettleFailed,
     SettleExisting, SettleDuplicate, Join, CheckRequest, CommitPrepared,
     CancelReservation, Respond
<1>7. ASSUME \/ \E id \in RequestIds : CancelOpen(id)
             \/ \E p \in Paths : Close(p)
             \/ UNCHANGED vars
      PROVE  UNCHANGED <<active, prepared>>
  BY <1>7 DEF CancelOpen, Close, vars
<1>8. QED
  BY <1>3, <1>4, <1>5, <1>6, <1>7, PermitsUnchanged DEF Next, Work, Worker

\* The permits taken are those of the running workers and never more than
\* MAX_CONCURRENT_SOURCE_PREPARES, for any number of batches that prepare at the same time
\* and whatever fails or is cancelled.
THEOREM PermitsCountedAlways == Spec => []PermitsCounted
<1>1. Init => PermitsCounted
  <2> SUFFICES ASSUME Init  PROVE PermitsCounted
    OBVIOUS
  <2>1. prepared = [b \in Batches |-> [i \in Items(b) |-> "none"]] /\ active = 0
    BY DEF Init
  <2>2. Running = {}
    BY <2>1 DEF Running
  <2>3. QED
    BY <2>1, <2>2, FS_EmptySet, RequestAssumption DEF PermitsCounted
<1>2. PermitsCounted /\ [Next]_vars => PermitsCounted'
  BY PermitsStep
<1>3. QED
  BY <1>1, <1>2, PTL DEF Spec

-----------------------------------------------------------------------------
(* The lists of registered and of cancelled requests *)

\* An id added to a list that misses it, with as many ids as the list has places: nothing
\* is dropped from the front.
LEMMA RememberKeeps ==
  ASSUME IsFiniteSet(RequestIds), Cardinality(RequestIds) <= RequestCapacity,
         NEW fifo \in Seq(RequestIds), Once(fifo), NEW id \in RequestIds, id \notin Range(fifo)
  PROVE  /\ Remember(fifo, id) \in Seq(RequestIds) /\ Once(Remember(fifo, id))
         /\ Range(Remember(fifo, id)) = Range(fifo) \union {id}
<1>1. /\ Len(fifo) \in Nat /\ DOMAIN fifo = 1..Len(fifo)
      /\ \A i \in DOMAIN fifo : fifo[i] \in RequestIds \ {id}
  BY DEF Range
<1>2. /\ IsFiniteSet(RequestIds \ {id})
      /\ Cardinality(RequestIds \ {id}) = Cardinality(RequestIds) - 1
      /\ Cardinality(RequestIds) \in Nat
  BY FS_RemoveElement, FS_CardinalityType
<1>3. fifo \in Injection(1..Len(fifo), RequestIds \ {id})
  <2>1. fifo \in [1..Len(fifo) -> RequestIds \ {id}]
    BY <1>1
  <2>2. \A i, j \in 1..Len(fifo) : fifo[i] = fifo[j] => i = j
    BY <1>1 DEF Once
  <2>3. QED
    BY <2>1, <2>2 DEF Injection, IsInjective
<1>4. Cardinality(1..Len(fifo)) <= Cardinality(RequestIds \ {id})
  BY <1>2, <1>3, FS_Injection
<1>5. Cardinality(1..Len(fifo)) = Len(fifo)
  <2>1. IF 1 > Len(fifo) THEN Cardinality(1..Len(fifo)) = 0
                         ELSE Cardinality(1..Len(fifo)) = Len(fifo) - 1 + 1
    BY <1>1, FS_Interval
  <2>2. QED
    BY <1>1, <2>1
<1>6. Len(fifo) + 1 <= RequestCapacity
  BY <1>1, <1>2, <1>4, <1>5, RequestAssumption
<1>7. Remember(fifo, id) = Append(fifo, id)
  <2>1. Len(Append(fifo, id)) = Len(fifo) + 1
    BY Appended
  <2>2. ~(Len(Append(fifo, id)) > RequestCapacity)
    BY <1>1, <1>6, <2>1, RequestAssumption
  <2>3. QED
    BY <2>2, Zenon DEF Remember
<1>8. /\ Append(fifo, id) \in Seq(RequestIds)
      /\ DOMAIN Append(fifo, id) = DOMAIN fifo \union {Len(fifo) + 1}
      /\ Append(fifo, id)[Len(fifo) + 1] = id
      /\ \A i \in DOMAIN fifo : Append(fifo, id)[i] = fifo[i]
  BY Appended
<1> HIDE DEF Remember
<1>9. Range(Append(fifo, id)) = Range(fifo) \union {id}
  <2>1. Range(Append(fifo, id)) \subseteq Range(fifo) \union {id}
    BY <1>8 DEF Range
  <2>2. Range(fifo) \subseteq Range(Append(fifo, id)) /\ id \in Range(Append(fifo, id))
    BY <1>8 DEF Range
  <2>3. QED
    BY <2>1, <2>2
<1>10. Once(Append(fifo, id))
  BY <1>8 DEF Once, Range
<1>11. QED
  BY <1>7, <1>8, <1>9, <1>10

\* A list with an id added at the end and the first one dropped above the capacity.
LEMMA RememberTyped ==
  ASSUME NEW S, NEW fifo \in Seq(S), Len(fifo) <= RequestCapacity, NEW id \in S
  PROVE  Remember(fifo, id) \in Seq(S) /\ Len(Remember(fifo, id)) <= RequestCapacity
<1>1. Append(fifo, id) \in Seq(S) /\ Len(Append(fifo, id)) = Len(fifo) + 1 /\ Len(fifo) \in Nat
  BY Appended
<1> DEFINE longer == Append(fifo, id)
<1>2. longer \in Seq(S) /\ Len(longer) = Len(fifo) + 1
  BY <1>1
<1>3. Remember(fifo, id) = IF Len(longer) > RequestCapacity THEN Tail(longer) ELSE longer
  BY DEF Remember
<1> HIDE DEF longer
<1>4. longer # <<>> => Tail(longer) \in Seq(S) /\ Len(Tail(longer)) = Len(longer) - 1
  BY <1>2
<1>5. QED
  BY <1>1, <1>2, <1>3, <1>4, RequestAssumption

\* What is left of a list without one of its elements.
LEMMA RemovedAt ==
  ASSUME NEW S, NEW fifo \in Seq(S), NEW i \in DOMAIN fifo
  PROVE  /\ RemoveAt(fifo, i) \in Seq(S) /\ Len(RemoveAt(fifo, i)) = Len(fifo) - 1
         /\ DOMAIN RemoveAt(fifo, i) = 1..(Len(fifo) - 1)
         /\ \A j \in 1..(Len(fifo) - 1) :
              RemoveAt(fifo, i)[j] = IF j < i THEN fifo[j] ELSE fifo[j + 1]
<1>1. /\ i \in 1..Len(fifo) /\ DOMAIN fifo = 1..Len(fifo)
      /\ Len(fifo) \in Nat /\ i \in Int
  OBVIOUS
<1> DEFINE front == SubSeq(fifo, 1, i - 1)
           back == SubSeq(fifo, i + 1, Len(fifo))
<1>2. /\ front \in Seq(S) /\ Len(front) = i - 1
      /\ \A j \in 1..(i - 1) : front[j] = fifo[j]
  BY <1>1
<1>3. /\ back \in Seq(S) /\ Len(back) = Len(fifo) - i
      /\ \A j \in 1..(Len(fifo) - i) : back[j] = fifo[i + j]
  BY <1>1
<1>4. RemoveAt(fifo, i) = front \o back
  BY DEF RemoveAt
<1> HIDE DEF front, back
<1>5. front \o back \in Seq(S) /\ Len(front \o back) = Len(fifo) - 1
  <2>1. Len(front \o back) = (i - 1) + (Len(fifo) - i)
    BY <1>2, <1>3, ConcatProperties
  <2>2. QED
    BY <1>1, <1>2, <1>3, <2>1, ConcatProperties
<1>6. ASSUME NEW j \in 1..(Len(fifo) - 1), j < i
      PROVE  (front \o back)[j] = fifo[j]
  <2>1. (front \o back)[j] = front[j]
    BY <1>1, <1>2, <1>3, <1>6
  <2>2. QED
    BY <1>1, <1>2, <1>6, <2>1
<1>7. ASSUME NEW j \in 1..(Len(fifo) - 1), j >= i
      PROVE  (front \o back)[j] = fifo[j + 1]
  <2>1. (front \o back)[j] = back[j - (i - 1)]
    BY <1>1, <1>2, <1>3, <1>7
  <2>2. back[j - (i - 1)] = fifo[i + (j - (i - 1))]
    BY <1>1, <1>3, <1>7
  <2>3. i + (j - (i - 1)) = j + 1
    BY <1>1
  <2>4. QED
    BY <2>1, <2>2, <2>3
<1>8. \A j \in 1..(Len(fifo) - 1) : j < i \/ j >= i
  BY <1>1
<1>9. DOMAIN (front \o back) = 1..(Len(fifo) - 1)
  BY <1>5
<1>10. ASSUME NEW j \in 1..(Len(fifo) - 1)
       PROVE  (front \o back)[j] = IF j < i THEN fifo[j] ELSE fifo[j + 1]
  BY <1>6, <1>7, <1>8
<1>11. QED
  BY <1>4, <1>5, <1>9, <1>10

\* The place of an id that a list has.
LEMMA PlaceOf ==
  ASSUME NEW fifo, NEW id \in Range(fifo)
  PROVE  LET at == CHOOSE i \in DOMAIN fifo : fifo[i] = id
         IN  at \in DOMAIN fifo /\ fifo[at] = id /\ Forget(fifo, id) = RemoveAt(fifo, at)
<1>1. \E i \in DOMAIN fifo : fifo[i] = id
  BY DEF Range
<1>2. QED
  BY <1>1 DEF Forget

LEMMA ForgetTyped ==
  ASSUME NEW S, NEW fifo \in Seq(S), NEW id
  PROVE  Forget(fifo, id) \in Seq(S) /\ Len(Forget(fifo, id)) <= Len(fifo)
<1>1. CASE id \in Range(fifo)
  <2>1. PICK at \in DOMAIN fifo : Forget(fifo, id) = RemoveAt(fifo, at)
    BY <1>1, PlaceOf
  <2>2. RemoveAt(fifo, at) \in Seq(S) /\ Len(RemoveAt(fifo, at)) = Len(fifo) - 1
    BY RemovedAt
  <2>3. QED
    BY <2>1, <2>2
<1>2. CASE id \notin Range(fifo)
  BY <1>2 DEF Forget
<1>3. QED
  BY <1>1, <1>2

\* A list in which every id is once forgets exactly the one it is told to.
LEMMA ForgetsOne ==
  ASSUME NEW S, NEW fifo \in Seq(S), Once(fifo), NEW id
  PROVE  /\ Forget(fifo, id) \in Seq(S) /\ Once(Forget(fifo, id))
         /\ Range(Forget(fifo, id)) = Range(fifo) \ {id}
<1>1. CASE id \in Range(fifo)
  <2>1. PICK at \in DOMAIN fifo : fifo[at] = id /\ Forget(fifo, id) = RemoveAt(fifo, at)
    BY <1>1, PlaceOf
  <2>2. PICK rest : rest = RemoveAt(fifo, at)
    OBVIOUS
  <2>3. /\ rest \in Seq(S) /\ DOMAIN rest = 1..(Len(fifo) - 1)
        /\ \A j \in 1..(Len(fifo) - 1) : rest[j] = IF j < at THEN fifo[j] ELSE fifo[j + 1]
    BY <2>2, RemovedAt
  <2>4. /\ DOMAIN fifo = 1..Len(fifo) /\ Len(fifo) \in Nat /\ at \in 1..Len(fifo)
    OBVIOUS
  <2>5. \A j \in DOMAIN rest :
          \E k \in DOMAIN fifo : /\ k # at /\ rest[j] = fifo[k]
                                 /\ k = IF j < at THEN j ELSE j + 1
    BY <2>3, <2>4
  <2>6. \A k \in DOMAIN fifo : k # at => \E j \in DOMAIN rest : rest[j] = fifo[k]
    <3>1. ASSUME NEW k \in DOMAIN fifo, k < at
          PROVE  k \in DOMAIN rest /\ rest[k] = fifo[k]
      BY <2>3, <2>4, <3>1
    <3>2. ASSUME NEW k \in DOMAIN fifo, k > at
          PROVE  k - 1 \in DOMAIN rest /\ rest[k - 1] = fifo[k]
      <4>1. /\ k - 1 \in 1..(Len(fifo) - 1) /\ ~(k - 1 < at) /\ (k - 1) + 1 = k
        BY <2>4, <3>2
      <4>2. QED
        BY <2>3, <4>1
    <3>3. \A k \in DOMAIN fifo : k # at => k < at \/ k > at
      BY <2>4
    <3>4. QED
      BY <3>1, <3>2, <3>3
  <2>7. Once(rest)
    <3> SUFFICES ASSUME NEW i \in DOMAIN rest, NEW j \in DOMAIN rest, rest[i] = rest[j]
                 PROVE  i = j
      BY DEF Once
    <3>1. PICK k \in DOMAIN fifo : rest[i] = fifo[k] /\ k = IF i < at THEN i ELSE i + 1
      BY <2>5
    <3>2. PICK l \in DOMAIN fifo : rest[j] = fifo[l] /\ l = IF j < at THEN j ELSE j + 1
      BY <2>5
    <3>3. k = l
      BY <3>1, <3>2 DEF Once
    <3>4. QED
      BY <2>3, <2>4, <3>1, <3>2, <3>3
  <2>8. Range(rest) = Range(fifo) \ {id}
    <3>1. \A x \in Range(rest) : x \in Range(fifo) /\ x # id
      <4> SUFFICES ASSUME NEW j \in DOMAIN rest
                   PROVE  rest[j] \in Range(fifo) /\ rest[j] # id
        BY DEF Range
      <4>1. PICK k \in DOMAIN fifo : k # at /\ rest[j] = fifo[k]
        BY <2>5
      <4>2. fifo[k] # id
        BY <2>1, <4>1 DEF Once
      <4>3. QED
        BY <4>1, <4>2 DEF Range
    <3>2. \A x \in Range(fifo) : x # id => x \in Range(rest)
      <4> SUFFICES ASSUME NEW k \in DOMAIN fifo, fifo[k] # id
                   PROVE  fifo[k] \in Range(rest)
        BY DEF Range
      <4>1. PICK j \in DOMAIN rest : rest[j] = fifo[k]
        BY <2>1, <2>6
      <4>2. QED
        BY <4>1 DEF Range
    <3>3. QED
      BY <3>1, <3>2
  <2>9. QED
    BY <2>1, <2>2, <2>3, <2>7, <2>8
<1>2. CASE id \notin Range(fifo)
  BY <1>2 DEF Forget
<1>3. QED
  BY <1>1, <1>2

-----------------------------------------------------------------------------
(* Cancelled requests *)

\* No commit and no check that passes.
LEMMA SameSpared ==
  ASSUME SparedOnce, spared' = spared, asked \subseteq asked',
         \A b \in Batches : /\ Started(b) => Started(b)'
                            /\ pc'[b] = "committing" => pc[b] = "committing"
  PROVE  SparedOnce'
BY DEF SparedOnce, CancelledCommitsOne

\* A step that leaves the lists alone and starts or finishes no batch.
LEMMA SameRequests ==
  ASSUME RequestsKept, UNCHANGED requests, SparedOnce',
         \A b \in Batches : /\ Started(b)' = Started(b)
                            /\ pc[b] = "done" => pc'[b] = "done"
  PROVE  RequestsKept'
<1>1. /\ completed_requests' = completed_requests /\ asked' = asked
      /\ cancelled_requests' = cancelled_requests
  BY DEF requests
<1>2. \A id \in asked' :
        \/ id \in Range(cancelled_requests')
        \/ \E b \in Batches : pc'[b] = "done" /\ RequestId[b] = id
  BY <1>1 DEF RequestsKept
<1>3. QED
  BY <1>1, <1>2 DEF RequestsKept, Once

\* register_request starts a batch whose id no started batch has.
LEMMA RegisterKeeps ==
  ASSUME IsFiniteSet(RequestIds), Cardinality(RequestIds) <= RequestCapacity,
         BatchTypes, RequestsKept, NEW b \in Batches, Register(b)
  PROVE  RequestsKept'
<1>1. /\ pc[b] = "idle" /\ cancelled_requests' = cancelled_requests /\ asked' = asked
      /\ spared' = spared
  BY DEF Register
<1>2. SparedOnce'
  <2>1. \A c \in Batches : /\ Started(c) => Started(c)'
                           /\ pc'[c] = "committing" => pc[c] = "committing"
    BY DEF Register, BatchTypes, Started
  <2>2. QED
    BY <1>1, <2>1, SameSpared DEF RequestsKept
<1>3. RequestId[b] \in RequestIds
  BY DEF RequestIds
<1>4. CASE RequestId[b] \in Range(completed_requests)
  <2>1. /\ pc' = [pc EXCEPT ![b] = "refused"] /\ completed_requests' = completed_requests
    BY <1>4 DEF Register
  <2>2. \A c \in Batches : /\ Started(c)' = Started(c)
                           /\ pc[c] = "done" => pc'[c] = "done"
    BY <1>1, <2>1 DEF BatchTypes, Started
  <2>3. QED
    BY <1>1, <1>2, <2>1, <2>2, SameRequests DEF requests
<1>5. CASE RequestId[b] \notin Range(completed_requests)
  <2>1. /\ pc' = [pc EXCEPT ![b] = "reserving"]
        /\ completed_requests' = Remember(completed_requests, RequestId[b])
    BY <1>5 DEF Register
  <2>2. /\ completed_requests' \in Seq(RequestIds) /\ Once(completed_requests')
        /\ Range(completed_requests') = Range(completed_requests) \union {RequestId[b]}
    BY <1>3, <1>5, <2>1, RememberKeeps DEF RequestsKept
  <2>3. /\ \A c \in Batches : c # b => pc'[c] = pc[c]
        /\ pc'[b] = "reserving"
    BY <2>1 DEF BatchTypes
  <2>4. \A c \in Batches : Started(c)' => Started(c) \/ c = b
    BY <2>3 DEF Started
  <2>5. \A c \in Batches : Started(c) => RequestId[c] # RequestId[b]
    BY <1>5 DEF RequestsKept
  <2>6. \A c \in Batches : Started(c)' => RequestId[c] \in Range(completed_requests')
    BY <2>2, <2>4 DEF RequestsKept
  <2>7. \A c, d \in Batches : Started(c)' /\ Started(d)' /\ RequestId[c] = RequestId[d] => c = d
    BY <2>4, <2>5 DEF RequestsKept
  <2>8. \A id \in asked' :
          \/ id \in Range(cancelled_requests')
          \/ \E c \in Batches : pc'[c] = "done" /\ RequestId[c] = id
    <3> SUFFICES ASSUME NEW id \in asked, id \notin Range(cancelled_requests)
                 PROVE  \E c \in Batches : pc'[c] = "done" /\ RequestId[c] = id
      BY <1>1
    <3>1. PICK c \in Batches : pc[c] = "done" /\ RequestId[c] = id
      BY DEF RequestsKept
    <3>2. pc'[c] = "done"
      BY <1>1, <2>3, <3>1
    <3>3. QED
      BY <3>1, <3>2
  <2>9. /\ cancelled_requests' \in Seq(RequestIds) /\ Once(cancelled_requests')
        /\ Range(cancelled_requests') \subseteq asked' /\ asked' \subseteq RequestIds
    BY <1>1 DEF RequestsKept
  <2>10. QED
    BY <1>2, <2>2, <2>6, <2>7, <2>8, <2>9 DEF RequestsKept
<1>6. QED
  BY <1>4, <1>5

\* cancel_open remembers an id.
LEMMA CancelOpenKeeps ==
  ASSUME IsFiniteSet(RequestIds), Cardinality(RequestIds) <= RequestCapacity,
         RequestsKept, NEW id \in RequestIds, CancelOpen(id)
  PROVE  RequestsKept'
<1>1. /\ asked' = asked \union {id} /\ id \notin asked
      /\ cancelled_requests' = Remember(Forget(cancelled_requests, id), id)
      /\ completed_requests' = completed_requests /\ pc' = pc /\ spared' = spared
  BY DEF CancelOpen
<1>2. PICK rest : rest = Forget(cancelled_requests, id)
  OBVIOUS
<1>3. /\ rest \in Seq(RequestIds) /\ Once(rest)
      /\ Range(rest) = Range(cancelled_requests) \ {id}
  BY <1>2, ForgetsOne DEF RequestsKept
<1>4. /\ cancelled_requests' \in Seq(RequestIds) /\ Once(cancelled_requests')
      /\ Range(cancelled_requests') = Range(rest) \union {id}
  BY <1>1, <1>2, <1>3, RememberKeeps
<1>5. Range(cancelled_requests') = Range(cancelled_requests) \union {id}
  BY <1>3, <1>4
<1>6. SparedOnce'
  BY <1>1, SameSpared DEF RequestsKept, Started
<1>7. /\ Range(cancelled_requests') \subseteq asked' /\ asked' \subseteq RequestIds
      /\ \A x \in asked' :
           \/ x \in Range(cancelled_requests')
           \/ \E b \in Batches : pc'[b] = "done" /\ RequestId[b] = x
  BY <1>1, <1>5 DEF RequestsKept
<1>8. /\ completed_requests' \in Seq(RequestIds) /\ Once(completed_requests')
      /\ \A b \in Batches : Started(b)' => RequestId[b] \in Range(completed_requests')
      /\ \A b, c \in Batches :
           Started(b)' /\ Started(c)' /\ RequestId[b] = RequestId[c] => b = c
  BY <1>1 DEF RequestsKept, Started
<1>9. QED
  BY <1>4, <1>6, <1>7, <1>8 DEF RequestsKept

\* A batch that responds clears its cancellation.
LEMMA RespondKeeps ==
  ASSUME BatchTypes, RequestsKept, NEW b \in Batches, Respond(b)
  PROVE  RequestsKept'
<1>1. /\ pc[b] = "settling" /\ pc' = [pc EXCEPT ![b] = "done"]
      /\ cancelled_requests' = Forget(cancelled_requests, RequestId[b])
      /\ completed_requests' = completed_requests /\ asked' = asked /\ spared' = spared
  BY DEF Respond
<1>2. /\ pc'[b] = "done" /\ \A c \in Batches : c # b => pc'[c] = pc[c]
  BY <1>1 DEF BatchTypes
<1>3. /\ cancelled_requests' \in Seq(RequestIds) /\ Once(cancelled_requests')
      /\ Range(cancelled_requests') = Range(cancelled_requests) \ {RequestId[b]}
  BY <1>1, ForgetsOne DEF RequestsKept
<1>4. \A c \in Batches : Started(c)' = Started(c)
  BY <1>1, <1>2 DEF Started
<1>5. /\ completed_requests' \in Seq(RequestIds) /\ Once(completed_requests')
      /\ \A c \in Batches : Started(c)' => RequestId[c] \in Range(completed_requests')
      /\ \A c, d \in Batches :
           Started(c)' /\ Started(d)' /\ RequestId[c] = RequestId[d] => c = d
  BY <1>1, <1>4 DEF RequestsKept
<1>6. \A id \in asked' :
        \/ id \in Range(cancelled_requests')
        \/ \E c \in Batches : pc'[c] = "done" /\ RequestId[c] = id
  <2> SUFFICES ASSUME NEW id \in asked, id \notin Range(cancelled_requests')
               PROVE  \E c \in Batches : pc'[c] = "done" /\ RequestId[c] = id
    BY <1>1
  <2>1. CASE id = RequestId[b]
    BY <1>2, <2>1
  <2>2. CASE id # RequestId[b]
    <3>1. PICK c \in Batches : pc[c] = "done" /\ RequestId[c] = id
      BY <1>3, <2>2 DEF RequestsKept
    <3>2. pc'[c] = "done"
      BY <1>2, <3>1
    <3>3. QED
      BY <3>1, <3>2
  <2>3. QED
    BY <2>1, <2>2
<1>7. SparedOnce'
  BY <1>1, <1>2, <1>4, SameSpared DEF RequestsKept
<1>8. Range(cancelled_requests') \subseteq asked' /\ asked' \subseteq RequestIds
  BY <1>1, <1>3 DEF RequestsKept
<1>9. QED
  BY <1>3, <1>5, <1>6, <1>7, <1>8 DEF RequestsKept

\* The batch that checks is the only one with its id and has not responded, so it finds its
\* cancellation in the list.
LEMMA CheckKeeps ==
  ASSUME BatchTypes, RequestsKept, NEW b \in Batches, CheckRequest(b)
  PROVE  RequestsKept'
<1>1. /\ pc[b] = "settling" /\ UNCHANGED requests /\ spared' = spared
      /\ pc' = [pc EXCEPT ![b] = IF IsCancelled(b) THEN "cancelling" ELSE "committing"]
  BY DEF CheckRequest, Settling
<1>2. /\ pc'[b] = IF IsCancelled(b) THEN "cancelling" ELSE "committing"
      /\ \A c \in Batches : c # b => pc'[c] = pc[c]
  BY <1>1 DEF BatchTypes
<1>3. RequestId[b] \in asked => IsCancelled(b)
  <2> SUFFICES ASSUME RequestId[b] \in asked, ~IsCancelled(b)  PROVE FALSE
    OBVIOUS
  <2>1. PICK c \in Batches : pc[c] = "done" /\ RequestId[c] = RequestId[b]
    BY DEF RequestsKept, IsCancelled
  <2>2. Started(b) /\ Started(c)
    BY <1>1, <2>1 DEF Started
  <2>3. c = b
    BY <2>1, <2>2 DEF RequestsKept
  <2>4. QED
    BY <1>1, <2>1, <2>3
<1>4. \A c \in Batches : /\ Started(c)' = Started(c)
                         /\ pc[c] = "done" => pc'[c] = "done"
  BY <1>1, <1>2 DEF Started
<1>5. SparedOnce'
  <2>1. asked' = asked
    BY <1>1 DEF requests
  <2>2. CancelledCommitsOne'
    BY <1>1 DEF RequestsKept, SparedOnce, CancelledCommitsOne
  <2>3. ASSUME NEW s \in spared
        PROVE  /\ s[1] \in Batches /\ Started(s[1])' /\ RequestId[s[1]] \in asked'
               /\ pc'[s[1]] # "committing"
    <3>1. /\ s[1] \in Batches /\ Started(s[1]) /\ RequestId[s[1]] \in asked
          /\ pc[s[1]] # "committing"
      BY DEF RequestsKept, SparedOnce
    <3>2. pc'[s[1]] # "committing"
      BY <1>2, <1>3, <3>1
    <3>3. QED
      BY <1>4, <2>1, <3>1, <3>2
  <2>4. QED
    BY <1>1, <2>2, <2>3 DEF SparedOnce
<1>6. QED
  BY <1>1, <1>4, <1>5, SameRequests

\* The batch that commits has committed nothing in spite of its cancellation yet.
LEMMA CommitKeeps ==
  ASSUME BatchTypes, RequestsKept, NEW b \in Batches, CommitPrepared(b)
  PROVE  RequestsKept'
<1>1. /\ pc[b] = "committing" /\ UNCHANGED requests
      /\ spared' = IF RequestId[b] \in asked THEN spared \union {<<b, Settled(b)>>} ELSE spared
  BY DEF CommitPrepared, Settling
<1>2. /\ pc'[b] = "settling"
      /\ \A c \in Batches : pc'[c] = "committing" => pc[c] = "committing"
      /\ \A c \in Batches : /\ Started(c)' = Started(c)
                            /\ pc[c] = "done" => pc'[c] = "done"
  BY <1>1 DEF CommitPrepared, NotifyAll, Started
<1>3. PICK mine : mine = <<b, Settled(b)>>
  OBVIOUS
<1>4. mine[1] = b
  BY <1>3
<1>5. Started(b)
  BY <1>1 DEF Started
<1>6. \A s \in spared' :
        \/ s \in spared
        \/ s = mine /\ RequestId[b] \in asked
  BY <1>1, <1>3
<1>7. \A s \in spared : RequestId[s[1]] # RequestId[b]
  <2> SUFFICES ASSUME NEW s \in spared, RequestId[s[1]] = RequestId[b]  PROVE FALSE
    OBVIOUS
  <2>1. s[1] \in Batches /\ Started(s[1]) /\ pc[s[1]] # "committing"
    BY DEF RequestsKept, SparedOnce
  <2>2. s[1] = b
    BY <1>5, <2>1 DEF RequestsKept
  <2>3. QED
    BY <1>1, <2>1, <2>2
<1>8. CancelledCommitsOne'
  <2> SUFFICES ASSUME NEW s \in spared', NEW t \in spared', RequestId[s[1]] = RequestId[t[1]]
               PROVE  s = t
    BY DEF CancelledCommitsOne
  <2>1. s \in spared /\ t \in spared => s = t
    BY DEF RequestsKept, SparedOnce, CancelledCommitsOne
  <2>2. QED
    BY <1>4, <1>6, <1>7, <2>1
<1>9. SparedOnce'
  <2>1. asked' = asked
    BY <1>1 DEF requests
  <2>2. ASSUME NEW s \in spared'
        PROVE  /\ s[1] \in Batches /\ Started(s[1])' /\ RequestId[s[1]] \in asked'
               /\ pc'[s[1]] # "committing"
    <3>1. CASE s \in spared
      <4>1. /\ s[1] \in Batches /\ Started(s[1]) /\ RequestId[s[1]] \in asked
            /\ pc[s[1]] # "committing"
        BY <3>1 DEF RequestsKept, SparedOnce
      <4>2. QED
        BY <1>2, <2>1, <4>1
    <3>2. CASE s = mine /\ RequestId[b] \in asked
      BY <1>2, <1>4, <1>5, <2>1, <3>2
    <3>3. QED
      BY <1>6, <3>1, <3>2
  <2>3. QED
    BY <1>8, <2>2 DEF SparedOnce
<1>10. QED
  BY <1>1, <1>2, <1>9, SameRequests

LEMMA RequestsStep ==
  ASSUME IsFiniteSet(RequestIds), Cardinality(RequestIds) <= RequestCapacity,
         BatchTypes, RequestsKept, [Next]_vars
  PROVE  RequestsKept'
<1>1. ASSUME NEW b \in Batches,
             \/ PlanWithoutReservation(b) \/ SettleFailed(b)
             \/ SettleExisting(b) \/ SettleDuplicate(b)
             \/ \E i \in Items(b) : Worker(b, i)
      PROVE  UNCHANGED requests /\ UNCHANGED <<pc, spared>>
  BY <1>1 DEF PlanWithoutReservation, SettleFailed, SettleExisting, SettleDuplicate, Join,
     Worker, AcquirePermit, PrepareSource
<1>2. ASSUME NEW b \in Batches, ReservePath(b) \/ SpawnChunk(b) \/ JoinLast(b)
      PROVE  /\ UNCHANGED requests /\ spared' = spared
             /\ pc[b] \in {"reserving", "preparing"}
             /\ \/ pc' = pc
                \/ \E phase \in {"waiting", "preparing", "settling"} :
                     pc' = [pc EXCEPT ![b] = phase]
  BY <1>2 DEF ReservePath, SpawnChunk, JoinLast
<1>3. ASSUME NEW b \in Batches, CancelReservation(b)
      PROVE  /\ UNCHANGED requests /\ spared' = spared
             /\ pc[b] \in {"settling", "cancelling"} /\ NotifyAll(b, "settling")
  BY <1>3 DEF CancelReservation, MustCancel, Settling
<1>4. ASSUME NEW p \in Paths, Close(p)
      PROVE  UNCHANGED requests /\ UNCHANGED <<pc, spared>>
  BY <1>4 DEF Close
<1>5. ASSUME UNCHANGED requests, spared' = spared,
             \A c \in Batches : /\ Started(c)' = Started(c)
                                /\ pc[c] = "done" => pc'[c] = "done"
                                /\ pc'[c] = "committing" => pc[c] = "committing"
      PROVE  RequestsKept'
  <2>1. SparedOnce'
    BY <1>5, SameSpared DEF RequestsKept, requests
  <2>2. QED
    BY <1>5, <2>1, SameRequests
<1>6. ASSUME NEW b \in Batches, ReservePath(b) \/ SpawnChunk(b) \/ JoinLast(b)
      PROVE  RequestsKept'
  <2>1. \A c \in Batches : /\ Started(c)' = Started(c)
                           /\ pc[c] = "done" => pc'[c] = "done"
                           /\ pc'[c] = "committing" => pc[c] = "committing"
    BY <1>2, <1>6 DEF BatchTypes, Started
  <2>2. QED
    BY <1>2, <1>5, <1>6, <2>1
<1>7. ASSUME NEW b \in Batches, CancelReservation(b)
      PROVE  RequestsKept'
  <2>1. \A c \in Batches : /\ Started(c)' = Started(c)
                           /\ pc[c] = "done" => pc'[c] = "done"
                           /\ pc'[c] = "committing" => pc[c] = "committing"
    BY <1>3, <1>7 DEF NotifyAll, Started
  <2>2. QED
    BY <1>3, <1>5, <1>7, <2>1
<1>8. ASSUME UNCHANGED requests, UNCHANGED <<pc, spared>>
      PROVE  RequestsKept'
  BY <1>5, <1>8 DEF Started
<1>9. CASE UNCHANGED vars
  BY <1>8, <1>9 DEF vars
<1>10. CASE Next
  BY <1>1, <1>4, <1>6, <1>7, <1>8, <1>10, RegisterKeeps, CancelOpenKeeps, RespondKeeps,
     CheckKeeps, CommitKeeps DEF Next, Work
<1>11. QED
  BY <1>9, <1>10

\* A batch whose request the client has cancelled commits one more document at most, the one
\* whose check had passed, for any batches and any order of cancellations and responses, as
\* long as the lists of request ids have a place for every id in use: a longer history drops
\* the oldest ids, registered or cancelled, from the front.
THEOREM CancelledCommitsOneAlways ==
  ASSUME IsFiniteSet(RequestIds), Cardinality(RequestIds) <= RequestCapacity
  PROVE  Spec => []CancelledCommitsOne
<1>1. Init => RequestsKept
  <2> SUFFICES ASSUME Init  PROVE RequestsKept
    OBVIOUS
  <2>1. /\ completed_requests = <<>> /\ cancelled_requests = <<>> /\ asked = {} /\ spared = {}
        /\ \A b \in Batches : ~Started(b)
    BY DEF Init, Started
  <2>2. Range(<<>>) = {} /\ <<>> \in Seq(RequestIds) /\ Once(<<>>)
    BY DEF Range, Once
  <2>3. QED
    BY <2>1, <2>2 DEF RequestsKept, SparedOnce, CancelledCommitsOne
<1>2. BatchInvariant /\ RequestsKept /\ [Next]_vars => RequestsKept'
  BY RequestsStep DEF BatchInvariant
<1>3. RequestsKept => CancelledCommitsOne
  BY DEF RequestsKept, SparedOnce
<1>4. QED
  BY <1>1, <1>2, <1>3, ItemsHoldAlways, PTL DEF Spec

-----------------------------------------------------------------------------
(* The types *)

\* register_request, cancel_open and clear_request_cancellation keep the lists of ids
\* within their capacity; no other step touches them.
LEMMA QueuesTyped ==
  ASSUME TypeOK, [Next]_vars
  PROVE  /\ completed_requests' \in Seq(RequestIds)
         /\ Len(completed_requests') <= RequestCapacity
         /\ cancelled_requests' \in Seq(RequestIds)
         /\ Len(cancelled_requests') <= RequestCapacity
         /\ asked' \in SUBSET RequestIds
<1> DEFINE Typed(fifo) == fifo \in Seq(RequestIds) /\ Len(fifo) <= RequestCapacity
<1>1. Typed(completed_requests) /\ Typed(cancelled_requests) /\ asked \in SUBSET RequestIds
  BY DEF TypeOK
<1>2. \A b \in Batches : RequestId[b] \in RequestIds
  BY DEF RequestIds
<1>3. ASSUME NEW fifo, Typed(fifo), NEW id
      PROVE  /\ Typed(Forget(fifo, id))
             /\ id \in RequestIds => Typed(Remember(fifo, id))
  <2>1. Len(fifo) \in Nat /\ Forget(fifo, id) \in Seq(RequestIds)
        /\ Len(Forget(fifo, id)) <= Len(fifo)
    BY <1>3, ForgetTyped
  <2>2. Len(Forget(fifo, id)) \in Nat
    BY <2>1
  <2>3. Typed(Forget(fifo, id))
    BY <1>3, <2>1, <2>2, RequestAssumption
  <2>4. id \in RequestIds => Typed(Remember(fifo, id))
    BY <1>3, RememberTyped
  <2>5. QED
    BY <2>3, <2>4
<1> HIDE DEF Typed
<1>4. ASSUME NEW b \in Batches, Register(b)
      PROVE  /\ Typed(completed_requests') /\ Typed(cancelled_requests')
             /\ asked' \in SUBSET RequestIds
  BY <1>1, <1>2, <1>3, <1>4 DEF Register
<1>5. ASSUME NEW id \in RequestIds, CancelOpen(id)
      PROVE  /\ Typed(completed_requests') /\ Typed(cancelled_requests')
             /\ asked' \in SUBSET RequestIds
  <2>1. PICK rest : rest = Forget(cancelled_requests, id)
    OBVIOUS
  <2>2. Typed(rest)
    BY <1>1, <1>3, <2>1
  <2>3. Typed(Remember(rest, id))
    BY <1>3, <2>2
  <2>4. QED
    BY <1>1, <1>5, <2>1, <2>3 DEF CancelOpen
<1>6. ASSUME NEW b \in Batches, Respond(b)
      PROVE  /\ Typed(completed_requests') /\ Typed(cancelled_requests')
             /\ asked' \in SUBSET RequestIds
  BY <1>1, <1>3, <1>6 DEF Respond
<1>7. ASSUME NEW b \in Batches,
             \/ PlanWithoutReservation(b) \/ ReservePath(b) \/ SpawnChunk(b) \/ JoinLast(b)
             \/ SettleFailed(b) \/ SettleExisting(b) \/ SettleDuplicate(b)
             \/ CheckRequest(b) \/ CommitPrepared(b) \/ CancelReservation(b)
             \/ \E i \in Items(b) : Worker(b, i)
      PROVE  UNCHANGED requests
  BY <1>7 DEF PlanWithoutReservation, ReservePath, SpawnChunk, JoinLast, SettleFailed,
     SettleExisting, SettleDuplicate, Join, CheckRequest, CommitPrepared, CancelReservation,
     Worker, AcquirePermit, PrepareSource
<1>8. (\E p \in Paths : Close(p)) \/ UNCHANGED vars => UNCHANGED requests
  BY DEF Close, vars
<1>9. UNCHANGED requests =>
        Typed(completed_requests') /\ Typed(cancelled_requests') /\ asked' \in SUBSET RequestIds
  BY <1>1 DEF requests
<1>10. Typed(completed_requests') /\ Typed(cancelled_requests') /\ asked' \in SUBSET RequestIds
  BY <1>4, <1>5, <1>6, <1>7, <1>8, <1>9 DEF Next, Work
<1>11. QED
  BY <1>10 DEF Typed

\* A batch plans and settles no more items than it was asked for.
LEMMA LengthsBounded ==
  ASSUME TypeOK, BatchInvariant, [Next]_vars, NEW b \in Batches
  PROVE  Len(plans'[b]) <= Len(Request[b]) /\ Len(outcomes'[b]) <= Len(Request[b])
<1>1. /\ plans \in [Batches -> Seq(Plans)] /\ outcomes \in [Batches -> Seq(Outcomes)]
      /\ \A c \in Batches : Len(plans[c]) \in Nat /\ Len(outcomes[c]) \in Nat
  BY DEF BatchInvariant, BatchTypes
<1>2. \A c \in Batches : Len(plans[c]) <= Len(Request[c]) /\ Len(outcomes[c]) <= Len(Request[c])
  BY DEF TypeOK
<1>3. ASSUME NEW c \in Batches, NEW plan, Plan(c, plan), NextItem(c) <= Len(Request[c])
      PROVE  Len(plans'[b]) <= Len(Request[b])
  <2>1. CASE b = c
    <3>1. plans'[b] = Append(plans[b], plan)
      BY <1>1, <1>3, <2>1 DEF Plan
    <3>2. Len(Append(plans[b], plan)) = Len(plans[b]) + 1
      BY <1>1
    <3>3. QED
      BY <1>3, <2>1, <3>1, <3>2 DEF NextItem
  <2>2. CASE b # c
    BY <1>1, <1>2, <1>3, <2>2 DEF Plan
  <2>3. QED
    BY <2>1, <2>2
<1>4. ASSUME NEW c \in Batches, NEW outcome, Settle(c, outcome), Settled(c) <= Len(Request[c])
      PROVE  Len(outcomes'[b]) <= Len(Request[b])
  <2>1. CASE b = c
    <3>1. outcomes'[b] = Append(outcomes[b], outcome)
      BY <1>1, <1>4, <2>1 DEF Settle
    <3>2. Len(Append(outcomes[b], outcome)) = Len(outcomes[b]) + 1
      BY <1>1
    <3>3. QED
      BY <1>4, <2>1, <3>1, <3>2 DEF Settled
  <2>2. CASE b # c
    BY <1>1, <1>2, <1>4, <2>2 DEF Settle
  <2>3. QED
    BY <2>1, <2>2
<1>5. ASSUME NEW c \in Batches, PlanWithoutReservation(c)
      PROVE  /\ outcomes' = outcomes /\ NextItem(c) <= Len(Request[c])
             /\ \E plan : Plan(c, plan)
  BY <1>5 DEF PlanWithoutReservation
<1>6. ASSUME NEW c \in Batches, ReservePath(c)
      PROVE  /\ outcomes' = outcomes /\ NextItem(c) <= Len(Request[c])
             /\ plans' = plans \/ \E plan : Plan(c, plan)
  BY <1>6 DEF ReservePath
<1>7. ASSUME NEW c \in Batches,
             \/ SettleFailed(c) \/ SettleExisting(c) \/ SettleDuplicate(c)
             \/ CommitPrepared(c) \/ CancelReservation(c)
      PROVE  /\ plans' = plans /\ Settled(c) <= Len(Request[c])
             /\ \E outcome : Settle(c, outcome)
  BY <1>7 DEF SettleFailed, SettleExisting, SettleDuplicate, Join, CommitPrepared,
     CancelReservation, MustCancel, Settling
<1>8. ASSUME NEW c \in Batches,
             \/ Register(c) \/ SpawnChunk(c) \/ JoinLast(c) \/ CheckRequest(c) \/ Respond(c)
             \/ \E i \in Items(c) : Worker(c, i)
      PROVE  UNCHANGED <<plans, outcomes>>
  BY <1>8
  DEF Register, SpawnChunk, JoinLast, CheckRequest, Respond, Worker, AcquirePermit, PrepareSource
<1>9. ASSUME \/ \E id \in RequestIds : CancelOpen(id)
             \/ \E p \in Paths : Close(p)
             \/ UNCHANGED vars
      PROVE  UNCHANGED <<plans, outcomes>>
  BY <1>9 DEF CancelOpen, Close, vars
<1>10. UNCHANGED <<plans, outcomes>> =>
         Len(plans'[b]) <= Len(Request[b]) /\ Len(outcomes'[b]) <= Len(Request[b])
  BY <1>2
<1>11. ASSUME NEW c \in Batches, PlanWithoutReservation(c) \/ ReservePath(c)
       PROVE  Len(plans'[b]) <= Len(Request[b]) /\ Len(outcomes'[b]) <= Len(Request[b])
  BY <1>2, <1>3, <1>5, <1>6, <1>11
<1>12. ASSUME NEW c \in Batches,
              \/ SettleFailed(c) \/ SettleExisting(c) \/ SettleDuplicate(c)
              \/ CommitPrepared(c) \/ CancelReservation(c)
       PROVE  Len(plans'[b]) <= Len(Request[b]) /\ Len(outcomes'[b]) <= Len(Request[b])
  BY <1>2, <1>4, <1>7, <1>12
<1>13. CASE Next
  BY <1>8, <1>9, <1>10, <1>11, <1>12, <1>13 DEF Next, Work
<1>14. QED
  BY <1>9, <1>10, <1>13

\* A worker is queued, runs and ends with a result; every item has its own.
LEMMA WorkersTyped ==
  ASSUME TypeOK, PermitsCounted, PermitsCounted', [Next]_vars, NEW b \in Batches
  PROVE  prepared'[b] \in [Items(b) -> Prepares]
<1>1. /\ prepared'[b] = [i \in Items(b) |-> prepared'[b][i]]
      /\ \A c \in Batches : prepared[c] \in [Items(c) -> Prepares]
  BY DEF PermitsCounted, TypeOK, Items
<1>2. prepared = [c \in Batches |-> prepared[c]]
  BY DEF PermitsCounted
<1>3. ASSUME NEW c \in Batches, NEW i \in Items(c), NEW to \in Prepares,
             prepared' = [prepared EXCEPT ![c][i] = to]
      PROVE  prepared'[b] \in [Items(b) -> Prepares]
  <2>1. CASE b = c
    <3>1. prepared'[b] = [prepared[b] EXCEPT ![i] = to]
      BY <1>2, <1>3, <2>1
    <3>2. prepared[b] \in [Items(b) -> Prepares]
      BY <1>1
    <3> HIDE DEF Items
    <3>3. QED
      BY <3>1, <3>2
  <2>2. CASE b # c
    <3>1. prepared'[b] = prepared[b]
      BY <1>2, <1>3, <2>2
    <3>2. QED
      BY <1>1, <3>1
  <2>3. QED
    BY <2>1, <2>2
<1>4. ASSUME NEW c \in Batches, NEW i \in Items(c), Worker(c, i)
      PROVE  prepared'[b] \in [Items(b) -> Prepares]
  <2>1. PICK to \in Prepares : prepared' = [prepared EXCEPT ![c][i] = to]
    BY <1>4 DEF Worker, AcquirePermit, PrepareSource, Prepares
  <2>2. QED
    BY <1>3, <2>1
<1>5. ASSUME NEW c \in Batches, SpawnChunk(c)
      PROVE  prepared'[b] \in [Items(b) -> Prepares]
  <2>1. prepared' = [prepared EXCEPT ![c] =
          [i \in Items(c) |-> IF i \in Chunk(Unspawned(c)) THEN "queued" ELSE @[i]]]
    BY <1>5 DEF SpawnChunk
  <2>2. CASE b = c
    <3>1. prepared'[b] = [i \in Items(b) |-> IF i \in Chunk(Unspawned(b)) THEN "queued"
                                             ELSE prepared[b][i]]
      BY <1>2, <2>1, <2>2
    <3>2. \A i \in Items(b) : prepared[b][i] \in Prepares
      BY <1>1
    <3>3. QED
      BY <3>1, <3>2 DEF Prepares
  <2>3. CASE b # c
    <3>1. prepared'[b] = prepared[b]
      BY <1>2, <2>1, <2>3
    <3>2. QED
      BY <1>1, <3>1
  <2>4. QED
    BY <2>2, <2>3
<1>6. ASSUME NEW c \in Batches,
             \/ Register(c) \/ PlanWithoutReservation(c) \/ ReservePath(c) \/ JoinLast(c)
             \/ SettleFailed(c) \/ SettleExisting(c) \/ SettleDuplicate(c)
             \/ CheckRequest(c) \/ CommitPrepared(c) \/ CancelReservation(c) \/ Respond(c)
      PROVE  prepared' = prepared
  BY <1>6 DEF Register, PlanWithoutReservation, ReservePath, JoinLast, SettleFailed,
     SettleExisting, SettleDuplicate, Join, CheckRequest, CommitPrepared,
     CancelReservation, Respond
<1>7. ASSUME \/ \E id \in RequestIds : CancelOpen(id)
             \/ \E p \in Paths : Close(p)
             \/ UNCHANGED vars
      PROVE  prepared' = prepared
  BY <1>7 DEF CancelOpen, Close, vars
<1>8. prepared' = prepared => prepared'[b] \in [Items(b) -> Prepares]
  BY <1>1
<1>9. QED
  BY <1>4, <1>5, <1>6, <1>7, <1>8 DEF Next, Work

LEMMA TypesStep ==
  ASSUME TypeOK, BatchInvariant, BatchInvariant', PermitsCounted, PermitsCounted', [Next]_vars
  PROVE  TypeOK'
<1>1. active' \in 0..MaxPrepares
  BY FS_CardinalityType, RequestAssumption DEF PermitsCounted
<1>2. /\ next_document_id' \in Nat \ {0}
      /\ paths' \in [Paths -> Nat] /\ reservations' \in [Paths -> Nat]
      /\ pc' \in [Batches -> Phases]
      /\ \A b \in Batches : plans'[b] \in Seq(Plans) /\ outcomes'[b] \in Seq(Outcomes)
  BY DEF BatchInvariant, BatchTypes
<1>3. spared' \in SUBSET (Batches \X Nat)
  <2>1. spared \in SUBSET (Batches \X Nat)
    BY DEF TypeOK
  <2>2. ASSUME NEW b \in Batches, CommitPrepared(b)
        PROVE  spared' \in SUBSET (Batches \X Nat)
    <3>1. Settled(b) \in Nat
      BY DEF Settled, BatchInvariant, BatchTypes
    <3>2. QED
      BY <2>1, <2>2, <3>1 DEF CommitPrepared
  <2>3. ASSUME NEW b \in Batches,
               \/ Register(b) \/ PlanWithoutReservation(b) \/ ReservePath(b)
               \/ SpawnChunk(b) \/ JoinLast(b)
               \/ SettleFailed(b) \/ SettleExisting(b) \/ SettleDuplicate(b)
               \/ CheckRequest(b) \/ CancelReservation(b) \/ Respond(b)
               \/ \E i \in Items(b) : Worker(b, i)
        PROVE  spared' = spared
    BY <2>3 DEF Register, PlanWithoutReservation, ReservePath, SpawnChunk, JoinLast,
       SettleFailed, SettleExisting, SettleDuplicate, Join, CheckRequest,
       CancelReservation, Respond,
       Worker, AcquirePermit, PrepareSource
  <2>4. ASSUME \/ \E id \in RequestIds : CancelOpen(id)
               \/ \E p \in Paths : Close(p)
               \/ UNCHANGED vars
        PROVE  spared' = spared
    BY <2>4 DEF CancelOpen, Close, vars
  <2>5. QED
    BY <2>1, <2>2, <2>3, <2>4 DEF Next, Work
<1>4. QED
  BY <1>1, <1>2, <1>3, QueuesTyped, LengthsBounded, WorkersTyped DEF TypeOK

\* The lists of request ids never exceed their capacity, a batch never plans or settles
\* more items than it was asked for, and every worker is in one of its states, for any
\* batches and any limits.
THEOREM TypesAlways == Spec => []TypeOK
<1>1. Init => TypeOK
  <2> SUFFICES ASSUME Init  PROVE TypeOK
    OBVIOUS
  <2>1. /\ completed_requests = <<>> /\ cancelled_requests = <<>> /\ asked = {} /\ spared = {}
        /\ active = 0
        /\ \A b \in Batches : plans[b] = <<>> /\ outcomes[b] = <<>>
        /\ \A b \in Batches : prepared[b] = [i \in Items(b) |-> "none"]
    BY DEF Init
  <2>2. BatchInvariant
    BY InitCorrect
  <2>3. \A b \in Batches : prepared[b] \in [Items(b) -> Prepares]
    BY <2>1 DEF Prepares
  <2>4. \A b \in Batches : Len(Request[b]) \in Nat
    BY RequestAssumption
  <2>5. QED
    BY <2>1, <2>2, <2>3, <2>4, RequestAssumption DEF TypeOK, BatchInvariant, BatchTypes
<1>2. /\ TypeOK /\ BatchInvariant /\ BatchInvariant' /\ PermitsCounted /\ PermitsCounted'
      /\ [Next]_vars
      => TypeOK'
  BY TypesStep
<1>3. QED
  BY <1>1, <1>2, ItemsHoldAlways, PermitsCountedAlways, PTL DEF Spec
===============================================================================
