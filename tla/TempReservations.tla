-------------------------- MODULE TempReservations --------------------------
(***************************************************************************)
(* The shared budget of query temporary storage in one process             *)
(* (QueryTempManager and QueryTempLease of storage/temp.rs).               *)
(*                                                                         *)
(* A lease is a directory for the files of one query, preparation or       *)
(* column-values operation.  Its life is one thread's: allocate computes a *)
(* budget under the mutex of the reservations, the user of the lease       *)
(* writes, measures what it wrote and keeps it, and Drop gives everything  *)
(* back in four separate steps.  Walking a directory is one action per     *)
(* directory: files are written and removed between two of them.           *)
(*                                                                         *)
(* Identities come from counters, so the check that the path does not      *)
(* exist never refuses; it is left out, as are pinned source files, whose  *)
(* bytes are never counted, and the counter of active queries, which is    *)
(* only shown.                                                             *)
(***************************************************************************)
EXTENDS Naturals, FiniteSets

CONSTANTS
    Leases,         \* identities of leases
    Amounts,        \* the byte counts the world can produce
    HardCap,        \* QUERY_TEMP_HARD_CAP_BYTES
    SafetyReserve,  \* QUERY_TEMP_SAFETY_RESERVE_BYTES
    None

(* What the proofs assume of the constants.                                *)
AmountsAreCounts ==
    /\ Amounts \subseteq Nat
    /\ HardCap \in Nat
    /\ SafetyReserve \in Nat
    /\ None \notin Leases

VARIABLES
    pc,         \* where the thread of a lease is
    reserved,   \* the keys of reservations
    allowance,  \* its values
    active,     \* active_paths
    present,    \* the leases whose directory exists
    bytes,      \* the bytes below it, of the lease or of what is left of it
    mutex,      \* who holds the mutex of the reservations
    count,      \* the local numbers of budget_locked
    measured,   \* the local number of commit_usage
    limit,      \* limit_bytes
    cacheBytes, \* external_cache_bytes
    free,       \* free bytes of the volume
    clear       \* the walk of clear_inactive

vars == <<pc, reserved, allowance, active, present, bytes, mutex, count,
          measured, limit, cacheBytes, free, clear>>

(* The sum of f over S, as the number of its units.                        *)
Units(f, S) == UNION {{q} \X (1..f[q]) : q \in S}
Total(f, S) == Cardinality(Units(f, S))

(* saturating_sub                                                          *)
Monus(a, b) == IF b <= a THEN a - b ELSE 0
Smaller(a, b) == IF a <= b THEN a ELSE b
Larger(a, b) == IF a <= b THEN b ELSE a

(* A lease has its reservation in these steps, the second before it is     *)
(* given back.                                                             *)
Reserving == {"granted", "created", "held", "measured", "inactive"}
Steps == {"new", "budget", "unreserved", "refused", "dropped"} \cup Reserving

NoCount == [free |-> 0, total |-> 0, cache |-> 0, seen |-> {},
            active |-> 0, charged |-> 0, remaining |-> 0]

TypeOK ==
    /\ pc \in [Leases -> Steps]
    /\ reserved \subseteq Leases
    /\ allowance \in [Leases -> Nat]
    /\ active \subseteq Leases
    /\ present \subseteq Leases
    /\ bytes \in [Leases -> Nat]
    /\ mutex \in Leases \cup {None}
    /\ count \in [free : Nat, total : Nat, cache : Nat, seen : SUBSET Leases,
                  active : Nat, charged : Nat, remaining : Nat]
    /\ measured \in [Leases -> Nat]
    /\ limit \in Nat
    /\ cacheBytes \in Nat
    /\ free \in Nat
    /\ clear \in [step : {"off", "listing", "removing"},
                  kept : SUBSET Leases, todo : SUBSET Leases]

NoClear == [step |-> "off", kept |-> {}, todo |-> {}]

Init ==
    /\ pc = [q \in Leases |-> "new"]
    /\ reserved = {}
    /\ allowance = [q \in Leases |-> 0]
    /\ active = {}
    /\ present = {}
    /\ bytes = [q \in Leases |-> 0]
    /\ mutex = None
    /\ count = NoCount
    /\ measured = [q \in Leases |-> 0]
    /\ limit \in {Smaller(n, HardCap) : n \in Amounts}
    /\ cacheBytes = 0
    /\ free \in Amounts
    /\ clear = NoClear

-----------------------------------------------------------------------------
(* allocate_inner and budget_locked.                                       *)

Advance(q, from, to) ==
    /\ pc[q] = from
    /\ pc' = [pc EXCEPT ![q] = to]

world == <<limit, cacheBytes, free>>
files == <<present, bytes>>

(* The mutex is taken, the free space is read, all files of the process    *)
(* are measured and the size of the CSV cache is loaded.                   *)
BeginBudget(q) ==
    /\ Advance(q, "new", "budget")
    /\ mutex = None
    /\ mutex' = q
    /\ count' = [NoCount EXCEPT !.free = free,
                                !.total = Total(bytes, present),
                                !.cache = cacheBytes]
    /\ UNCHANGED <<reserved, allowance, active, files, measured, world, clear>>

(* One round of the loop over the reservations: r is charged with what it  *)
(* may still take or with what it has taken, whichever is more.  If its    *)
(* directory cannot be measured, nothing counts as taken.                  *)
Charge(q, r) ==
    /\ mutex = q
    /\ r \in reserved \ count.seen
    /\ \E b \in {0, bytes[r]} :
         count' = [count EXCEPT
           !.seen = @ \cup {r},
           !.active = @ + b,
           !.charged = @ + Larger(allowance[r], b),
           !.remaining = @ + Monus(allowance[r], b)]
    /\ UNCHANGED <<pc, reserved, allowance, active, files, mutex, measured,
                   world, clear>>

(* calculate_query_budget *)
LimitRemaining ==
    Monus(Monus(limit, count.cache + Monus(count.total, count.active)), count.charged)

FreeRemaining == Monus(Monus(count.free, SafetyReserve), count.remaining)

Budget(cap) == Smaller(cap, Smaller(LimitRemaining, FreeRemaining))

(* The limit is loaded last.  The reservation is entered under the mutex   *)
(* that was held all along.                                                *)
Grant(q, cap) ==
    /\ mutex = q
    /\ count.seen = reserved
    /\ Budget(cap) > 0
    /\ Advance(q, "budget", "granted")
    /\ reserved' = reserved \cup {q}
    /\ allowance' = [allowance EXCEPT ![q] = Budget(cap)]
    /\ mutex' = None
    /\ UNCHANGED <<active, files, count, measured, world, clear>>

Refuse(q, cap) ==
    /\ mutex = q
    /\ count.seen = reserved
    /\ Budget(cap) = 0
    /\ Advance(q, "budget", "refused")
    /\ mutex' = None
    /\ UNCHANGED <<reserved, allowance, active, files, count, measured, world, clear>>

(* The free space or all files of the process cannot be measured.          *)
BudgetFails(q) ==
    /\ mutex = q
    /\ Advance(q, "budget", "refused")
    /\ mutex' = None
    /\ UNCHANGED <<reserved, allowance, active, files, count, measured, world, clear>>

CreateDirectory(q) ==
    /\ Advance(q, "granted", "created")
    /\ present' = present \cup {q}
    /\ UNCHANGED <<reserved, allowance, active, bytes, mutex, count, measured, world, clear>>

(* It cannot be created, for one because Drop of the last lease of the     *)
(* same document has just removed the directory above it.                  *)
CreateFails(q) ==
    /\ Advance(q, "granted", "refused")
    /\ mutex = None
    /\ reserved' = reserved \ {q}
    /\ UNCHANGED <<allowance, active, files, mutex, count, measured, world, clear>>

Activate(q) ==
    /\ Advance(q, "created", "held")
    /\ active' = active \cup {q}
    /\ UNCHANGED <<reserved, allowance, files, mutex, count, measured, world, clear>>

-----------------------------------------------------------------------------
(* The user of a lease.  What it writes may exceed the allowance: DuckDB    *)
(* keeps to it, the output of a CSV preparation does not.                  *)
Write(q, n) ==
    /\ pc[q] = "held"
    /\ q \in present
    /\ bytes' = [bytes EXCEPT ![q] = n]
    /\ UNCHANGED <<pc, reserved, allowance, active, present, mutex, count, measured,
                   world, clear>>

(* commit_usage measures first and takes the mutex then.                   *)
Measure(q) ==
    /\ Advance(q, "held", "measured")
    /\ measured' = [measured EXCEPT ![q] = bytes[q]]
    /\ UNCHANGED <<reserved, allowance, active, files, mutex, count, world, clear>>

CommitUsage(q) ==
    /\ Advance(q, "measured", "held")
    /\ mutex = None
    /\ allowance' = [allowance EXCEPT ![q] = measured[q]]
    /\ UNCHANGED <<reserved, active, files, mutex, count, measured, world, clear>>

(* Drop of the lease.                                                      *)
Deactivate(q) ==
    /\ Advance(q, "held", "inactive")
    /\ active' = active \ {q}
    /\ UNCHANGED <<reserved, allowance, files, mutex, count, measured, world, clear>>

Unreserve(q) ==
    /\ Advance(q, "inactive", "unreserved")
    /\ mutex = None
    /\ reserved' = reserved \ {q}
    /\ UNCHANGED <<allowance, active, files, mutex, count, measured, world, clear>>

(* remove_with_retry leaves a renamed directory when it cannot remove it.  *)
RemoveDirectory(q) ==
    /\ Advance(q, "unreserved", "dropped")
    /\ \/ /\ present' = present \ {q}
          /\ bytes' = [bytes EXCEPT ![q] = 0]
       \/ UNCHANGED files
    /\ UNCHANGED <<reserved, allowance, active, mutex, count, measured, world, clear>>

-----------------------------------------------------------------------------
(* clear_inactive: the active leases are copied before the directories are *)
(* listed, and what was not active then is removed.                        *)
BeginClear ==
    /\ clear.step = "off"
    /\ clear' = [step |-> "listing", kept |-> active, todo |-> {}]
    /\ UNCHANGED <<pc, reserved, allowance, active, files, mutex, count, measured, world>>

ListDirectories ==
    /\ clear.step = "listing"
    /\ clear' = [clear EXCEPT !.step = "removing", !.todo = present \ clear.kept]
    /\ UNCHANGED <<pc, reserved, allowance, active, files, mutex, count, measured, world>>

ClearDirectory(r) ==
    /\ r \in clear.todo
    /\ clear' = [clear EXCEPT !.todo = @ \ {r}]
    /\ \/ /\ present' = present \ {r}
          /\ bytes' = [bytes EXCEPT ![r] = 0]
       \/ UNCHANGED files
    /\ UNCHANGED <<pc, reserved, allowance, active, mutex, count, measured, world>>

EndClear ==
    /\ clear.step = "removing"
    /\ clear.todo = {}
    /\ clear' = NoClear
    /\ UNCHANGED <<pc, reserved, allowance, active, files, mutex, count, measured, world>>

(* set_limit with effective_limit, set_external_cache_bytes, and the volume *)
(* that other programs use.                                                *)
SetLimit(n) ==
    /\ limit' = Smaller(n, HardCap)
    /\ UNCHANGED <<pc, reserved, allowance, active, files, mutex, count, measured,
                   cacheBytes, free, clear>>

SetCacheBytes(n) ==
    /\ cacheBytes' = n
    /\ UNCHANGED <<pc, reserved, allowance, active, files, mutex, count, measured,
                   limit, free, clear>>

SpaceChanges(n) ==
    /\ free' = n
    /\ UNCHANGED <<pc, reserved, allowance, active, files, mutex, count, measured,
                   limit, cacheBytes, clear>>

-----------------------------------------------------------------------------
Allocating(q) ==
    \/ BeginBudget(q)
    \/ \E r \in Leases : Charge(q, r)
    \/ \E cap \in Amounts : Grant(q, cap) \/ Refuse(q, cap)
    \/ BudgetFails(q) \/ CreateDirectory(q) \/ CreateFails(q) \/ Activate(q)

Using(q) ==
    \/ \E n \in Amounts : Write(q, n)
    \/ Measure(q) \/ CommitUsage(q)
    \/ Deactivate(q) \/ Unreserve(q) \/ RemoveDirectory(q)

Clearing ==
    \/ BeginClear \/ ListDirectories \/ EndClear
    \/ \E r \in Leases : ClearDirectory(r)

World == \E n \in Amounts : SetLimit(n) \/ SetCacheBytes(n) \/ SpaceChanges(n)

Next ==
    \/ \E q \in Leases : Allocating(q) \/ Using(q)
    \/ Clearing
    \/ World

Spec == Init /\ [][Next]_vars

-----------------------------------------------------------------------------
(* No byte of the limit is promised twice: whenever allocate grants a      *)
(* reservation, all reservations together fit into the limit, however many *)
(* threads allocate, grow, measure and drop leases meanwhile.  Measured     *)
(* usage may exceed a reservation, and a limit may be lowered below what   *)
(* has been promised; neither may let a new promise exceed it.             *)
GrantsWithinLimit ==
    [][\A q \in Leases :
        q \in reserved' \ reserved => Total(allowance', reserved') <= limit']_vars

(* Only the holder of the mutex is computing a budget, and what it has     *)
(* charged so far covers what was promised to the leases it has seen.      *)
MutexHeld == \A q \in Leases : mutex = q <=> pc[q] = "budget"

ChargesCover ==
    mutex # None =>
        /\ count.seen \subseteq reserved
        /\ Total(allowance, count.seen) <= count.charged

(* A live lease is always reserved, from before its directory is made      *)
(* until after it has left the active ones, so that its bytes are charged. *)
LeasesReserved ==
    /\ IsFiniteSet(reserved) /\ IsFiniteSet(present)
    /\ \A q \in Leases : q \in reserved <=> pc[q] \in Reserving
    /\ \A q \in active : pc[q] \in {"held", "measured"}

BudgetInvariant == TypeOK /\ MutexHeld /\ ChargesCover /\ LeasesReserved
=============================================================================
