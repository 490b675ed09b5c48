----------------------------- MODULE LockManager -----------------------------
(***************************************************************************)
(* The distributed lock of tikv/locks.rs on one resource: a record with an *)
(* owner and an expiry in TiKV, guards that believe they hold it, and the  *)
(* background task that renews it.  The scanners elect their leader with   *)
(* it: scanner.rs chooses the lease from the scan interval, and locks.rs   *)
(* the renewal interval, each without regard to the other.                 *)
(*                                                                         *)
(* Time passes in ticks.  The expiry is written with the clock of one pod  *)
(* and compared with the clock of another; Skew says how far each clock is *)
(* ahead of the slowest one.  acquire_lock and release_lock are one        *)
(* pessimistic transaction each: one step.                                 *)
(***************************************************************************)
EXTENDS Integers

CONSTANTS
    Pods,
    scan_interval,  \* SCANNER_SCAN_INTERVAL_SECS of each pod, in ticks
    MinTTL,         \* the shortest lease a scanner asks for
    RenewEvery,     \* renewal_interval: the same for every lease
    Skew,           \* how far each pod's clock is ahead of the slowest one
    MaxSkew,
    Steady,         \* the pods that never stop trying; the others may die for good
    MaxLate,        \* bound: releases of dropped guards under way, per pod
    NoLock          \* the lock key does not exist

ASSUME SkewAssumption == MaxSkew \in Nat /\ Skew \in [Pods -> 0 .. MaxSkew]
ASSUME LeaseAssumption ==
    scan_interval \in [Pods -> Nat] /\ MinTTL \in Nat /\ RenewEvery \in Nat \ {0}
ASSUME PodsAssumption == Steady \subseteq Pods /\ MaxLate \in Nat

VARIABLES
    lock,       \* TiKV: the lock record
    guard,      \* each pod's LockGuard
    late,       \* releases spawned by Drop and not executed yet
    undercut    \* history: pods whose own release removed the lock of a later guard

vars == <<lock, guard, late, undercut>>
-----------------------------------------------------------------------------
\* Mutant: the lease is one scan interval
TTL_OneInterval(p) == IF scan_interval[p] > MinTTL THEN scan_interval[p] ELSE MinTTL

\* try_become_leader: the lease p asks for
TTL(p) == IF 3 * scan_interval[p] > MinTTL THEN 3 * scan_interval[p] ELSE MinTTL

\* left counts down to the expiry on the slowest clock; at -1 every clock is past it
Left == Nat \cup {-1}

LockRecord == [owner : Pods, left : Left]

ASSUME NoLockAssumption == NoLock \notin LockRecord

\* left: what is left of the lease last confirmed; due: the ticks to the next
\* renewal; renews: the renewal task runs; timely: it was never late nor failed
Guard == [held : BOOLEAN, left : Left, due : 0 .. RenewEvery,
          renews : BOOLEAN, timely : BOOLEAN]

NoGuard == [held |-> FALSE, left |-> -1, due |-> 0, renews |-> FALSE, timely |-> FALSE]

\* Mutant: the renewal task lets one more interval pass before its first renewal
LockGuard_TwoIntervals(p, auto_renew) ==
    [held |-> TRUE, left |-> TTL(p), due |-> 2 * RenewEvery, renews |-> auto_renew, timely |-> TRUE]

LockGuard(p, auto_renew) ==
    [held |-> TRUE, left |-> TTL(p), due |-> RenewEvery, renews |-> auto_renew, timely |-> TRUE]

Init ==
    /\ lock = NoLock
    /\ guard = [p \in Pods |-> NoGuard]
    /\ late = [p \in Pods |-> 0]
    /\ undercut = {}

\* LockRecord::is_owned_by
is_owned_by(p) == lock # NoLock /\ lock.owner = p

\* Mutant: is_expired_with_grace, which ends the lease a tick early
is_expired_Grace(p) == lock.left - 1 < Skew[p]

\* LockRecord::is_expired, on the clock of p
is_expired(p) == lock.left < Skew[p]

\* Mutant: an expired record still keeps the others out
Grants_NeverExpires(p) == lock # NoLock => lock.owner = p

\* acquire_lock_once: whether p gets the lock, and the record it writes
Grants(p) == lock # NoLock => lock.owner = p \/ is_expired(p)

NewRecord(p) == [owner |-> p, left |-> TTL(p) + Skew[p]]

acquire_lock(p) == Grants(p) /\ lock' = NewRecord(p)

\* Mutant: whoever asks deletes the lock
release_lock_Any(p) == lock' = NoLock

\* release_lock_once
release_lock(p) == lock' = IF is_owned_by(p) THEN NoLock ELSE lock
-----------------------------------------------------------------------------
\* try_acquire, acquire_blocking, acquire_with_renewal: an attempt that succeeds.
\* One that fails changes nothing.
acquire(p) ==
    /\ ~guard[p].held
    /\ acquire_lock(p)
    /\ \E auto_renew \in BOOLEAN : guard' = [guard EXCEPT ![p] = LockGuard(p, auto_renew)]
    /\ undercut' = undercut \ {p}
    /\ UNCHANGED late

\* LockManager::renew, LockManager::steal, and an acquisition whose answer is
\* lost: the record is written, and no guard learns of it
AcquireOnly(p) ==
    /\ acquire_lock(p)
    /\ UNCHANGED <<guard, late, undercut>>

Renewed(p, ok) ==
    [held |-> TRUE, left |-> IF ok THEN TTL(p) ELSE guard[p].left, due |-> RenewEvery,
     renews |-> TRUE, timely |-> IF ok THEN guard[p].timely ELSE FALSE]

\* The renewal task: Ok(true); an error, which the next tick retries; Ok(false),
\* which ends the task and leaves the guard valid
Renew(p) ==
    /\ guard[p].held /\ guard[p].renews /\ guard[p].due = 0
    /\ \/ acquire_lock(p) /\ guard' = [guard EXCEPT ![p] = Renewed(p, TRUE)]
       \/ UNCHANGED lock /\ guard' = [guard EXCEPT ![p] = Renewed(p, FALSE)]
       \/ /\ ~Grants(p)
          /\ guard' = [guard EXCEPT ![p] = [@ EXCEPT !.renews = FALSE]]
          /\ UNCHANGED lock
    /\ UNCHANGED <<late, undercut>>

\* LockGuard::renew
renew(p) ==
    /\ guard[p].held
    /\ acquire_lock(p)
    /\ guard' = [guard EXCEPT ![p] = [@ EXCEPT !.left = TTL(p)]]
    /\ UNCHANGED <<late, undercut>>

\* LockGuard::release; when the call fails the lock stays until it expires
release(p) ==
    /\ guard[p].held
    /\ release_lock(p) \/ UNCHANGED lock
    /\ guard' = [guard EXCEPT ![p] = NoGuard]
    /\ UNCHANGED <<late, undercut>>

\* LockGuard::drop spawns the release, or cannot without a runtime
Drop(p) ==
    /\ guard[p].held
    /\ guard' = [guard EXCEPT ![p] = NoGuard]
    /\ \/ late[p] < MaxLate /\ late' = [late EXCEPT ![p] = @ + 1]
       \/ UNCHANGED late
    /\ UNCHANGED <<lock, undercut>>

\* The spawned release, or LockManager::release
Undercut(p) == IF is_owned_by(p) /\ guard[p].held THEN undercut \cup {p} ELSE undercut

LateRelease(p) ==
    /\ late[p] > 0
    /\ late' = [late EXCEPT ![p] = @ - 1]
    /\ release_lock(p)
    /\ undercut' = Undercut(p)
    /\ UNCHANGED guard

manager_release(p) ==
    /\ release_lock(p)
    /\ undercut' = Undercut(p)
    /\ UNCHANGED <<guard, late>>

\* The process dies, with the releases it has spawned, and starts again
Crash(p) ==
    /\ guard' = [guard EXCEPT ![p] = NoGuard]
    /\ late' = [late EXCEPT ![p] = 0]
    /\ UNCHANGED <<lock, undercut>>

\* A tick passes.  A renewal that is due and has not run is late.
Older(left) == IF left = -1 THEN -1 ELSE left - 1

Aged(g) ==
    [held |-> g.held, left |-> Older(g.left),
     due |-> IF g.due = 0 THEN 0 ELSE g.due - 1, renews |-> g.renews,
     timely |-> g.timely /\ g.due > 0]

Tick ==
    /\ lock' = IF lock = NoLock THEN NoLock ELSE [lock EXCEPT !.left = Older(@)]
    /\ guard' = [p \in Pods |-> IF guard[p].held THEN Aged(guard[p]) ELSE guard[p]]
    /\ UNCHANGED <<late, undercut>>

PodStep(p) ==
    \/ acquire(p) \/ AcquireOnly(p) \/ Renew(p) \/ renew(p) \/ release(p)
    \/ Drop(p) \/ LateRelease(p) \/ manager_release(p) \/ Crash(p)

Next == Tick \/ \E p \in Pods : PodStep(p)

Spec == Init /\ [][Next]_vars

\* Clocks run, and a steady pod that does not hold the lock keeps trying
FairSpec == Spec /\ WF_vars(Tick) /\ \A p \in Steady : WF_vars(acquire(p))
-----------------------------------------------------------------------------
(* Every variable has its type *)
TypeOK ==
    /\ lock \in LockRecord \cup {NoLock}
    /\ guard \in [Pods -> Guard]
    /\ late \in [Pods -> 0 .. MaxLate]
    /\ undercut \subseteq Pods

\* p holds a guard, and its lease is not over on any clock
Protected(p) == guard[p].held /\ p \notin undercut /\ guard[p].left >= MaxSkew

(* As long as the lease of a guard is not over on any clock, the record in TiKV *)
(* is the guard's own, and lasts at least as long: no other pod steals, renews  *)
(* or releases it.  The exception is the pod's own late release, of a guard it  *)
(* dropped before.                                                              *)
LeaseBacked ==
    \A p \in Pods : Protected(p) =>
        /\ lock # NoLock /\ lock.owner = p
        /\ lock.left >= guard[p].left + Skew[p]

(* Two pods never both hold a guard whose lease is not over *)
MutualExclusion ==
    \A p, q \in Pods : Protected(p) /\ Protected(q) => p = q

\* What a leader does not notice: p scans under a guard that a task renews, and
\* the task was never late and never failed
Leads(p) == guard[p].held /\ guard[p].renews /\ guard[p].timely /\ p \notin undercut

\* With the scan interval of p, its first renewal comes before its lease ends on
\* the fastest clock
InTime(p) == RenewEvery + MaxSkew <= 3 * scan_interval[p]

(* A leader whose scan interval is in time keeps the lock for as long as its    *)
(* cycle takes, whatever the other pods do and whatever their intervals are:    *)
(* acquire_lock grants the lock to no other pod, and no other guard has a lease *)
(* that is not over                                                             *)
LeaderKeepsLock ==
    \A p, q \in Pods : InTime(p) /\ Leads(p) /\ q # p => ~Grants(q) /\ ~Protected(q)

(* The lock of a pod that dies or fails to release it is not lost: again and    *)
(* again some pod holds a guard, unless records go on being written that no     *)
(* guard knows of                                                               *)
LeaderReturns ==
    <>[][\A p \in Pods : ~AcquireOnly(p)]_vars => []<>(\E p \in Pods : guard[p].held)

\* The renewal task keeps up with the lease: what the proof adds to LeaseBacked
AheadOf(g, ttl) ==
    /\ g.left <= ttl
    /\ g.held /\ g.renews /\ g.timely => g.left >= g.due + ttl - RenewEvery

RenewalAhead == \A p \in Pods : AheadOf(guard[p], TTL(p))

IInv == TypeOK /\ LeaseBacked /\ RenewalAhead
-----------------------------------------------------------------------------
(* scanner.rs:979 "Keep lock held during entire cycle (scan + sleep) to prevent *)
(* other scanners from starting simultaneously", by a guard that renews itself  *)
(* "during long operations" (scanner.rs:313): whatever the scan intervals are,  *)
(* two scanners whose renewal tasks do their work are not leaders at once       *)
NoSecondScanner ==
    \A p, q \in Pods : Leads(p) /\ Leads(q) => p = q
=============================================================================
