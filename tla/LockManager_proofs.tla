-------------------------- MODULE LockManager_proofs --------------------------
(***************************************************************************)
(* Safety of the distributed lock for any set of pods, any scan intervals, *)
(* any renewal interval and any clock skew.                                *)
(***************************************************************************)
EXTENDS LockManager, TLAPS

USE SkewAssumption, LeaseAssumption, PodsAssumption, NoLockAssumption

(* The lease that try_become_leader computes is a number of ticks *)
LEMMA LeaseType == \A p \in Pods : TTL(p) \in Nat /\ TTL(p) >= 3 * scan_interval[p]
  BY DEF TTL

(* The records the code writes have their types *)
LEMMA Types ==
  /\ NoGuard \in Guard
  /\ \A p \in Pods, b \in BOOLEAN : LockGuard(p, b) \in Guard
  /\ \A p \in Pods : NewRecord(p) \in LockRecord
  <1>1. ASSUME NEW p \in Pods PROVE TTL(p) \in Nat /\ TTL(p) + Skew[p] \in Nat
    <2>1. TTL(p) \in Nat /\ Skew[p] \in Nat
      BY LeaseType
    <2> QED
      BY <2>1
  <1> QED
    BY <1>1 DEF NoGuard, LockGuard, Guard, NewRecord, LockRecord, Left

(* Initially nobody holds a guard *)
LEMMA InitIInv == Init => IInv
  BY Types, LeaseType DEF Init, IInv, TypeOK, LeaseBacked, Protected, RenewalAhead, AheadOf, NoGuard

(* A pod that is granted the lock takes it from no protected guard *)
LEMMA GrantIsSafe ==
  ASSUME IInv, NEW p \in Pods, Grants(p), NEW q \in Pods, Protected(q)
  PROVE  q = p
  <1>1. lock # NoLock /\ lock.owner = q /\ lock.left >= guard[q].left + Skew[q]
    BY DEF IInv, LeaseBacked
  <1>2. /\ guard[q].left \in Int /\ lock.left \in Int
        /\ Skew[p] \in Nat /\ Skew[p] <= MaxSkew /\ Skew[q] \in Nat
    BY <1>1 DEF IInv, TypeOK, Guard, LockRecord, Left
  <1>3. ~is_expired(p)
    BY <1>1, <1>2 DEF Protected, is_expired
  <1> QED
    BY <1>1, <1>3 DEF Grants

(* A transaction of acquire_lock, after which the guard of p is g, keeps the    *)
(* invariant                                                                    *)
LEMMA AcquireIInv ==
  ASSUME IInv, NEW p \in Pods, acquire_lock(p), NEW g \in Guard,
         guard' = [guard EXCEPT ![p] = g],
         AheadOf(g, TTL(p)), late' = late, undercut' \subseteq Pods, undercut \subseteq undercut' \cup {p}
  PROVE  IInv'
  <1>1. TypeOK'
    BY Types DEF IInv, TypeOK, acquire_lock
  <1>2. RenewalAhead'
    BY DEF IInv, TypeOK, RenewalAhead
  <1>3. LeaseBacked'
    <2> SUFFICES ASSUME NEW q \in Pods, Protected(q)'
                 PROVE  /\ lock' # NoLock /\ lock'.owner = q
                        /\ lock'.left >= guard'[q].left + Skew[q]
      BY DEF LeaseBacked
    <2>1. lock' # NoLock /\ lock'.owner = p /\ lock'.left = TTL(p) + Skew[p]
      BY Types DEF acquire_lock, NewRecord
    <2>2. q = p
      <3>1. ASSUME q # p PROVE Protected(q)
        BY <3>1 DEF IInv, TypeOK, Protected
      <3> QED
        BY <3>1, GrantIsSafe DEF acquire_lock
    <2>3. /\ guard'[q] = g /\ g.left <= TTL(p) /\ g.left \in Int
          /\ Skew[p] \in Int /\ TTL(p) \in Int
      BY <2>2, LeaseType DEF IInv, TypeOK, Guard, Left, AheadOf
    <2> QED
      BY <2>1, <2>2, <2>3
  <1> QED
    BY <1>1, <1>2, <1>3 DEF IInv

(* A step of p that gives up its guard, and may release the lock, keeps it *)
LEMMA GiveUpIInv ==
  ASSUME IInv, NEW p \in Pods, guard' = [guard EXCEPT ![p] = NoGuard],
         release_lock(p) \/ UNCHANGED lock, late' \in [Pods -> 0 .. MaxLate],
         UNCHANGED undercut
  PROVE  IInv'
  <1>1. TypeOK'
    BY Types DEF IInv, TypeOK, release_lock
  <1>2. RenewalAhead'
    <2>1. \A q \in Pods : AheadOf(NoGuard, TTL(q))
      BY LeaseType DEF AheadOf, NoGuard
    <2> QED
      BY <2>1 DEF IInv, TypeOK, RenewalAhead
  <1>3. LeaseBacked'
    <2> SUFFICES ASSUME NEW q \in Pods, Protected(q)'
                 PROVE  /\ lock' # NoLock /\ lock'.owner = q
                        /\ lock'.left >= guard'[q].left + Skew[q]
      BY DEF LeaseBacked
    <2>1. q # p /\ guard'[q] = guard[q] /\ Protected(q)
      BY DEF IInv, TypeOK, Protected, NoGuard
    <2>2. lock # NoLock /\ lock.owner = q /\ lock.left >= guard[q].left + Skew[q]
      BY <2>1 DEF IInv, LeaseBacked
    <2>3. lock' = lock
      BY <2>1, <2>2 DEF release_lock, is_owned_by
    <2> QED
      BY <2>1, <2>2, <2>3
  <1> QED
    BY <1>1, <1>2, <1>3 DEF IInv

(* A release that leaves the guards alone spares every protected guard *)
LEMMA StrayReleaseIInv ==
  ASSUME IInv, NEW p \in Pods, release_lock(p), undercut' = Undercut(p),
         late' \in [Pods -> 0 .. MaxLate], UNCHANGED guard
  PROVE  IInv'
  <1>1. TypeOK'
    BY DEF IInv, TypeOK, release_lock, Undercut
  <1>2. RenewalAhead'
    BY DEF IInv, RenewalAhead
  <1>3. LeaseBacked'
    <2> SUFFICES ASSUME NEW q \in Pods, Protected(q)'
                 PROVE  /\ lock' # NoLock /\ lock'.owner = q
                        /\ lock'.left >= guard'[q].left + Skew[q]
      BY DEF LeaseBacked
    <2>1. Protected(q) /\ (is_owned_by(p) => q # p)
      BY DEF Protected, Undercut
    <2>2. lock # NoLock /\ lock.owner = q /\ lock.left >= guard[q].left + Skew[q]
      BY <2>1 DEF IInv, LeaseBacked
    <2>3. lock' = lock
      BY <2>1, <2>2 DEF release_lock, is_owned_by
    <2> QED
      BY <2>2, <2>3
  <1> QED
    BY <1>1, <1>2, <1>3 DEF IInv

(* A step that only takes from the promises of p's guard keeps the invariant *)
LEMMA WeakerGuardIInv ==
  ASSUME IInv, NEW p \in Pods, NEW g \in Guard, guard' = [guard EXCEPT ![p] = g],
         g.held = guard[p].held, g.left = guard[p].left, ~g.renews \/ ~g.timely,
         UNCHANGED <<lock, late, undercut>>
  PROVE  IInv'
  <1>1. TypeOK'
    BY DEF IInv, TypeOK
  <1>2. RenewalAhead'
    <2>1. AheadOf(g, TTL(p))
      BY DEF IInv, RenewalAhead, AheadOf
    <2> QED
      BY <2>1 DEF IInv, TypeOK, RenewalAhead
  <1>3. LeaseBacked'
    BY DEF IInv, TypeOK, LeaseBacked, Protected
  <1> QED
    BY <1>1, <1>2, <1>3 DEF IInv

(* When a tick passes, the lock and the leases get older together *)
LEMMA TickIInv ==
  ASSUME IInv, Tick
  PROVE  IInv'
  <1>1. \A g \in Guard : Aged(g) \in Guard
    BY DEF Aged, Older, Guard, Left
  <1>2. TypeOK'
    <2>1. guard' \in [Pods -> Guard]
      BY <1>1 DEF IInv, TypeOK, Tick
    <2>2. ASSUME lock # NoLock PROVE lock' \in LockRecord
      <3>1. lock \in LockRecord /\ lock.left \in Left
        BY <2>2 DEF IInv, TypeOK, LockRecord
      <3>2. lock' = [lock EXCEPT !.left = Older(lock.left)]
        BY <2>2 DEF Tick
      <3>3. Older(lock.left) \in Left
        BY <3>1 DEF Older, Left
      <3> QED
        BY <3>1, <3>2, <3>3 DEF LockRecord
    <2> QED
      BY <2>1, <2>2 DEF IInv, TypeOK, Tick
  <1>3. ASSUME NEW p \in Pods, guard'[p].held
        PROVE  guard[p].held /\ guard[p] \in Guard /\ guard'[p] = Aged(guard[p])
    BY <1>3 DEF IInv, TypeOK, Tick
  <1>4. RenewalAhead'
    <2> SUFFICES ASSUME NEW p \in Pods PROVE AheadOf(guard'[p], TTL(p))
      BY DEF RenewalAhead
    <2>1. guard[p] \in Guard /\ AheadOf(guard[p], TTL(p)) /\ TTL(p) \in Nat
      BY LeaseType DEF IInv, TypeOK, RenewalAhead
    <2>2. \A g \in Guard : AheadOf(g, TTL(p)) => AheadOf(Aged(g), TTL(p))
      <3> SUFFICES ASSUME NEW g \in Guard, AheadOf(g, TTL(p)) PROVE AheadOf(Aged(g), TTL(p))
        OBVIOUS
      <3>1. /\ g.due \in Nat /\ g.left \in Int /\ g.left >= -1 /\ g.left <= TTL(p)
            /\ TTL(p) \in Nat /\ RenewEvery \in Nat
        BY <2>1 DEF Guard, Left, AheadOf
      <3>2. /\ Aged(g).left = Older(g.left) /\ Aged(g).held = g.held /\ Aged(g).renews = g.renews
            /\ Aged(g).timely = (g.timely /\ g.due > 0)
            /\ Aged(g).due = IF g.due = 0 THEN 0 ELSE g.due - 1
        BY DEF Aged
      <3>3. Aged(g).left \in Int /\ Aged(g).left <= TTL(p) /\ Aged(g).left >= g.left - 1
        BY <3>1, <3>2 DEF Older
      <3>4. ASSUME Aged(g).held, Aged(g).renews, Aged(g).timely
            PROVE  Aged(g).left >= Aged(g).due + TTL(p) - RenewEvery
        <4>1. g.held /\ g.renews /\ g.timely /\ g.due > 0
          BY <3>2, <3>4
        <4>2. g.left >= g.due + TTL(p) - RenewEvery /\ Aged(g).due = g.due - 1
          BY <3>1, <3>2, <4>1 DEF AheadOf
        <4> QED
          BY <3>1, <3>3, <4>2
      <3> QED
        BY <3>3, <3>4 DEF AheadOf
    <2>3. guard'[p] = guard[p] \/ guard'[p] = Aged(guard[p])
      BY DEF IInv, TypeOK, Tick
    <2> QED
      BY <2>1, <2>2, <2>3
  <1>5. LeaseBacked'
    <2> SUFFICES ASSUME NEW q \in Pods, Protected(q)'
                 PROVE  /\ lock' # NoLock /\ lock'.owner = q
                        /\ lock'.left >= guard'[q].left + Skew[q]
      BY DEF LeaseBacked
    <2> DEFINE g == guard[q]
    <2>1. g \in Guard /\ guard'[q] = Aged(g) /\ g.held /\ q \notin undercut
      BY <1>3 DEF Protected, Tick
    <2>2. g.left \in Int /\ guard'[q].left = Older(g.left) /\ guard'[q].left >= MaxSkew
      BY <2>1 DEF Aged, Guard, Left, Protected
    <2>3. guard'[q].left = g.left - 1 /\ g.left > MaxSkew
      BY <2>2 DEF Older
    <2>4. lock # NoLock /\ lock.owner = q /\ lock.left >= g.left + Skew[q] /\ lock \in LockRecord
      BY <2>1, <2>2, <2>3 DEF IInv, TypeOK, LeaseBacked, Protected
    <2>5. lock.left \in Int /\ Skew[q] \in Nat
      BY <2>4 DEF LockRecord, Left
    <2>6. lock' = [lock EXCEPT !.left = Older(lock.left)]
      BY <2>4 DEF Tick
    <2>a. lock'.owner = q /\ lock'.left = Older(lock.left)
      BY <2>4, <2>6 DEF LockRecord
    <2>b. lock' \in LockRecord
      <3>1. Older(lock.left) \in Left
        BY <2>4 DEF Older, LockRecord, Left
      <3> QED
        BY <2>4, <2>6, <3>1 DEF LockRecord
    <2>7. lock'.owner = q /\ lock'.left = Older(lock.left) /\ lock' # NoLock
      BY <2>a, <2>b
    <2>8. lock'.left = lock.left - 1
      BY <2>2, <2>3, <2>4, <2>5, <2>7 DEF Older
    <2> HIDE DEF g
    <2> QED
      BY <2>2, <2>3, <2>4, <2>5, <2>7, <2>8
  <1> QED
    BY <1>2, <1>4, <1>5 DEF IInv

(* Every step keeps the invariant *)
LEMMA NextIInv == IInv /\ [Next]_vars => IInv'
  <1> SUFFICES ASSUME IInv, [Next]_vars PROVE IInv'
    OBVIOUS
  <1>1. CASE UNCHANGED vars
    BY <1>1 DEF vars, IInv, TypeOK, LeaseBacked, Protected, RenewalAhead
  <1>2. CASE Tick
    BY <1>2, TickIInv
  <1>3. ASSUME NEW p \in Pods, PodStep(p) PROVE IInv'
    <2>0. /\ guard \in [Pods -> Guard] /\ guard[p] \in Guard
          /\ late \in [Pods -> 0 .. MaxLate] /\ undercut \subseteq Pods
      BY DEF IInv, TypeOK
    <2>1. CASE acquire(p)
      <3>1. PICK b \in BOOLEAN : guard' = [guard EXCEPT ![p] = LockGuard(p, b)]
        BY <2>1 DEF acquire
      <3>2. LockGuard(p, b) \in Guard /\ AheadOf(LockGuard(p, b), TTL(p))
        BY Types, LeaseType DEF LockGuard, AheadOf
      <3> QED
        BY <2>0, <2>1, <3>1, <3>2, AcquireIInv DEF acquire
    <2>2. CASE AcquireOnly(p)
      <3>1. guard' = [guard EXCEPT ![p] = guard[p]]
        BY <2>0, <2>2 DEF AcquireOnly
      <3>2. AheadOf(guard[p], TTL(p))
        BY DEF IInv, RenewalAhead
      <3> QED
        BY <2>0, <2>2, <3>1, <3>2, AcquireIInv DEF AcquireOnly
    <2>3. CASE Renew(p)
      <3>1. CASE acquire_lock(p) /\ guard' = [guard EXCEPT ![p] = Renewed(p, TRUE)]
        <4> DEFINE g == Renewed(p, TRUE)
        <4>1. g \in Guard /\ AheadOf(g, TTL(p))
          <5>1. guard[p].timely \in BOOLEAN /\ TTL(p) \in Nat
            BY <2>0, LeaseType DEF Guard
          <5> QED
            BY <5>1 DEF Renewed, Guard, Left, AheadOf
        <4> HIDE DEF g
        <4> QED
          BY <2>0, <2>3, <3>1, <4>1, AcquireIInv DEF Renew, g
      <3>2. CASE UNCHANGED lock /\ guard' = [guard EXCEPT ![p] = Renewed(p, FALSE)]
        <4>1. /\ Renewed(p, FALSE) \in Guard /\ ~Renewed(p, FALSE).timely
              /\ Renewed(p, FALSE).held = guard[p].held
              /\ Renewed(p, FALSE).left = guard[p].left
          <5>1. guard[p].left \in Left /\ guard[p].held = TRUE
            BY <2>0, <2>3 DEF Guard, Renew
          <5>2. /\ ~Renewed(p, FALSE).timely /\ Renewed(p, FALSE).held = TRUE
                /\ Renewed(p, FALSE).left = guard[p].left
            BY DEF Renewed
          <5>3. Renewed(p, FALSE) \in Guard
            BY <5>1 DEF Renewed, Guard
          <5> QED
            BY <5>1, <5>2, <5>3
        <4> QED
          BY <2>3, <3>2, <4>1, WeakerGuardIInv DEF Renew
      <3>3. CASE /\ guard' = [guard EXCEPT ![p] = [guard[p] EXCEPT !.renews = FALSE]]
                 /\ UNCHANGED lock
        <4> DEFINE g == [guard[p] EXCEPT !.renews = FALSE]
        <4>1. g \in Guard /\ ~g.renews /\ g.held = guard[p].held /\ g.left = guard[p].left
          BY <2>0 DEF Guard
        <4> HIDE DEF g
        <4> QED
          BY <2>3, <3>3, <4>1, WeakerGuardIInv DEF Renew, g
      <3> QED
        BY <2>3, <3>1, <3>2, <3>3 DEF Renew
    <2>4. CASE renew(p)
      <3> DEFINE g == [guard[p] EXCEPT !.left = TTL(p)]
      <3>1. g \in Guard /\ g.left = TTL(p) /\ g.due \in 0 .. RenewEvery /\ TTL(p) \in Nat
        BY <2>0, LeaseType DEF Guard, Left
      <3>2. guard' = [guard EXCEPT ![p] = g]
        BY <2>4 DEF renew
      <3> HIDE DEF g
      <3>3. AheadOf(g, TTL(p))
        BY <3>1 DEF AheadOf
      <3> QED
        BY <2>0, <2>4, <3>1, <3>2, <3>3, AcquireIInv DEF renew
    <2>5. CASE release(p)
      BY <2>0, <2>5, GiveUpIInv DEF release
    <2>6. CASE Drop(p)
      <3>1. late' \in [Pods -> 0 .. MaxLate]
        BY <2>0, <2>6 DEF Drop
      <3> QED
        BY <2>6, <3>1, GiveUpIInv DEF Drop
    <2>7. CASE LateRelease(p)
      <3>1. late' \in [Pods -> 0 .. MaxLate]
        BY <2>0, <2>7 DEF LateRelease
      <3> QED
        BY <2>7, <3>1, StrayReleaseIInv DEF LateRelease
    <2>8. CASE manager_release(p)
      BY <2>0, <2>8, StrayReleaseIInv DEF manager_release
    <2>9. CASE Crash(p)
      <3>1. late' \in [Pods -> 0 .. MaxLate]
        BY <2>0, <2>9 DEF Crash
      <3> QED
        BY <2>9, <3>1, GiveUpIInv DEF Crash
    <2> QED
      BY <1>3, <2>1, <2>2, <2>3, <2>4, <2>5, <2>6, <2>7, <2>8, <2>9 DEF PodStep
  <1> QED
    BY <1>1, <1>2, <1>3 DEF Next

(* The inductive invariant of the lock holds in every reachable state *)
LEMMA Invariance == Spec => []IInv
  BY InitIInv, NextIInv, PTL DEF Spec

(* While the lease of a guard is not over on any clock, the lock in TiKV is its *)
(* own and lasts as long: acquire_lock of another pod returns false             *)
THEOREM LeasesBacked == Spec => []LeaseBacked
  <1>1. IInv => LeaseBacked
    BY DEF IInv
  <1> QED
    BY <1>1, Invariance, PTL

(* Two pods never both hold a guard whose lease is not over: two scanners are   *)
(* not leaders at the same time                                                 *)
THEOREM LockExclusive == Spec => []MutualExclusion
  <1>1. IInv => MutualExclusion
    BY DEF IInv, LeaseBacked, MutualExclusion
  <1> QED
    BY <1>1, Invariance, PTL

(* A leader with an interval that is in time, and a renewal task that keeps its *)
(* interval, cannot be displaced: the lease computed from the scan interval     *)
(* outlasts the renewal interval on every clock, so that the record stays the   *)
(* leader's own                                                                 *)
THEOREM LeaderStays == Spec => []LeaderKeepsLock
  <1>1. IInv => LeaderKeepsLock
    <2> SUFFICES ASSUME IInv, NEW p \in Pods, NEW q \in Pods, InTime(p), Leads(p), q # p
                 PROVE  ~Grants(q) /\ ~Protected(q)
      BY DEF LeaderKeepsLock
    <2>1. /\ guard[p].left \in Int /\ guard[p].due \in Nat
          /\ TTL(p) \in Nat /\ TTL(p) >= 3 * scan_interval[p]
          /\ guard[p].left >= guard[p].due + TTL(p) - RenewEvery
      BY LeaseType DEF IInv, TypeOK, Guard, Left, RenewalAhead, AheadOf, Leads
    <2>2. guard[p].left >= MaxSkew
      BY <2>1 DEF InTime
    <2>3. Protected(p)
      BY <2>2 DEF Protected, Leads
    <2> QED
      BY <2>3, GrantIsSafe DEF IInv, LeaseBacked
  <1> QED
    BY <1>1, Invariance, PTL
=============================================================================
