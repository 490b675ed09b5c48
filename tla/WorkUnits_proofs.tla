-------------------------- MODULE WorkUnits_proofs --------------------------
(***************************************************************************)
(* Proofs about WorkUnits, for every set of units, workers and reapers and *)
(* every bound.  The inductive invariant is IInv: see WorkerInv for what   *)
(* it adds to the invariants it implies.                                   *)
(***************************************************************************)
EXTENDS WorkUnits, TLAPS

\* The outcomes written by complete_work_unit and fail_work_unit are records
\* WorkUnit's transitions can produce, provided the unit was claimed before.
LEMMA OutcomeConsistent ==
    ASSUME NEW u \in Record, u.attempts \in 1..MaxAttempts
    PROVE  /\ complete(u) \in Record
           /\ complete(u).status = "Complete" /\ complete(u).owner = None
           /\ complete(u).attempts = u.attempts
           /\ fail(u) \in Record
           /\ fail(u).status \in {"Failed", "Dead"} /\ fail(u).owner = None
           /\ fail(u).attempts = u.attempts
           /\ fail(u).status = "Failed" => u.attempts < MaxAttempts
           /\ fail(u).status = "Dead" => u.attempts = MaxAttempts
  BY BoundsAssumption DEF complete, fail, Record, Status

\* A claim produces a Processing record owned by the claimant, one attempt later.
LEMMA ClaimConsistent ==
    ASSUME NEW u \in Record, is_claimable(u), NEW w \in Workers
    PROVE  /\ claim(u, w) \in Record
           /\ claim(u, w).status = "Processing" /\ claim(u, w).owner = w
           /\ claim(u, w).attempts = u.attempts + 1
           /\ claim(u, w).attempts \in 1..MaxAttempts
  BY BoundsAssumption DEF claim, is_claimable, Record, Status

\* The initial states satisfy the invariant.
LEMMA InitIInv == Init => IInv
  BY WorkersAssumption, BoundsAssumption
  DEF Init, IInv, TypeOK, RecordConsistent, WorkerInv, ClaimExclusive,
      AttemptsCountRuns, Executing, NoRecord, Resting, Record, Status, WorkerPC,
      WorkerState, ReaperState

\* Steps that leave the units alone and change one worker: the invariant depends
\* only on what the new control state of that worker promises.
LEMMA WorkerMoves ==
    ASSUME IInv, NEW w \in Workers, NEW s \in WorkerState,
           wk' = [wk EXCEPT ![w] = s],
           UNCHANGED <<unit, heartbeat, rp, runs, reapedLive>>,
           pending' \subseteq Units,
           s.pc \in {"claiming", "requeue"} => s.unit \in Units,
           s.pc = "claiming" => s.active < MaxJobs,
           s.pc = "requeue" => s.active >= 1,
           s.pc \in {"claimed", "processing", "completing", "failing"} =>
               /\ Executing(w, s.unit)
               /\ s.unit \in Units
               /\ s.active >= 1,
           s.pc \in {"completing", "failing"} => s.snap = unit[s.unit]
    PROVE  IInv'
  <1> USE DEF IInv
  <1>1. TypeOK'
    BY DEF TypeOK
  <1>2. RecordConsistent'
    BY DEF RecordConsistent
  <1>3. WorkerInv'
    <2> SUFFICES ASSUME NEW x \in Workers
                 PROVE  WorkerInv!(x)'
      BY DEF WorkerInv
    <2>1. CASE x # w
      BY <2>1 DEF WorkerInv, TypeOK
    <2>2. CASE x = w
      BY <2>2 DEF WorkerInv, TypeOK, RecordConsistent, Executing, Record
    <2> QED BY <2>1, <2>2
  <1>4. ClaimExclusive'
    <2>1. \A x \in Workers, u \in Units : Executing(x, u)' => Executing(x, u)
      BY DEF Executing, TypeOK
    <2> QED BY <2>1 DEF ClaimExclusive
  <1>5. AttemptsCountRuns'
    BY DEF AttemptsCountRuns
  <1> QED BY <1>1, <1>2, <1>3, <1>4, <1>5

\* A worker that leaves for a resting state holds nothing.
LEMMA RestingState ==
    ASSUME NEW pc \in WorkerPC, NEW a \in 0..MaxJobs, NEW b \in BOOLEAN
    PROVE  /\ Resting(pc, a, b) \in WorkerState
           /\ Resting(pc, a, b).pc = pc
  BY DEF Resting, WorkerState, NoRecord, Record, Status

\* A claiming worker that moves on with its unit, counting one more job.
LEMMA ClaimedState ==
    ASSUME NEW s \in WorkerState, NEW n \in 0..MaxJobs
    PROVE  LET c == [s EXCEPT !.pc = "claimed", !.active = n]
           IN  c \in WorkerState /\ c.pc = "claimed" /\ c.unit = s.unit /\ c.active = n
  BY DEF WorkerState, WorkerPC

\* Writing an outcome of unit u by a worker w that was on it: w lets go of u, and
\* nobody else was on it unless it had been reaped from a live worker.
LEMMA OutcomeWritten ==
    ASSUME IInv, NEW w \in Workers, NEW u \in Units, Executing(w, u),
           NEW r \in Record, r.owner = None,
           r.status \in {"Complete", "Failed", "Dead"},
           r.attempts \in 1..MaxAttempts,
           r.status = "Failed" => r.attempts < MaxAttempts,
           r.status = "Dead" => r.attempts = MaxAttempts,
           u \notin reapedLive => r.attempts = unit[u].attempts,
           NEW s \in WorkerState, s.pc \in {"idle", "requeue", "wedged"},
           s.pc = "requeue" => s.unit \in Units /\ s.active >= 1,
           unit' = [unit EXCEPT ![u] = r],
           wk' = [wk EXCEPT ![w] = s],
           UNCHANGED <<pending, heartbeat, rp, runs, reapedLive>>
    PROVE  IInv'
  <1> USE DEF IInv
  <1>1. TypeOK'
    BY DEF TypeOK
  <1>2. RecordConsistent'
    BY BoundsAssumption DEF RecordConsistent, TypeOK, Record
  <1>3. \A x \in Workers, v \in Units :
           Executing(x, v)' => Executing(x, v) /\ x # w
    BY DEF Executing, TypeOK
  <1>4. WorkerInv'
    <2> SUFFICES ASSUME NEW x \in Workers
                 PROVE  WorkerInv!(x)'
      BY DEF WorkerInv
    <2>1. CASE x = w
      BY <2>1 DEF WorkerInv, TypeOK
    <2>2. CASE x # w
      <3>1. wk'[x] = wk[x]
        BY <2>2 DEF TypeOK
      <3>2. CASE wk[x].pc \in {"claimed", "processing", "completing", "failing"} /\ wk[x].unit = u
        <4>1. Executing(x, u) /\ u \in reapedLive
          BY <2>2, <3>2 DEF Executing, ClaimExclusive
        <4> QED
          BY <3>1, <4>1, <3>2, BoundsAssumption DEF WorkerInv, TypeOK
      <3>3. CASE ~(wk[x].pc \in {"claimed", "processing", "completing", "failing"} /\ wk[x].unit = u)
        BY <3>1, <3>3 DEF WorkerInv, TypeOK
      <3> QED BY <3>2, <3>3
    <2> QED BY <2>1, <2>2
  <1>5. ClaimExclusive'
    <2> SUFFICES ASSUME NEW v \in Units, v \notin reapedLive,
                        NEW x \in Workers, Executing(x, v)'
                 PROVE  /\ unit'[v].status = "Processing" /\ unit'[v].owner = x
                        /\ \A y \in Workers : Executing(y, v)' => y = x
      BY DEF ClaimExclusive
    <2>1. Executing(x, v) /\ x # w
      BY <1>3
    <2>2. v # u
      BY <2>1 DEF ClaimExclusive
    <2> QED
      BY <1>3, <2>1, <2>2 DEF ClaimExclusive, TypeOK
  <1>6. AttemptsCountRuns'
    BY DEF AttemptsCountRuns, TypeOK
  <1> QED BY <1>1, <1>2, <1>4, <1>5, <1>6

\* A claim of u by w: nobody was on u, unless it had been reaped from a live
\* worker.  w is on it from now on, or lost the answer and wedges.
LEMMA ClaimTaken ==
    ASSUME IInv, NEW w \in Workers, NEW u \in Units, wk[w].pc = "claiming",
           is_claimable(unit[u]),
           NEW s \in WorkerState,
           \/ s.pc = "claimed" /\ s.unit = u /\ s.active >= 1
           \/ s.pc = "wedged",
           unit' = [unit EXCEPT ![u] = claim(unit[u], w)],
           pending' \subseteq Units,
           runs' = [runs EXCEPT ![u] = IF runs[u] > MaxAttempts THEN runs[u]
                                       ELSE runs[u] + 1],
           wk' = [wk EXCEPT ![w] = s],
           UNCHANGED <<heartbeat, rp, reapedLive>>
    PROVE  IInv'
  <1> USE DEF IInv
  <1> DEFINE r == claim(unit[u], w)
  <1>0. /\ r \in Record /\ r.status = "Processing" /\ r.owner = w
        /\ r.attempts = unit[u].attempts + 1 /\ r.attempts \in 1..MaxAttempts
    BY ClaimConsistent DEF TypeOK
  <1>1. unit' = [unit EXCEPT ![u] = r]
    OBVIOUS
  <1>2. unit[u].status # "Processing" /\ unit[u].attempts < MaxAttempts
    BY DEF is_claimable
  <1> HIDE DEF r
  <1>3. TypeOK'
    BY <1>0, <1>1, BoundsAssumption DEF TypeOK
  <1>4. RecordConsistent'
    BY <1>0, <1>1, WorkersAssumption, BoundsAssumption DEF RecordConsistent, TypeOK, Record
  <1>5. \A x \in Workers \ {w} : wk'[x] = wk[x]
    BY DEF TypeOK
  <1>6. wk'[w] = s
    BY DEF TypeOK
  <1>7. WorkerInv'
    <2> SUFFICES ASSUME NEW x \in Workers
                 PROVE  WorkerInv!(x)'
      BY DEF WorkerInv
    <2>1. CASE x = w
      BY <2>1, <1>0, <1>1, <1>6 DEF WorkerInv, TypeOK
    <2>2. CASE x # w
      <3>1. CASE wk[x].pc \in {"claimed", "processing", "completing", "failing"} /\ wk[x].unit = u
        <4>1. Executing(x, u) /\ u \in reapedLive
          BY <3>1, <1>2 DEF Executing, ClaimExclusive
        <4> QED
          BY <2>2, <3>1, <4>1, <1>0, <1>1, <1>5 DEF WorkerInv, TypeOK
      <3>2. CASE ~(wk[x].pc \in {"claimed", "processing", "completing", "failing"} /\ wk[x].unit = u)
        BY <2>2, <3>2, <1>1, <1>5 DEF WorkerInv, TypeOK
      <3> QED BY <3>1, <3>2
    <2> QED BY <2>1, <2>2
  <1>8. ClaimExclusive'
    <2>1. \A x \in Workers, v \in Units :
             Executing(x, v)' => \/ x # w /\ Executing(x, v)
                                 \/ x = w /\ v = u
      BY <1>5, <1>6 DEF Executing
    <2>2. \A x \in Workers : u \notin reapedLive => ~Executing(x, u)
      BY <1>2 DEF ClaimExclusive
    <2> QED
      BY <2>1, <2>2, <1>0, <1>1 DEF ClaimExclusive, TypeOK
  <1>9. AttemptsCountRuns'
    BY <1>0, <1>1, <1>2, BoundsAssumption DEF AttemptsCountRuns, TypeOK, Record
  <1> QED BY <1>3, <1>4, <1>7, <1>8, <1>9

\* The reclaim transaction on a unit u its reaper found Processing.
LEMMA ReclaimTaken ==
    ASSUME IInv, NEW u \in Units, unit[u].status = "Processing",
           unit' = [unit EXCEPT ![u] = fail(unit[u])],
           reapedLive' = IF \E x \in Workers : Executing(x, u)
                         THEN reapedLive \cup {u} ELSE reapedLive,
           rp' \in [Reapers -> ReaperState],
           UNCHANGED <<pending, heartbeat, wk, runs>>
    PROVE  IInv'
  <1> USE DEF IInv
  <1> DEFINE r == fail(unit[u])
  <1>0. /\ r \in Record /\ r.status \in {"Failed", "Dead"} /\ r.owner = None
        /\ r.attempts = unit[u].attempts /\ r.attempts \in 1..MaxAttempts
        /\ r.status = "Failed" => r.attempts < MaxAttempts
        /\ r.status = "Dead" => r.attempts = MaxAttempts
    <2>1. unit[u] \in Record /\ unit[u].attempts \in 1..MaxAttempts
      BY BoundsAssumption DEF TypeOK, RecordConsistent, Record
    <2> QED BY <2>1, OutcomeConsistent
  <1>1. unit' = [unit EXCEPT ![u] = r]
    OBVIOUS
  <1> HIDE DEF r
  <1>2. TypeOK'
    BY <1>0, <1>1 DEF TypeOK
  <1>3. RecordConsistent'
    BY <1>0, <1>1, BoundsAssumption DEF RecordConsistent, TypeOK, Record
  <1>4. reapedLive \subseteq reapedLive'
    OBVIOUS
  <1>5. \A x \in Workers, v \in Units : Executing(x, v)' <=> Executing(x, v)
    BY DEF Executing
  <1>6. \A x \in Workers : Executing(x, u) => u \in reapedLive'
    OBVIOUS
  <1>7. WorkerInv'
    <2> SUFFICES ASSUME NEW x \in Workers
                 PROVE  WorkerInv!(x)'
      BY DEF WorkerInv
    <2>1. CASE Executing(x, u)
      BY <2>1, <1>0, <1>1, <1>4, <1>6 DEF WorkerInv, TypeOK, Executing
    <2>2. CASE ~Executing(x, u)
      BY <2>2, <1>1, <1>4 DEF WorkerInv, TypeOK, Executing
    <2> QED BY <2>1, <2>2
  <1>8. ClaimExclusive'
    BY <1>1, <1>4, <1>5, <1>6 DEF ClaimExclusive, TypeOK
  <1>9. AttemptsCountRuns'
    BY <1>0, <1>1, <1>4 DEF AttemptsCountRuns, TypeOK
  <1> QED BY <1>2, <1>3, <1>7, <1>8, <1>9

\* Steps of the heartbeats and of the reapers that leave units and workers alone.
LEMMA BystanderMoves ==
    ASSUME IInv, UNCHANGED <<unit, pending, wk, runs, reapedLive>>,
           heartbeat' \in [Workers -> {"none", "fresh", "stale"}],
           rp' \in [Reapers -> ReaperState]
    PROVE  IInv'
  <1>1. TypeOK'
    BY DEF IInv, TypeOK
  <1>2. (RecordConsistent /\ WorkerInv /\ ClaimExclusive /\ AttemptsCountRuns)'
    BY DEF IInv, RecordConsistent, WorkerInv, ClaimExclusive, AttemptsCountRuns, Executing
  <1> QED BY <1>1, <1>2 DEF IInv

\* Every step of a worker's main loop preserves the invariant.
LEMMA LoopStepIInv ==
    ASSUME IInv, NEW w \in Workers, LoopStep(w)
    PROVE  IInv'
  <1> DEFINE wedged == Resting("wedged", wk[w].active, wk[w].shutdown)
  <1>0. /\ wk[w] \in WorkerState /\ wk[w].active \in 0..MaxJobs
        /\ wk[w].shutdown \in BOOLEAN /\ pending \subseteq Units
    BY DEF IInv, TypeOK, WorkerState
  <1>w. wedged \in WorkerState /\ wedged.pc = "wedged"
    BY <1>0, RestingState DEF WorkerPC
  <1>i. \A a \in 0..MaxJobs : Idle(w, a) \in WorkerState /\ Idle(w, a).pc = "idle"
    BY <1>0, RestingState DEF WorkerPC, Idle
  <1> HIDE DEF wedged
  <1>1. CASE ScanPending(w)
    <2>1. PICK u \in pending : wk' = [wk EXCEPT ![w].pc = "claiming", ![w].unit = u]
      BY <1>1 DEF ScanPending
    <2> DEFINE s == [wk[w] EXCEPT !.pc = "claiming", !.unit = u]
    <2>2. s \in WorkerState /\ s.pc = "claiming" /\ s.unit \in Units /\ s.active < MaxJobs
      BY <1>0, <1>1 DEF ScanPending, WorkerState, WorkerPC
    <2>3. wk' = [wk EXCEPT ![w] = s]
      BY <2>1 DEF IInv, TypeOK, WorkerState
    <2> HIDE DEF s
    <2> QED
      BY <2>2, <2>3, <1>1, <1>0, WorkerMoves DEF ScanPending, tikv, ghosts
  <1>2. CASE Claim(w)
    <2> DEFINE u == wk[w].unit
    <2>1. u \in Units /\ wk[w].pc = "claiming" /\ wk[w].active < MaxJobs
      BY <1>2 DEF Claim, IInv, WorkerInv
    <2>2. CASE is_claimable(unit[u])
      <3> DEFINE c == [wk[w] EXCEPT !.pc = "claimed", !.active = @ + 1]
      <3>1. /\ unit' = [unit EXCEPT ![u] = claim(unit[u], w)]
            /\ pending' = pending \ {u}
            /\ runs' = [runs EXCEPT ![u] = IF runs[u] > MaxAttempts THEN runs[u]
                                           ELSE runs[u] + 1]
            /\ wk' = [wk EXCEPT ![w] = c] \/ wk' = [wk EXCEPT ![w] = wedged]
            /\ UNCHANGED <<heartbeat, rp, reapedLive>>
        BY <1>2, <2>2 DEF Claim, After, wedged
      <3>2. c \in WorkerState /\ c.pc = "claimed" /\ c.unit = u /\ c.active >= 1
        <4>1. wk[w].active + 1 \in 0..MaxJobs /\ wk[w].active + 1 >= 1
          BY <1>0, <2>1, BoundsAssumption
        <4> QED
          BY <4>1, <1>0, ClaimedState
      <3>3. pending' \subseteq Units
        BY <1>0, <3>1
      <3> HIDE DEF c, u
      <3>4. CASE wk' = [wk EXCEPT ![w] = c]
        BY <3>1, <3>2, <3>3, <3>4, <2>1, <2>2, ClaimTaken
      <3>5. CASE wk' = [wk EXCEPT ![w] = wedged]
        BY <3>1, <1>w, <3>3, <3>5, <2>1, <2>2, ClaimTaken
      <3> QED BY <3>1, <3>4, <3>5
    <2>3. CASE ~is_claimable(unit[u])
      <3> DEFINE s == Resting("waiting", wk[w].active, wk[w].shutdown)
      <3>1. /\ UNCHANGED <<unit, pending, heartbeat, rp, runs, reapedLive>>
            /\ wk' = [wk EXCEPT ![w] = s] \/ wk' = [wk EXCEPT ![w] = wedged]
        BY <1>2, <2>3 DEF Claim, After, wedged
      <3>2. s \in WorkerState /\ s.pc = "waiting"
        BY <1>0, RestingState DEF WorkerPC
      <3> HIDE DEF s
      <3> QED
        BY <3>1, <3>2, <1>0, <1>w, WorkerMoves
    <2> QED BY <2>2, <2>3
  <1>3. CASE StartProcessing(w)
    <2>1. CASE wk[w].shutdown
      <3> DEFINE s == Resting("stopped", wk[w].active, TRUE)
      <3>1. s \in WorkerState /\ s.pc = "stopped"
        BY <1>0, RestingState DEF WorkerPC
      <3>2. wk' = [wk EXCEPT ![w] = s] /\ UNCHANGED <<unit, pending, heartbeat, rp, runs, reapedLive>>
        BY <1>3, <2>1 DEF StartProcessing, tikv, ghosts
      <3> HIDE DEF s
      <3> QED BY <3>1, <3>2, <1>0, WorkerMoves
    <2>2. CASE ~wk[w].shutdown
      <3> DEFINE s == [wk[w] EXCEPT !.pc = "processing"]
      <3>1. /\ s \in WorkerState /\ s.pc = "processing" /\ s.unit \in Units
            /\ Executing(w, s.unit) /\ s.active >= 1
        BY <1>0, <1>3 DEF StartProcessing, WorkerState, WorkerPC, IInv, WorkerInv, Executing
      <3>2. wk' = [wk EXCEPT ![w] = s] /\ UNCHANGED <<unit, pending, heartbeat, rp, runs, reapedLive>>
        BY <1>3, <2>2 DEF StartProcessing, tikv, ghosts
      <3> HIDE DEF s
      <3> QED BY <3>1, <3>2, <1>0, WorkerMoves
    <2> QED BY <2>1, <2>2
  <1>4. CASE ReadForComplete(w) \/ ReadForFail(w)
    <2>1. PICK pc \in {"completing", "failing"} :
             wk' = [wk EXCEPT ![w].pc = pc, ![w].snap = unit[wk[w].unit]]
      BY <1>4 DEF ReadForComplete, ReadForFail
    <2>2. /\ wk[w].pc = "processing" /\ wk[w].unit \in Units /\ wk[w].active >= 1
          /\ UNCHANGED <<unit, pending, heartbeat, rp, runs, reapedLive>>
      BY <1>4 DEF ReadForComplete, ReadForFail, IInv, WorkerInv, tikv, ghosts
    <2> DEFINE s == [wk[w] EXCEPT !.pc = pc, !.snap = unit[wk[w].unit]]
    <2>3. /\ s \in WorkerState /\ s.pc = pc /\ s.unit \in Units /\ s.active >= 1
          /\ Executing(w, s.unit) /\ s.snap = unit[s.unit]
      BY <1>0, <2>2 DEF WorkerState, WorkerPC, IInv, TypeOK, Executing
    <2>4. wk' = [wk EXCEPT ![w] = s]
      BY <2>1 DEF IInv, TypeOK, WorkerState
    <2> HIDE DEF s
    <2> QED BY <2>2, <2>3, <2>4, <1>0, WorkerMoves
  <1>5. CASE Complete(w)
    <2> DEFINE u == wk[w].unit
               r == complete(wk[w].snap)
    <2>1. /\ u \in Units /\ Executing(w, u) /\ wk[w].snap \in Record
          /\ wk[w].snap.attempts \in 1..MaxAttempts /\ wk[w].active - 1 \in 0..MaxJobs
          /\ u \notin reapedLive => wk[w].snap = unit[u]
      BY <1>0, <1>5, BoundsAssumption DEF Complete, IInv, WorkerInv, Executing, WorkerState
    <2>2. /\ r \in Record /\ r.status = "Complete" /\ r.owner = None
          /\ r.attempts = wk[w].snap.attempts
      BY <2>1, OutcomeConsistent
    <2>3. /\ unit' = [unit EXCEPT ![u] = r]
          /\ \/ wk' = [wk EXCEPT ![w] = Idle(w, wk[w].active - 1)]
             \/ wk' = [wk EXCEPT ![w] = wedged]
          /\ UNCHANGED <<pending, heartbeat, rp, runs, reapedLive>>
      BY <1>5 DEF Complete, After, wedged, ghosts
    <2> HIDE DEF u, r
    <2>4. u \notin reapedLive => r.attempts = unit[u].attempts
      BY <2>1, <2>2
    <2>5. CASE wk' = [wk EXCEPT ![w] = Idle(w, wk[w].active - 1)]
      <3>1. Idle(w, wk[w].active - 1) \in WorkerState /\ Idle(w, wk[w].active - 1).pc = "idle"
        BY <2>1, <1>i
      <3> QED BY <3>1, <2>1, <2>2, <2>3, <2>4, <2>5, OutcomeWritten
    <2>6. CASE wk' = [wk EXCEPT ![w] = wedged]
      BY <1>w, <2>1, <2>2, <2>3, <2>4, <2>6, OutcomeWritten
    <2> QED BY <2>3, <2>5, <2>6
  <1>6. CASE Fail(w)
    <2> DEFINE u == wk[w].unit
               r == fail(wk[w].snap)
               q == [wk[w] EXCEPT !.pc = "requeue", !.snap = NoRecord]
    <2>1. /\ u \in Units /\ Executing(w, u) /\ wk[w].snap \in Record
          /\ wk[w].snap.attempts \in 1..MaxAttempts /\ wk[w].active - 1 \in 0..MaxJobs
          /\ u \notin reapedLive => wk[w].snap = unit[u]
          /\ wk[w].active >= 1
      BY <1>0, <1>6, BoundsAssumption DEF Fail, IInv, WorkerInv, Executing, WorkerState
    <2>2. /\ r \in Record /\ r.status \in {"Failed", "Dead"} /\ r.owner = None
          /\ r.attempts = wk[w].snap.attempts
          /\ r.status = "Failed" => r.attempts < MaxAttempts
          /\ r.status = "Dead" => r.attempts = MaxAttempts
      BY <2>1, OutcomeConsistent
    <2>3. /\ unit' = [unit EXCEPT ![u] = r]
          /\ \/ wk' = [wk EXCEPT ![w] = q]
             \/ wk' = [wk EXCEPT ![w] = Idle(w, wk[w].active - 1)]
             \/ wk' = [wk EXCEPT ![w] = wedged]
          /\ UNCHANGED <<pending, heartbeat, rp, runs, reapedLive>>
      BY <1>6 DEF Fail, After, wedged, ghosts
    <2>q. q \in WorkerState /\ q.pc = "requeue" /\ q.unit \in Units /\ q.active >= 1
      BY <1>0, <2>1 DEF WorkerState, WorkerPC, NoRecord, Record, Status
    <2> HIDE DEF u, r, q
    <2>4. u \notin reapedLive => r.attempts = unit[u].attempts
      BY <2>1, <2>2
    <2>5. CASE wk' = [wk EXCEPT ![w] = q]
      BY <2>q, <2>1, <2>2, <2>3, <2>4, <2>5, OutcomeWritten
    <2>6. CASE wk' = [wk EXCEPT ![w] = Idle(w, wk[w].active - 1)]
      <3>1. Idle(w, wk[w].active - 1) \in WorkerState /\ Idle(w, wk[w].active - 1).pc = "idle"
        BY <2>1, <1>i
      <3> QED BY <3>1, <2>1, <2>2, <2>3, <2>4, <2>6, OutcomeWritten
    <2>7. CASE wk' = [wk EXCEPT ![w] = wedged]
      BY <1>w, <2>1, <2>2, <2>3, <2>4, <2>7, OutcomeWritten
    <2> QED BY <2>3, <2>5, <2>6, <2>7
  <1>7. CASE Requeue(w)
    <2>1. wk[w].unit \in Units /\ wk[w].active - 1 \in 0..MaxJobs
      BY <1>0, <1>7, BoundsAssumption DEF Requeue, IInv, WorkerInv
    <2>2. /\ pending' \subseteq Units
          /\ UNCHANGED <<unit, heartbeat, rp, runs, reapedLive>>
          /\ \/ wk' = [wk EXCEPT ![w] = Idle(w, wk[w].active - 1)]
             \/ wk' = [wk EXCEPT ![w] = wedged]
      BY <1>0, <1>7, <2>1 DEF Requeue, After, wedged, ghosts
    <2> QED BY <2>1, <2>2, <1>i, <1>w, WorkerMoves
  <1>8. CASE NothingToClaim(w) \/ WaitOver(w) \/ StopWedged(w)
    <2>1. PICK pc \in {"waiting", "idle", "stopped"} :
             /\ wk' = [wk EXCEPT ![w].pc = pc]
             /\ UNCHANGED <<unit, pending, heartbeat, rp, runs, reapedLive>>
      BY <1>8 DEF NothingToClaim, WaitOver, StopWedged, tikv, ghosts
    <2> DEFINE s == [wk[w] EXCEPT !.pc = pc]
    <2>2. s \in WorkerState /\ s.pc = pc
      BY <1>0 DEF WorkerState, WorkerPC
    <2>3. wk' = [wk EXCEPT ![w] = s]
      BY <2>1 DEF IInv, TypeOK, WorkerState
    <2> HIDE DEF s
    <2> QED BY <2>1, <2>2, <2>3, <1>0, WorkerMoves
  <1> QED BY <1>1, <1>2, <1>3, <1>4, <1>5, <1>6, <1>7, <1>8 DEF LoopStep

\* The shutdown broadcast changes nothing the invariant depends on.
LEMMA ShutdownSeen ==
    ASSUME IInv, NEW w \in Workers, NEW s \in WorkerState,
           wk' = [wk EXCEPT ![w] = s],
           UNCHANGED <<unit, pending, heartbeat, rp, runs, reapedLive>>,
           s.unit = wk[w].unit, s.active = wk[w].active, s.snap = wk[w].snap,
           s.pc = IF wk[w].pc = "wedged" THEN "stopped" ELSE wk[w].pc
    PROVE  IInv'
  <1> USE DEF IInv
  <1>1. TypeOK'
    BY DEF TypeOK
  <1>2. RecordConsistent' /\ AttemptsCountRuns'
    BY DEF RecordConsistent, AttemptsCountRuns
  <1>3. \A x \in Workers : x # w => wk'[x] = wk[x]
    BY DEF TypeOK
  <1>4. wk'[w] = s
    BY DEF TypeOK
  <1>5. WorkerInv'
    <2> SUFFICES ASSUME NEW x \in Workers
                 PROVE  WorkerInv!(x)'
      BY DEF WorkerInv
    <2>1. CASE x = w
      BY <2>1, <1>4 DEF WorkerInv
    <2>2. CASE x # w
      BY <2>2, <1>3 DEF WorkerInv
    <2> QED BY <2>1, <2>2
  <1>6. ClaimExclusive'
    <2>1. \A x \in Workers, u \in Units : Executing(x, u)' <=> Executing(x, u)
      BY <1>3, <1>4 DEF Executing
    <2> QED BY <2>1 DEF ClaimExclusive
  <1> QED BY <1>1, <1>2, <1>5, <1>6

\* So does a signal, a crash, a restart, an error or a heartbeat.
LEMMA DisturbanceIInv ==
    ASSUME IInv, NEW w \in Workers, Disturbance(w) \/ Beat(w)
    PROVE  IInv'
  <1> DEFINE wedged == Resting("wedged", wk[w].active, wk[w].shutdown)
  <1>0. /\ wk[w] \in WorkerState /\ wk[w].active \in 0..MaxJobs
        /\ wk[w].shutdown \in BOOLEAN /\ pending \subseteq Units
    BY DEF IInv, TypeOK, WorkerState
  <1>w. wedged \in WorkerState /\ wedged.pc = "wedged"
    BY <1>0, RestingState DEF WorkerPC
  <1>i. \A a \in 0..MaxJobs : Idle(w, a) \in WorkerState /\ Idle(w, a).pc = "idle"
    BY <1>0, RestingState DEF WorkerPC, Idle
  <1> HIDE DEF wedged
  <1>1. CASE Abandon(w) \/ LoopError(w)
    <2>1. /\ UNCHANGED <<unit, pending, heartbeat, rp, runs, reapedLive>>
          /\ \/ wk' = [wk EXCEPT ![w] = Idle(w, wk[w].active)]
             \/ wk' = [wk EXCEPT ![w] = wedged]
      BY <1>1 DEF Abandon, LoopError, wedged, tikv, ghosts
    <2> QED BY <2>1, <1>0, <1>i, <1>w, WorkerMoves
  <1>2. CASE RequestShutdown(w)
    <2> DEFINE pc == IF wk[w].pc = "wedged" THEN "stopped" ELSE wk[w].pc
               s == [wk[w] EXCEPT !.shutdown = TRUE, !.pc = pc]
    <2>1. wk' = [wk EXCEPT ![w] = s] /\ UNCHANGED <<unit, pending, heartbeat, rp, runs, reapedLive>>
      BY <1>2 DEF RequestShutdown, tikv, ghosts, IInv, TypeOK, WorkerState
    <2>2. /\ s \in WorkerState
          /\ s.unit = wk[w].unit /\ s.active = wk[w].active /\ s.snap = wk[w].snap
          /\ s.pc = pc
      <3>1. pc \in WorkerPC
        BY <1>0 DEF WorkerState, WorkerPC
      <3> HIDE DEF pc
      <3> QED BY <1>0, <3>1 DEF WorkerState
    <2> HIDE DEF s
    <2> QED BY <2>1, <2>2, <1>0, ShutdownSeen
  <1>3. CASE Crash(w) \/ Restart(w)
    <2>1. PICK pc \in {"down", "idle"} :
             /\ wk' = [wk EXCEPT ![w] = Resting(pc, 0, FALSE)]
             /\ UNCHANGED <<unit, pending, heartbeat, rp, runs, reapedLive>>
      BY <1>3 DEF Crash, Restart, tikv, ghosts
    <2>2. Resting(pc, 0, FALSE) \in WorkerState /\ Resting(pc, 0, FALSE).pc = pc
      <3>1. pc \in WorkerPC /\ 0 \in 0..MaxJobs /\ FALSE \in BOOLEAN
        BY BoundsAssumption DEF WorkerPC
      <3> QED BY <3>1, RestingState
    <2> QED BY <2>1, <2>2, <1>0, WorkerMoves
  <1>4. CASE GoStale(w) \/ Beat(w)
    <2>1. /\ heartbeat' \in [Workers -> {"none", "fresh", "stale"}]
          /\ rp' \in [Reapers -> ReaperState]
          /\ UNCHANGED <<unit, pending, wk, runs, reapedLive>>
      BY <1>4 DEF GoStale, Beat, IInv, TypeOK, ghosts
    <2> QED BY <2>1, BystanderMoves
  <1> QED BY <1>1, <1>2, <1>3, <1>4 DEF Disturbance

\* So does every step of a reaper.
LEMMA ReaperIInv ==
    ASSUME IInv, NEW r \in Reapers, ReaperStep(r) \/ ReaperError(r)
    PROVE  IInv'
  <1>0. rp \in [Reapers -> ReaperState] /\ heartbeat \in [Workers -> {"none", "fresh", "stale"}]
    BY DEF IInv, TypeOK
  <1>1. ReaperIdle \in ReaperState
    BY DEF ReaperIdle, ReaperState
  <1>2. \A p : Rest(r, p) \in ReaperState
    BY <1>0, <1>1 DEF Rest, ReaperState
  <1>3. CASE find_stale_workers(r)
    <2> DEFINE S == {w \in Workers : heartbeat[w] = "stale"}
               s == [rp[r] EXCEPT !.pc = "scan", !.stale = S]
    <2>s. s \in ReaperState
      <3>1. S \in SUBSET Workers /\ rp[r] \in ReaperState
        BY <1>0
      <3> HIDE DEF S
      <3> QED BY <3>1 DEF ReaperState
    <2>r. rp' = [rp EXCEPT ![r] = s]
      BY <1>0, <1>3 DEF find_stale_workers, ReaperState
    <2> HIDE DEF S, s
    <2>1. rp' \in [Reapers -> ReaperState]
      BY <1>0, <2>s, <2>r
    <2> QED BY <1>0, <1>3, <2>1, BystanderMoves DEF find_stale_workers, tikv, ghosts
  <1>4. CASE find_orphaned_work_units(r)
    <2> DEFINE orphans == {p \in Scanned \X rp[r].stale :
                             /\ unit[p[1]].status = "Processing"
                             /\ unit[p[1]].owner = p[2]}
               s == [pc |-> "verify", stale |-> {}, todo |-> Taken(orphans)]
    <2>1. rp[r].stale \subseteq Workers
      BY <1>0 DEF ReaperState
    <2>2. Taken(orphans) \subseteq Units \X Workers
      BY <2>1 DEF Taken, Scanned
    <2> HIDE DEF orphans
    <2>3. s \in ReaperState
      BY <2>2 DEF ReaperState
    <2>4. rp' = [rp EXCEPT ![r] = ReaperIdle] \/ rp' = [rp EXCEPT ![r] = s]
      BY <1>4 DEF find_orphaned_work_units, orphans
    <2> HIDE DEF s
    <2>5. rp' \in [Reapers -> ReaperState]
      BY <1>0, <1>1, <2>3, <2>4
    <2> QED BY <1>0, <1>4, <2>5, BystanderMoves DEF find_orphaned_work_units, tikv, ghosts
  <1>5. CASE VerifyStale(r)
    <2>1. [rp[r] EXCEPT !.pc = "reclaim"] \in ReaperState
      BY <1>0 DEF ReaperState
    <2>2. rp' \in [Reapers -> ReaperState]
      BY <1>0, <1>2, <1>5, <2>1 DEF VerifyStale
    <2> QED BY <1>0, <1>5, <2>2, BystanderMoves DEF VerifyStale, tikv, ghosts
  <1>6. CASE Reclaim(r)
    <2>1. PICK p \in rp[r].todo :
             LET u == p[1]
                 w == p[2] IN
             /\ rp' = [rp EXCEPT ![r] = Rest(r, p)]
             /\ IF unit[u].status = "Processing" /\ unit[u].owner = w
                THEN /\ unit' = [unit EXCEPT ![u] = fail(unit[u])]
                     /\ reapedLive' = IF \E x \in Workers : Executing(x, u)
                                      THEN reapedLive \cup {u} ELSE reapedLive
                ELSE UNCHANGED <<unit, reapedLive>>
      BY <1>6 DEF Reclaim
    <2>2. p[1] \in Units
      BY <1>0 DEF ReaperState
    <2>3. rp' \in [Reapers -> ReaperState]
      BY <1>0, <1>2, <2>1
    <2>4. UNCHANGED <<pending, heartbeat, wk, runs>>
      BY <1>6 DEF Reclaim
    <2>5. CASE unit[p[1]].status = "Processing" /\ unit[p[1]].owner = p[2]
      BY <2>1, <2>2, <2>3, <2>4, <2>5, ReclaimTaken
    <2>6. CASE ~(unit[p[1]].status = "Processing" /\ unit[p[1]].owner = p[2])
      BY <1>0, <2>1, <2>3, <2>4, <2>6, BystanderMoves
    <2> QED BY <2>5, <2>6
  <1>7. CASE ReaperError(r)
    <2>1. rp' \in [Reapers -> ReaperState]
      BY <1>0, <1>1, <1>2, <1>7 DEF ReaperError
    <2> QED BY <1>0, <1>7, <2>1, BystanderMoves DEF ReaperError, tikv, ghosts
  <1> QED BY <1>3, <1>4, <1>5, <1>6, <1>7 DEF ReaperStep

\* IInv is inductive.
LEMMA NextIInv == IInv /\ [Next]_vars => IInv'
  <1> SUFFICES ASSUME IInv, [Next]_vars PROVE IInv'
    OBVIOUS
  <1>1. CASE \E w \in Workers : LoopStep(w) \/ Beat(w) \/ Disturbance(w)
    BY <1>1, LoopStepIInv, DisturbanceIInv
  <1>2. CASE \E r \in Reapers : ReaperStep(r) \/ ReaperError(r)
    BY <1>2, ReaperIInv
  <1>3. CASE UNCHANGED vars
    BY <1>3, BystanderMoves DEF vars, IInv, TypeOK
  <1> QED BY <1>1, <1>2, <1>3 DEF Next

\* The inductive invariant holds in every reachable state, however many units,
\* workers and reapers there are and whatever they do.
THEOREM Invariance == Spec => []IInv
  BY InitIInv, NextIInv, PTL DEF Spec

\* Every variable keeps its type; active_jobs stays within 0..MaxJobs.
THEOREM TypeCorrect == Spec => []TypeOK
  BY Invariance, PTL DEF IInv

\* No interleaving of claims, late outcomes and reclaims stores a record that
\* WorkUnit's own transitions could not have produced.
THEOREM RecordsConsistent == Spec => []RecordConsistent
  BY Invariance, PTL DEF IInv

\* claim_work_unit gives a unit to one worker at a time, unless a reaper takes it
\* from a worker that is still on it.
THEOREM ClaimsExclusive == Spec => []ClaimExclusive
  BY Invariance, PTL DEF IInv

\* Under the same proviso the attempts counter is the number of claims.
THEOREM AttemptsCounted == Spec => []AttemptsCountRuns
  BY Invariance, PTL DEF IInv

\* Under the same proviso a step leaves a Complete or Dead unit as it is: the
\* units complete_work_unit, fail_work_unit, a claim or a reclaim write are not
\* terminal.
LEMMA TerminalStep ==
    ASSUME IInv, [Next]_vars, NEW u \in Units \ reapedLive, is_terminal(unit[u])
    PROVE  unit'[u] = unit[u]
  <1>0. unit \in [Units -> Record] /\ rp \in [Reapers -> ReaperState]
    BY DEF IInv, TypeOK
  <1>1. unit[u].status # "Processing" /\ ~is_claimable(unit[u])
    BY DEF is_terminal, is_claimable
  <1>2. \A w \in Workers : ~Executing(w, u)
    BY <1>1 DEF IInv, ClaimExclusive
  <1>3. ASSUME NEW w \in Workers, LoopStep(w)
        PROVE  unit'[u] = unit[u]
    <2>1. CASE Claim(w)
      BY <1>0, <1>1, <2>1 DEF Claim
    <2>2. CASE Complete(w)
      BY <1>0, <1>2, <2>2 DEF Complete, Executing
    <2>3. CASE Fail(w)
      BY <1>0, <1>2, <2>3 DEF Fail, Executing
    <2>4. CASE \/ ScanPending(w) \/ NothingToClaim(w) \/ WaitOver(w)
               \/ StartProcessing(w) \/ ReadForComplete(w) \/ ReadForFail(w)
               \/ Requeue(w) \/ StopWedged(w)
      BY <2>4 DEF ScanPending, NothingToClaim, WaitOver, StartProcessing,
                  ReadForComplete, ReadForFail, Requeue, StopWedged, tikv
    <2> QED BY <1>3, <2>1, <2>2, <2>3, <2>4 DEF LoopStep
  <1>4. ASSUME NEW w \in Workers, Beat(w) \/ Disturbance(w)
        PROVE  unit'[u] = unit[u]
    BY <1>4 DEF Beat, Disturbance, Abandon, LoopError, RequestShutdown, Crash,
                Restart, GoStale, tikv
  <1>5. ASSUME NEW r \in Reapers, ReaperStep(r) \/ ReaperError(r)
        PROVE  unit'[u] = unit[u]
    <2>1. CASE Reclaim(r)
      BY <1>0, <1>1, <2>1 DEF Reclaim
    <2>2. CASE \/ find_stale_workers(r) \/ find_orphaned_work_units(r)
               \/ VerifyStale(r) \/ ReaperError(r)
      BY <2>2 DEF find_stale_workers, find_orphaned_work_units, VerifyStale,
                  ReaperError, tikv
    <2> QED BY <1>5, <2>1, <2>2 DEF ReaperStep
  <1>6. CASE UNCHANGED vars
    BY <1>6 DEF vars
  <1> QED BY <1>3, <1>4, <1>5, <1>6 DEF Next

\* Complete and Dead are final, unless a reaper took the unit from a worker that
\* was still on it.
THEOREM TerminalUnitsStay == Spec => TerminalStays
  <1>1. IInv /\ [Next]_vars =>
          [\A u \in Units \ reapedLive : is_terminal(unit[u]) => unit'[u] = unit[u]]_vars
    BY TerminalStep
  <1> QED BY <1>1, Invariance, PTL DEF Spec, TerminalStays
=============================================================================
