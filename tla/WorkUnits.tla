------------------------------ MODULE WorkUnits ------------------------------
(***************************************************************************)
(* The life of the work units of a batch: workers claim them from the      *)
(* pending queue in TiKV, process them and write the outcome back; every   *)
(* pod also runs a zombie reaper that takes units away from workers whose  *)
(* heartbeat is stale.                                                     *)
(*                                                                         *)
(*   batch/work_unit.rs      the unit record and its transitions           *)
(*   batch/controller.rs     claim_work_unit, complete_work_unit,          *)
(*                           fail_work_unit                                *)
(*   worker/coordinator.rs   the worker loop and its heartbeat task        *)
(*   reaper.rs               find stale workers, find orphans, reclaim     *)
(*                                                                         *)
(* One TiKV call is one step.  A claim and a reclaim are one pessimistic   *)
(* transaction each; complete and fail are a read followed, later, by a    *)
(* blind write of the record that was read.                                *)
(***************************************************************************)
EXTENDS Naturals, FiniteSets

CONSTANTS
    Units,          \* the units of the batch: a set of naturals, in key order
    Workers,        \* pod ids of the workers
    Reapers,        \* the reapers, one per pod
    MaxAttempts,    \* max_attempts of every unit
    MaxJobs,        \* max_concurrent_jobs of every worker
    MaxReclaims,    \* max_reclaims_per_iteration of every reaper
    MaxScan,        \* max_work_unit_scan of every reaper
    Mortal,         \* the workers whose process may die
    Faults,         \* the other faults that may happen: see FaultKinds
    None            \* Option::None

FaultKinds == {"fail",      \* the processor returns an error
               "error",     \* a TiKV call of a worker or a reaper fails
               "shutdown",  \* SIGTERM or SIGINT
               "cancel",    \* the processor returns Cancelled or "shutdown"
               "delay"}     \* heartbeats of a live worker arrive late

ASSUME UnitsAssumption == Units \subseteq Nat /\ IsFiniteSet(Units)
ASSUME WorkersAssumption == None \notin Workers /\ Mortal \subseteq Workers
ASSUME BoundsAssumption == /\ MaxAttempts \in Nat \ {0}
                           /\ MaxJobs \in Nat \ {0}
                           /\ MaxReclaims \in Nat
                           /\ MaxScan \in Nat
ASSUME FaultsAssumption == Faults \subseteq FaultKinds

VARIABLES
    unit,           \* TiKV: the record of each unit
    pending,        \* TiKV: the units with a key in the pending queue
    heartbeat,      \* TiKV: each worker's heartbeat record, by its age
    wk,             \* each worker's control state
    rp,             \* each reaper's control state
    runs,           \* history: how often each unit was claimed (saturating)
    reapedLive      \* history: units reclaimed while a worker was on them

vars == <<unit, pending, heartbeat, wk, rp, runs, reapedLive>>
tikv == <<unit, pending, heartbeat>>
ghosts == <<runs, reapedLive>>
-----------------------------------------------------------------------------
Status == {"Pending", "Processing", "Complete", "Failed", "Dead", "Cancelled"}
Record == [status : Status, owner : Workers \cup {None}, attempts : Nat]

is_terminal(u) == u.status \in {"Complete", "Dead", "Cancelled"}

\* Mutant of is_claimable: whatever is not finished can be claimed
is_claimable_NotTerminal(u) == /\ ~is_terminal(u)
                               /\ u.attempts < MaxAttempts

\* Mutant of is_claimable: off by one, the last attempt is never granted
is_claimable_OffByOne(u) == /\ u.status \in {"Pending", "Failed"}
                            /\ u.attempts + 1 < MaxAttempts

is_claimable(u) == /\ u.status \in {"Pending", "Failed"}
                   /\ u.attempts < MaxAttempts

\* Mutant of claim: the attempt is not counted
claim_NotCounted(u, w) ==
    [status |-> "Processing", owner |-> w, attempts |-> u.attempts]

claim(u, w) ==
    [status |-> "Processing", owner |-> w, attempts |-> u.attempts + 1]

complete(u) == [status |-> "Complete", owner |-> None, attempts |-> u.attempts]

\* Mutant of fail: off by one, the last attempt leaves the unit Failed
fail_OffByOne(u) ==
    [status |-> IF u.attempts > MaxAttempts THEN "Dead" ELSE "Failed",
     owner |-> None, attempts |-> u.attempts]

fail(u) ==
    [status |-> IF u.attempts >= MaxAttempts THEN "Dead" ELSE "Failed",
     owner |-> None, attempts |-> u.attempts]
-----------------------------------------------------------------------------
(* A worker is at the head of its main loop ("idle"), in wait_with_shutdown *)
(* because it has nothing to claim ("waiting"), about to run the claim on  *)
(* the unit its scan returned ("claiming"), holding a claimed unit it has  *)
(* not started ("claimed"), inside the processor ("processing"), between   *)
(* the read and the write of complete_work_unit ("completing") or of       *)
(* fail_work_unit ("failing"), or about to put the pending key             *)
(* ("requeue").  "wedged": its main loop has ended, but run() still waits  *)
(* for the heartbeat task.  "stopped": run() returned after a shutdown.    *)
(* "down": the process died.                                               *)

WorkerPC == {"idle", "waiting", "claiming", "claimed", "processing", "completing",
             "failing", "requeue", "wedged", "stopped", "down"}

WorkerState == [pc : WorkerPC, unit : Units \cup {None}, snap : Record,
                active : 0..MaxJobs, shutdown : BOOLEAN]

ReaperState == [pc : {"idle", "scan", "verify", "reclaim"},
                stale : SUBSET Workers, todo : SUBSET (Units \X Workers)]

NoRecord == [status |-> "Pending", owner |-> None, attempts |-> 0]

\* The state of a worker with nothing in hand
Resting(pc, active, shutdown) ==
    [pc |-> pc, unit |-> None, snap |-> NoRecord,
     active |-> active, shutdown |-> shutdown]

\* w has claimed u and has not yet written an outcome
Executing(w, u) ==
    /\ wk[w].pc \in {"claimed", "processing", "completing", "failing"}
    /\ wk[w].unit = u

\* The process of w exists
Alive(w) == wk[w].pc \notin {"stopped", "down"}

\* The heartbeat task of w is running: it ends with the shutdown broadcast,
\* not with the main loop
Beating(w) == Alive(w) /\ ~wk[w].shutdown

Init ==
    /\ unit = [u \in Units |-> NoRecord]
    /\ pending = Units
    /\ heartbeat = [w \in Workers |-> "none"]
    /\ wk = [w \in Workers |-> Resting("idle", 0, FALSE)]
    /\ rp = [r \in Reapers |-> [pc |-> "idle", stale |-> {}, todo |-> {}]]
    /\ runs = [u \in Units |-> 0]
    /\ reapedLive = {}
-----------------------------------------------------------------------------
(* The worker loop *)

\* The loop goes on to next after a write, or ends because the write reported
\* an error although it took effect
After(w, next) ==
    \/ wk' = [wk EXCEPT ![w] = next]
    \/ /\ "error" \in Faults
       /\ wk' = [wk EXCEPT ![w] =
                    Resting("wedged", wk[w].active, wk[w].shutdown)]

Idle(w, active) == Resting("idle", active, wk[w].shutdown)

\* A free worker starts claim_work_unit: scan the pending queue with limit 1
ScanPending(w) ==
    /\ wk[w].pc = "idle"
    /\ wk[w].active < MaxJobs
    /\ \E u \in pending :
         /\ \A v \in pending : u <= v
         /\ wk' = [wk EXCEPT ![w].pc = "claiming", ![w].unit = u]
    /\ UNCHANGED <<tikv, rp, ghosts>>

\* A worker that is not free, or whose scan came back empty, waits
NothingToClaim(w) ==
    /\ wk[w].pc = "idle"
    /\ pending = {} \/ wk[w].active >= MaxJobs
    /\ wk' = [wk EXCEPT ![w].pc = "waiting"]
    /\ UNCHANGED <<tikv, rp, ghosts>>

\* wait_with_shutdown: the sleep ends, or the broadcast arrives
WaitOver(w) ==
    /\ wk[w].pc = "waiting"
    /\ \/ wk' = [wk EXCEPT ![w].pc = "idle"]
       \/ wk[w].shutdown /\ wk' = [wk EXCEPT ![w].pc = "stopped"]
    /\ UNCHANGED <<tikv, rp, ghosts>>

\* claim_work_unit, second half: the transaction on the unit's record.  A unit
\* that cannot be claimed keeps its pending key.
Claim(w) ==
    /\ wk[w].pc = "claiming"
    /\ LET u == wk[w].unit IN
         IF is_claimable(unit[u])
         THEN /\ unit' = [unit EXCEPT ![u] = claim(unit[u], w)]
              /\ pending' = pending \ {u}
              /\ runs' = [runs EXCEPT ![u] = IF @ > MaxAttempts THEN @ ELSE @ + 1]
              /\ After(w, [wk[w] EXCEPT !.pc = "claimed", !.active = @ + 1])
         ELSE /\ After(w, Resting("waiting", wk[w].active, wk[w].shutdown))
              /\ UNCHANGED <<unit, pending, runs>>
    /\ UNCHANGED <<heartbeat, rp, reapedLive>>

\* process_work_unit: start the processor, or leave at once if a shutdown was
\* requested in the meantime
StartProcessing(w) ==
    /\ wk[w].pc = "claimed"
    /\ wk' = [wk EXCEPT ![w] = IF wk[w].shutdown
                               THEN Resting("stopped", wk[w].active, TRUE)
                               ELSE [wk[w] EXCEPT !.pc = "processing"]]
    /\ UNCHANGED <<tikv, rp, ghosts>>

\* The processor succeeded: complete_work_unit reads the record
ReadForComplete(w) ==
    /\ wk[w].pc = "processing"
    /\ wk' = [wk EXCEPT ![w].pc = "completing", ![w].snap = unit[wk[w].unit]]
    /\ UNCHANGED <<tikv, rp, ghosts>>

\* The processor failed: fail_work_unit reads the record
ReadForFail(w) ==
    /\ "fail" \in Faults
    /\ wk[w].pc = "processing"
    /\ wk' = [wk EXCEPT ![w].pc = "failing", ![w].snap = unit[wk[w].unit]]
    /\ UNCHANGED <<tikv, rp, ghosts>>

\* The processor returned Cancelled (the loop goes on, the job still counted
\* as active) or an error that mentions a shutdown (the loop ends, as it does
\* after an error).  Neither writes to TiKV.
Abandon(w) ==
    /\ "cancel" \in Faults
    /\ wk[w].pc = "processing"
    /\ \/ wk' = [wk EXCEPT ![w] = Idle(w, wk[w].active)]
       \/ wk' = [wk EXCEPT ![w] = Resting("wedged", wk[w].active, wk[w].shutdown)]
    /\ UNCHANGED <<tikv, rp, ghosts>>

\* complete_work_unit writes the record it read, completed
Complete(w) ==
    /\ wk[w].pc = "completing"
    /\ unit' = [unit EXCEPT ![wk[w].unit] = complete(wk[w].snap)]
    /\ After(w, Idle(w, wk[w].active - 1))
    /\ UNCHANGED <<pending, heartbeat, rp, ghosts>>

\* Mutant of Fail: the job is counted down here and again by Requeue
Fail_CountedTwice(w) ==
    /\ wk[w].pc = "failing"
    /\ unit' = [unit EXCEPT ![wk[w].unit] = fail(wk[w].snap)]
    /\ After(w, IF fail(wk[w].snap).status = "Failed"
                THEN [wk[w] EXCEPT !.pc = "requeue", !.active = wk[w].active - 1]
                ELSE Idle(w, wk[w].active - 1))
    /\ UNCHANGED <<pending, heartbeat, rp, ghosts>>

\* Mutant of Fail: the unit is not put back into the queue
Fail_NoRequeue(w) ==
    /\ wk[w].pc = "failing"
    /\ unit' = [unit EXCEPT ![wk[w].unit] = fail(wk[w].snap)]
    /\ After(w, Idle(w, wk[w].active - 1))
    /\ UNCHANGED <<pending, heartbeat, rp, ghosts>>

\* fail_work_unit writes the record it read, failed; a retryable unit goes back
\* to the pending queue in a second write
Fail(w) ==
    /\ wk[w].pc = "failing"
    /\ unit' = [unit EXCEPT ![wk[w].unit] = fail(wk[w].snap)]
    /\ After(w, IF fail(wk[w].snap).status = "Failed"
                THEN [wk[w] EXCEPT !.pc = "requeue", !.snap = NoRecord]
                ELSE Idle(w, wk[w].active - 1))
    /\ UNCHANGED <<pending, heartbeat, rp, ghosts>>

Requeue(w) ==
    /\ wk[w].pc = "requeue"
    /\ pending' = pending \cup {wk[w].unit}
    /\ After(w, Idle(w, wk[w].active - 1))
    /\ UNCHANGED <<unit, heartbeat, rp, ghosts>>
-----------------------------------------------------------------------------
(* Signals, crashes and heartbeats *)

\* A TiKV call of the main loop fails without effect
LoopError(w) ==
    /\ "error" \in Faults
    /\ wk[w].pc \in {"idle", "claiming", "processing", "completing", "failing", "requeue"}
    /\ wk' = [wk EXCEPT ![w] = Resting("wedged", wk[w].active, wk[w].shutdown)]
    /\ UNCHANGED <<tikv, rp, ghosts>>

\* The shutdown broadcast: the heartbeat task ends now, the main loop when it
\* next looks.  A wedged worker's run() returns.
RequestShutdown(w) ==
    /\ "shutdown" \in Faults
    /\ Beating(w)
    /\ wk' = [wk EXCEPT ![w].shutdown = TRUE,
                        ![w].pc = IF @ = "wedged" THEN "stopped" ELSE @]
    /\ UNCHANGED <<tikv, rp, ghosts>>

\* A worker that wedges after the broadcast has nothing left to wait for
StopWedged(w) ==
    /\ wk[w].pc = "wedged"
    /\ wk[w].shutdown
    /\ wk' = [wk EXCEPT ![w].pc = "stopped"]
    /\ UNCHANGED <<tikv, rp, ghosts>>

Crash(w) ==
    /\ w \in Mortal
    /\ Alive(w)
    /\ wk' = [wk EXCEPT ![w] = Resting("down", 0, FALSE)]
    /\ UNCHANGED <<tikv, rp, ghosts>>

\* The pod comes back under the same pod id (POD_NAME or the host name)
Restart(w) ==
    /\ ~Alive(w)
    /\ wk' = [wk EXCEPT ![w] = Resting("idle", 0, FALSE)]
    /\ UNCHANGED <<tikv, rp, ghosts>>

Beat(w) ==
    /\ Beating(w)
    /\ heartbeat[w] # "fresh"
    /\ heartbeat' = [heartbeat EXCEPT ![w] = "fresh"]
    /\ UNCHANGED <<unit, pending, wk, rp, ghosts>>

\* stale_threshold has passed since the last heartbeat
GoStale(w) ==
    /\ heartbeat[w] = "fresh"
    /\ ~Beating(w) \/ "delay" \in Faults
    /\ heartbeat' = [heartbeat EXCEPT ![w] = "stale"]
    /\ UNCHANGED <<unit, pending, wk, rp, ghosts>>
-----------------------------------------------------------------------------
(* The reaper: rp[r].todo holds <<unit, owner>> pairs *)

ReaperIdle == [pc |-> "idle", stale |-> {}, todo |-> {}]

\* Mutant of Taken: the iteration stops one unit early
Taken_OffByOne(S) ==
    {p \in S : Cardinality({q \in S : q[1] < p[1]}) + 1 < MaxReclaims}

\* The pairs of S an iteration gets to: the first MaxReclaims in key order
Taken(S) ==
    {p \in S : Cardinality({q \in S : q[1] < p[1]}) < MaxReclaims}

find_stale_workers(r) ==
    /\ rp[r].pc = "idle"
    /\ \E w \in Workers : heartbeat[w] = "stale"
    /\ rp' = [rp EXCEPT ![r].pc = "scan",
                        ![r].stale = {w \in Workers : heartbeat[w] = "stale"}]
    /\ UNCHANGED <<tikv, wk, ghosts>>

\* What a scan of the units returns: each one starts at the first key and stops
\* after MaxScan.  The records of finished units are never deleted, so it is the
\* same units every time.
Scanned == {u \in Units : Cardinality({v \in Units : v < u}) < MaxScan}

find_orphaned_work_units(r) ==
    /\ rp[r].pc = "scan"
    /\ LET orphans == {p \in Scanned \X rp[r].stale :
                         /\ unit[p[1]].status = "Processing"
                         /\ unit[p[1]].owner = p[2]}
       IN rp' = [rp EXCEPT ![r] =
                    IF Taken(orphans) = {} THEN ReaperIdle
                    ELSE [pc |-> "verify", stale |-> {}, todo |-> Taken(orphans)]]
    /\ UNCHANGED <<tikv, wk, ghosts>>

\* The pair the loop of run_iteration is at
At(r, p) == /\ p \in rp[r].todo
            /\ \A q \in rp[r].todo : p[1] <= q[1]

Rest(r, p) == IF rp[r].todo = {p} THEN ReaperIdle
              ELSE [rp[r] EXCEPT !.pc = "verify", !.todo = @ \ {p}]

\* reclaim_work_unit, first half: is the owner's heartbeat still not fresh?
VerifyStale(r) ==
    /\ rp[r].pc = "verify"
    /\ \E p \in rp[r].todo :
         /\ At(r, p)
         /\ rp' = [rp EXCEPT ![r] = IF heartbeat[p[2]] = "fresh" THEN Rest(r, p)
                                    ELSE [rp[r] EXCEPT !.pc = "reclaim"]]
    /\ UNCHANGED <<tikv, wk, ghosts>>

\* Mutant of Reclaim: the transaction does not look at the record again
Reclaim_Unchecked(r) ==
    /\ rp[r].pc = "reclaim"
    /\ \E p \in rp[r].todo :
         LET u == p[1] IN
         /\ At(r, p)
         /\ rp' = [rp EXCEPT ![r] = Rest(r, p)]
         /\ unit' = [unit EXCEPT ![u] = fail(unit[u])]
         /\ reapedLive' = IF \E x \in Workers : Executing(x, u)
                          THEN reapedLive \cup {u} ELSE reapedLive
    /\ UNCHANGED <<pending, heartbeat, wk, runs>>

\* reclaim_work_unit, second half: the transaction.  The pending queue is not
\* part of it.
Reclaim(r) ==
    /\ rp[r].pc = "reclaim"
    /\ \E p \in rp[r].todo :
         LET u == p[1]
             w == p[2] IN
         /\ At(r, p)
         /\ rp' = [rp EXCEPT ![r] = Rest(r, p)]
         /\ IF unit[u].status = "Processing" /\ unit[u].owner = w
            THEN /\ unit' = [unit EXCEPT ![u] = fail(unit[u])]
                 /\ reapedLive' = IF \E x \in Workers : Executing(x, u)
                                  THEN reapedLive \cup {u} ELSE reapedLive
            ELSE UNCHANGED <<unit, reapedLive>>
    /\ UNCHANGED <<pending, heartbeat, wk, runs>>

\* A failed TiKV call ends the iteration, or skips one unit of it
ReaperError(r) ==
    /\ "error" \in Faults
    /\ rp[r].pc # "idle"
    /\ \/ rp' = [rp EXCEPT ![r] = ReaperIdle]
       \/ /\ rp[r].pc = "reclaim"
          /\ \E p \in rp[r].todo : At(r, p) /\ rp' = [rp EXCEPT ![r] = Rest(r, p)]
    /\ UNCHANGED <<tikv, wk, ghosts>>
-----------------------------------------------------------------------------
LoopStep(w) ==
    \/ ScanPending(w)
    \/ NothingToClaim(w)
    \/ WaitOver(w)
    \/ Claim(w)
    \/ StartProcessing(w)
    \/ ReadForComplete(w)
    \/ ReadForFail(w)
    \/ Complete(w)
    \/ Fail(w)
    \/ Requeue(w)
    \/ StopWedged(w)

Disturbance(w) ==
    \/ Abandon(w)
    \/ LoopError(w)
    \/ RequestShutdown(w)
    \/ Crash(w)
    \/ Restart(w)
    \/ GoStale(w)

ReaperStep(r) ==
    \/ find_stale_workers(r)
    \/ find_orphaned_work_units(r)
    \/ VerifyStale(r)
    \/ Reclaim(r)

Next ==
    \/ \E w \in Workers : LoopStep(w) \/ Beat(w) \/ Disturbance(w)
    \/ \E r \in Reapers : ReaperStep(r) \/ ReaperError(r)

Spec == Init /\ [][Next]_vars

\* Tokio runs every task: the main loop of each worker, its heartbeat task and
\* each reaper keep taking steps.  A heartbeat nobody renews gets old.
Fairness ==
    /\ \A w \in Workers : /\ WF_vars(LoopStep(w))
                          /\ WF_vars(Beat(w))
                          /\ WF_vars(GoStale(w) /\ ~Beating(w))
    /\ \A r \in Reapers : WF_vars(ReaperStep(r))

FairSpec == Spec /\ Fairness
-----------------------------------------------------------------------------
\* Every variable has its type; in particular active_jobs, which is counted
\* down with fetch_sub, never wraps below zero nor exceeds the slots.
TypeOK ==
    /\ unit \in [Units -> Record]
    /\ pending \subseteq Units
    /\ heartbeat \in [Workers -> {"none", "fresh", "stale"}]
    /\ wk \in [Workers -> WorkerState]
    /\ rp \in [Reapers -> ReaperState]
    /\ runs \in [Units -> Nat]
    /\ reapedLive \subseteq Units

\* A stored record is one the transitions of WorkUnit can produce, whatever
\* stale record a late complete_work_unit or fail_work_unit writes: an owner
\* exactly while Processing, retries left exactly while Failed, none when Dead.
RecordConsistent ==
    \A u \in Units :
        /\ unit[u].attempts <= MaxAttempts
        /\ unit[u].owner # None <=> unit[u].status = "Processing"
        /\ unit[u].status = "Pending" <=> unit[u].attempts = 0
        /\ unit[u].status = "Failed" => unit[u].attempts < MaxAttempts
        /\ unit[u].status = "Dead" => unit[u].attempts = MaxAttempts
        /\ unit[u].status # "Cancelled"

\* claim_work_unit hands a unit to one worker at a time: unless the reaper took
\* the unit from a worker that was still on it, the worker executing a unit is
\* the only one, and the stored record names it as the owner.
ClaimExclusive ==
    \A u \in Units \ reapedLive : \A w \in Workers :
        Executing(w, u) =>
            /\ unit[u].status = "Processing"
            /\ unit[u].owner = w
            /\ \A x \in Workers : Executing(x, u) => x = w

\* The attempts counter counts the executions: no stale write of an outcome
\* rewinds it, unless the reaper took the unit from a worker still on it.
AttemptsCountRuns ==
    \A u \in Units \ reapedLive : runs[u] = unit[u].attempts

\* Complete and Dead are final, under the same condition.
TerminalStays ==
    [][\A u \in Units \ reapedLive :
          is_terminal(unit[u]) => unit'[u] = unit[u]]_vars

\* A unit waiting for its first or next attempt has a pending key, or the worker
\* that failed it is about to put one.
RetryQueued ==
    \A u \in Units :
        unit[u].status \in {"Pending", "Failed"} =>
            \/ u \in pending
            \/ \E w \in Workers : wk[w].pc = "requeue" /\ wk[w].unit = u

\* The pending queue is headed by a unit nobody can claim: every claim_work_unit
\* looks at that unit only and returns nothing.
HeadBlocked ==
    \E u \in pending : /\ \A v \in pending : u <= v
                       /\ is_terminal(unit[u])

\* Workers that do not fail finish every unit, unless the queue gets blocked:
\* a unit claimed between the two writes of fail_work_unit is still queued when
\* it is finished, and then stays at the head for good.
DoneOrBlocked ==
    <>[](\A u \in Units : is_terminal(unit[u])) \/ <>[]HeadBlocked

\* A worker that stays dead loses its units to a reaper, however many orphans it
\* leaves and however few an iteration takes.  Two cases are out of the reapers'
\* reach, and the units then stay Processing for good: a worker that died before
\* its first heartbeat, because reapers only look for stale records, and a unit
\* behind the first max_work_unit_scan keys.
OrphansReclaimed ==
    \A w \in Workers : \A u \in Scanned :
        <>[](~Alive(w) /\ heartbeat[w] # "none") => <>[](unit[u].owner # w)

\* What a worker's control state implies: the strengthening that makes the
\* invariants above inductive.  A worker past its scan holds a unit; it counts a
\* job while it has one; the record it read before writing an outcome was
\* claimed at least once, and is still the stored one unless the unit was
\* reaped from a live worker.
WorkerInv ==
    \A w \in Workers :
        LET s == wk[w] IN
        /\ s.pc \in {"claiming", "claimed", "processing", "completing",
                     "failing", "requeue"} => s.unit \in Units
        /\ s.pc = "claiming" => s.active < MaxJobs
        /\ s.pc \in {"claimed", "processing", "completing", "failing", "requeue"}
              => s.active >= 1
        /\ s.pc \in {"claimed", "processing", "completing", "failing"}
              => unit[s.unit].attempts >= 1
        /\ s.pc \in {"completing", "failing"} =>
              /\ s.snap.attempts \in 1..MaxAttempts
              /\ s.unit \notin reapedLive => s.snap = unit[s.unit]

IInv == TypeOK /\ RecordConsistent /\ WorkerInv /\ ClaimExclusive /\ AttemptsCountRuns
-----------------------------------------------------------------------------
(* What the documentation says of the units *)

\* reaper.rs, module documentation: a reclaimed unit is retried ("Failed status
\* allows retry via the controller's pending queue").
FailedIsRetried ==
    \A u \in Units : unit[u].status = "Failed" ~> unit[u].status # "Failed"

=============================================================================
