--------------------------- MODULE BatchLifecycle ---------------------------
(***************************************************************************)
(* The phases of one batch, driven by actors that share nothing but TiKV:  *)
(*                                                                         *)
(*   batch/controller.rs     submit, cancel and the reconcile loop         *)
(*   batch/status.rs         the status record                             *)
(*   batch/mod.rs            the phase index                               *)
(*   scanner.rs              discovery: create units, then Running         *)
(*   finalizer/mod.rs        find a finished batch, merge it, close it     *)
(*   merge/coordinator.rs    claim the merge, run it, record the outcome   *)
(*                                                                         *)
(* No actor uses a transaction: each reads the status, computes a new one  *)
(* and later puts it, whatever the store holds by then.  After a change of *)
(* phase it puts the new index key and then deletes the old one.  One TiKV *)
(* call is one step.  The units advance as in WorkUnits.                   *)
(***************************************************************************)
EXTENDS Naturals, Sequences, FiniteSets

CONSTANTS
    Units,          \* the units discovery finds in the batch's source
    Controllers, Scanners, Finalizers, Clients,     \* the actors
    BackoffLimit,   \* backoff_limit of the batch
    Faults,         \* what may go wrong: see FaultKinds
    MaxFaults,      \* how often one of Disturbances happens (bound)
    NoStatus        \* the status key does not exist

FaultKinds == {"crash",     \* an actor's process dies and restarts
               "cancel",    \* the batch is cancelled
               "resubmit",  \* the batch is submitted again
               "tikv",      \* a TiKV call of the finalizer fails for good
               "timeout",   \* discovery takes longer than discovery_timeout
               "unit",      \* a unit fails
               "merge"}     \* the merge executor fails

\* The faults that are counted against MaxFaults
Disturbances == {"crash", "cancel", "resubmit", "tikv", "merge"}

ASSUME ActorsAssumption == NoStatus \notin Units /\ IsFiniteSet(Units)
ASSUME BatchBoundsAssumption == BackoffLimit \in Nat /\ MaxFaults \in Nat
ASSUME BatchFaultsAssumption == Faults \subseteq FaultKinds

Actors == Controllers \cup Scanners \cup Finalizers \cup Clients

VARIABLES
    status,     \* TiKV: the batch's status, or NoStatus
    index,      \* TiKV: the phases whose index prefix holds a key of the batch
    unit,       \* TiKV: the status of each unit, "none" before it is created
    merge,      \* TiKV: the status of the merge state
    act,        \* the control state of each actor
    submits,    \* how often the batch has been submitted
    faults,     \* how many disturbances have happened
    merging,    \* history: how often the merge executor was started (saturating)
    merged,     \* history: the merge executor has succeeded
    lost        \* history: a put has overwritten a status its author had not seen

vars == <<status, index, unit, merge, act, submits, faults, merging, merged, lost>>
-----------------------------------------------------------------------------
(* Suspending and Suspended are never entered.  "MergingPath" is the index key *)
(* transition_to_merging writes: it passes the path below /roboflow/v1/batch/  *)
(* as the batch id, so the key lies under the Merging prefix and ends in the   *)
(* batch id, but is not the key anybody deletes.                               *)
Phase == {"Pending", "Discovering", "Running", "Merging",
          "Complete", "Failed", "Cancelled"}

IndexKey == Phase \cup {"MergingPath"}

Status == [phase : Phase, total : Nat, completed : Nat, failed : Nat,
           files : Nat, scanned : BOOLEAN]

New == [phase |-> "Pending", total |-> 0, completed |-> 0, failed |-> 0,
        files |-> 0, scanned |-> FALSE]

is_active(p) == p \in {"Discovering", "Running", "Merging"}

should_fail(s) == s.failed > BackoffLimit

is_complete(s) == s.total > 0 /\ s.completed + s.failed = s.total

transition_to(s, p) == [s EXCEPT !.phase = p]

Count(S) == Cardinality({u \in Units : unit[u] \in S})

\* Mutant: the failed units are left out of the new total
reconcile_running_FailedLeftOut(s) ==
    LET seen == Count({"Complete", "Processing"})
    IN  [s EXCEPT !.total = IF seen > 0 THEN seen ELSE @,
                  !.completed = Count({"Complete"}), !.failed = Count({"Failed", "Dead"})]

\* Mutant: the controller completes a batch whose units are complete
reconcile_running_Completes(s) ==
    LET completed == Count({"Complete"})
    IN  [s EXCEPT !.completed = completed,
                  !.phase = IF completed > 0 /\ completed = s.total THEN "Complete" ELSE @]

\* The status reconcile_running computes from a scan of the units
reconcile_running(s) ==
    LET completed == Count({"Complete"})
        failed == Count({"Failed", "Dead"})
        processing == Count({"Processing"})
        seen == completed + failed + processing
        counted == [s EXCEPT !.total = IF seen > 0 THEN seen ELSE @,
                             !.files = IF seen > 0 THEN seen ELSE @,
                             !.completed = completed, !.failed = failed]
        revived == IF /\ s.phase = "Failed" /\ failed = 0
                      /\ completed > 0 \/ processing > 0
                   THEN transition_to(counted, "Running") ELSE counted
    IN  IF should_fail(revived) \/ (is_complete(revived) /\ failed > 0)
        THEN transition_to(revived, "Failed") ELSE revived
-----------------------------------------------------------------------------
(* An actor: seen is the stored status it last read or wrote, next the status *)
(* it is about to write, old the phase whose index key it will delete, then   *)
(* where it goes on after the write; found and made say whether its discovery *)
(* found files and how many units it created for them; todo holds the copies  *)
(* of the status a scan cycle has collected and not yet processed.            *)

PC == {"idle", "get", "scan", "put", "index", "unindex", "second", "read", "cleanup",
       "discover", "finalize", "claim", "path", "verify", "prepare", "start",
       "rollback", "execute", "complete", "mergecomplete", "markcomplete",
       "fail", "mergefail", "markfailed"}

ActorState == [pc : PC, seen : Status \cup {NoStatus}, next : Status,
               old : Phase, then : PC, found : BOOLEAN, made : Nat,
               todo : Seq(Status \cup {NoStatus})]

Ready(pc) == [pc |-> pc, seen |-> NoStatus, next |-> New, old |-> "Pending",
              then |-> "idle", found |-> FALSE, made |-> 0, todo |-> <<>>]

Init ==
    /\ status = NoStatus
    /\ index = {}
    /\ unit = [u \in Units |-> "none"]
    /\ merge = "none"
    /\ act = [a \in Actors |-> Ready("idle")]
    /\ submits = 0
    /\ faults = 0
    /\ merging = 0
    /\ merged = FALSE
    /\ lost = FALSE

At(a, pc) == act[a].pc = pc

Goto(a, pc) == act' = [act EXCEPT ![a] = Ready(pc)]

\* The status that was read, or the one a missing key stands for
Read(s) == IF s = NoStatus THEN New ELSE s

Current == Read(status)

\* a read the status and will put new over it, then move the index key from old
Write(a, new, old, then) ==
    act' = [act EXCEPT ![a] = [Ready("put") EXCEPT !.seen = status, !.next = new,
                                                   !.old = old, !.then = then]]

\* scan_cycle goes on with the first of the copies it collected, however old it is
\* by now: initialize_discovery_phase writes only if the copy says Pending
Process(copies) ==
    IF copies = <<>> THEN Ready("idle")
    ELSE LET s == Read(Head(copies))
             batch == [Ready("discover") EXCEPT !.seen = Head(copies), !.next = s,
                                                !.todo = Tail(copies)]
         IN  IF s.phase = "Pending"
             THEN [batch EXCEPT !.pc = "put", !.old = "Pending", !.then = "discover",
                                !.next.phase = "Discovering", !.next.scanned = FALSE]
             ELSE batch

\* What a goes on with after its write: the scanner with its copy of the status, or
\* with the next batch it collected
Resume(a) ==
    CASE act[a].then \in {"discover", "finalize"} ->
           [act[a] EXCEPT !.pc = act[a].then, !.seen = act[a].next, !.old = "Pending",
                          !.then = "idle"]
      [] act[a].then = "idle" -> Process(act[a].todo)
      [] OTHER -> Ready(act[a].then)

tikv == <<status, index, unit, merge>>
history == <<merging, merged, lost>>
ghosts == <<submits, faults, history>>

\* A disturbance of kind k happens
Spend(k) ==
    /\ k \in Faults
    /\ faults < MaxFaults
    /\ faults' = faults + 1

Disturb(k) == Spend(k) /\ UNCHANGED submits
-----------------------------------------------------------------------------
(* The write every actor performs *)

\* a has changed the phase and moves the index key; of the status it wrote, only a
\* scanner that goes on with the batch keeps more than the phase
Moving(a) ==
    IF act[a].then = "discover" THEN [act[a] EXCEPT !.pc = "index", !.seen = act[a].next]
    ELSE [act[a] EXCEPT !.pc = "index", !.seen = NoStatus,
                        !.next = transition_to(New, act[a].next.phase)]

\* The claim of a merge writes a key of its own into the index
Put(a) ==
    /\ At(a, "put")
    /\ status' = act[a].next
    /\ lost' = (lost \/ status # act[a].seen)
    /\ act' = [act EXCEPT ![a] = IF act[a].then = "path" \/ act[a].old = act[a].next.phase
                                 THEN Resume(a) ELSE Moving(a)]
    /\ UNCHANGED <<index, unit, merge, submits, faults, merging, merged>>

\* Mutant: the phases are swapped in the call of update_phase_index
IndexPut_OldPhase(a) ==
    /\ At(a, "index")
    /\ index' = index \cup {act[a].old}
    /\ act' = [act EXCEPT ![a].pc = "unindex"]
    /\ UNCHANGED <<status, unit, merge, ghosts>>

\* update_phase_index
IndexPut(a) ==
    /\ At(a, "index")
    /\ index' = index \cup {act[a].next.phase}
    /\ act' = [act EXCEPT ![a].pc = "unindex"]
    /\ UNCHANGED <<status, unit, merge, ghosts>>

IndexDelete(a) ==
    /\ At(a, "unindex")
    /\ index' = index \ {act[a].old}
    /\ act' = [act EXCEPT ![a] = Resume(a)]
    /\ UNCHANGED <<status, unit, merge, ghosts>>
-----------------------------------------------------------------------------
(* The command line *)

\* submit_batch: one transaction, whether or not the batch exists already
Submit(c) ==
    /\ At(c, "idle")
    /\ IF submits = 0 THEN UNCHANGED faults ELSE Spend("resubmit")
    /\ submits' = submits + 1
    /\ status' = New
    /\ index' = index \cup {"Pending"}
    /\ UNCHANGED <<unit, merge, act, history>>

\* Mutant: a cancelled batch is left Suspending
cancel_batch_Suspending(c) ==
    /\ Disturb("cancel")
    /\ At(c, "idle")
    /\ status # NoStatus
    /\ Write(c, transition_to(status, "Suspending"), status.phase, "idle")
    /\ UNCHANGED <<tikv, history>>

cancel_batch(c) ==
    /\ Disturb("cancel")
    /\ At(c, "idle")
    /\ status # NoStatus
    /\ is_active(status.phase) \/ status.phase = "Pending"
    /\ Write(c, transition_to(status, "Cancelled"), status.phase, "idle")
    /\ UNCHANGED <<tikv, history>>
-----------------------------------------------------------------------------
(* The controller *)

\* The index keys reconcile_all looks at
ActiveKeys == {"Pending", "Discovering", "Running", "Merging", "MergingPath", "Failed"}

reconcile_all(c) ==
    /\ At(c, "idle")
    /\ index \cap ActiveKeys # {}
    /\ Goto(c, "get")
    /\ UNCHANGED <<tikv, ghosts>>

\* reconcile_batch reads the status; reconcile_phase decides, for Running and
\* Failed after a scan of the units.  The status is saved even if unchanged.
reconcile_batch(c) ==
    /\ At(c, "get")
    /\ LET s == Current IN
       \/ /\ s.phase \in {"Complete", "Cancelled"}
          /\ Goto(c, "idle")
       \/ /\ s.phase = "Pending"
          /\ Write(c, [s EXCEPT !.phase = "Discovering", !.scanned = FALSE], s.phase, "idle")
       \/ /\ s.phase \in {"Discovering", "Merging"}
          /\ Write(c, s, s.phase, "idle")
       \/ /\ s.phase \in {"Running", "Failed"}
          /\ act' = [act EXCEPT ![c] = [Ready("scan") EXCEPT !.seen = status]]
    /\ UNCHANGED <<tikv, ghosts>>

\* reconcile_discovering, when the batch is older than discovery_timeout
DiscoveryTimeout(c) ==
    /\ "timeout" \in Faults
    /\ At(c, "get")
    /\ Current.phase = "Discovering"
    /\ Write(c, transition_to(Current, "Failed"), "Discovering", "idle")
    /\ UNCHANGED <<tikv, ghosts>>

ScanUnits(c) ==
    /\ At(c, "scan")
    /\ act' = [act EXCEPT ![c].pc = "put",
                          ![c].next = reconcile_running(act[c].seen),
                          ![c].old = act[c].seen.phase]
    /\ UNCHANGED <<tikv, ghosts>>
-----------------------------------------------------------------------------
(* The scanner that holds the leader lock; the batch has one source *)

\* get_pending_batches: where it goes after the keys under prefix p
Collected(p, copies) ==
    IF p = "Pending" THEN [Ready("second") EXCEPT !.todo = copies] ELSE Process(copies)

\* It scans the Pending prefix and then the Discovering prefix, and may find the
\* batch under both
ScanPrefix(s) ==
    /\ act[s].pc \in {"idle", "second"}
    /\ LET p == IF At(s, "idle") THEN "Pending" ELSE "Discovering"
       IN  act' = [act EXCEPT ![s] =
                      IF p \in index THEN [act[s] EXCEPT !.pc = "read", !.old = p]
                      ELSE Collected(p, act[s].todo)]
    /\ UNCHANGED <<tikv, ghosts>>

GetStatus(s) ==
    /\ At(s, "read")
    /\ act' = [act EXCEPT ![s] =
                  IF Current.phase \in {"Pending", "Discovering"}
                  THEN Collected(act[s].old, Append(act[s].todo, status))
                  ELSE [act[s] EXCEPT !.pc = "cleanup"]]
    /\ UNCHANGED <<tikv, ghosts>>

\* The index key does not agree with the status: the scanner deletes it
CleanStaleKey(s) ==
    /\ At(s, "cleanup")
    /\ index' = index \ {act[s].old}
    /\ act' = [act EXCEPT ![s] = Collected(act[s].old, act[s].todo)]
    /\ UNCHANGED <<status, unit, merge, ghosts>>

get_pending_batches(s) == ScanPrefix(s) \/ GetStatus(s) \/ CleanStaleKey(s)

\* process_batch: units for the files that have none, then the status is saved
\* with the source counted; a source counted earlier is skipped
process_batch(s) ==
    /\ At(s, "discover")
    /\ \/ /\ act[s].next.scanned
          /\ act' = [act EXCEPT ![s].pc = "finalize"]
          /\ UNCHANGED unit
       \/ /\ ~act[s].next.scanned
          /\ unit' = [u \in Units |-> IF unit[u] = "none" THEN "Pending" ELSE unit[u]]
          /\ act' = [act EXCEPT ![s] =
               [@ EXCEPT !.pc = "put", !.old = "Discovering", !.then = "finalize",
                         !.found = Units # {}, !.made = Count({"none"}),
                         !.next.scanned = TRUE,
                         !.next.files = @ + Cardinality(Units)]]
    /\ UNCHANGED <<status, index, merge, ghosts>>

finalize_batch_phase(s) ==
    /\ At(s, "finalize")
    /\ act' = [act EXCEPT ![s] =
         [@ EXCEPT !.pc = "put", !.old = "Discovering", !.then = "idle",
                   !.found = FALSE, !.made = 0,
                   !.next = IF act[s].found
                            THEN [@ EXCEPT !.phase = "Running", !.total = act[s].made]
                            ELSE transition_to(@, "Failed")]]
    /\ UNCHANGED <<tikv, ghosts>>
-----------------------------------------------------------------------------
(* The finalizer and the merge coordinator *)

\* Mutant: strictly more finished files than files
find_batch_awaiting_finalization_OffByOne(f) ==
    /\ At(f, "idle")
    /\ status # NoStatus
    /\ status.phase = "Running"
    /\ status.files > 0
    /\ status.completed + status.failed > status.files
    /\ Goto(f, "claim")
    /\ UNCHANGED <<tikv, ghosts>>

find_batch_awaiting_finalization(f) ==
    /\ At(f, "idle")
    /\ status # NoStatus
    /\ status.phase = "Running"
    /\ status.files > 0
    /\ status.completed + status.failed >= status.files
    /\ Goto(f, "claim")
    /\ UNCHANGED <<tikv, ghosts>>

\* Mutant: the phase found before is not checked again
try_claim_merge_Unchecked(f) ==
    /\ At(f, "claim")
    /\ IF status # NoStatus /\ is_complete(Current)
       THEN Write(f, transition_to(status, "Merging"), "Running", "path")
       ELSE Goto(f, "idle")
    /\ UNCHANGED <<tikv, ghosts>>

\* try_claim_merge up to the put of transition_to_merging
try_claim_merge(f) ==
    /\ At(f, "claim")
    /\ IF status # NoStatus /\ Current.phase = "Running" /\ is_complete(Current)
       THEN Write(f, transition_to(status, "Merging"), "Running", "path")
       ELSE Goto(f, "idle")
    /\ UNCHANGED <<tikv, ghosts>>

\* ... its index update; the key it deletes was never written
transition_to_merging(f) ==
    /\ At(f, "path")
    /\ index' = index \cup {"MergingPath"}
    /\ Goto(f, "verify")
    /\ UNCHANGED <<status, unit, merge, ghosts>>

verify_cas_won(f) ==
    /\ At(f, "verify")
    /\ Goto(f, IF status = NoStatus THEN "idle" ELSE "prepare")
    /\ UNCHANGED <<tikv, ghosts>>

\* Mutant: a merge state that was started before is taken for ready
ensure_merge_ready_Always(f) ==
    /\ At(f, "prepare")
    /\ Goto(f, "start")
    /\ UNCHANGED <<tikv, ghosts>>

\* get_or_create_merge_state and ensure_merge_ready, for one expected worker: a
\* stored state has been started, so only a missing one is ready
ensure_merge_ready(f) ==
    /\ At(f, "prepare")
    /\ Goto(f, IF merge = "none" THEN "start" ELSE "rollback")
    /\ UNCHANGED <<tikv, ghosts>>

rollback_to_running(f) ==
    /\ At(f, "rollback")
    /\ status' = NoStatus
    /\ Goto(f, "idle")
    /\ UNCHANGED <<index, unit, merge, ghosts>>

\* save_merge_state; the executor starts
start_merge(f) ==
    /\ At(f, "start")
    /\ merge' = "InProgress"
    /\ merging' = IF merging < 2 THEN merging + 1 ELSE merging
    /\ Goto(f, "execute")
    /\ UNCHANGED <<status, index, unit, submits, faults, merged, lost>>

execute_merge(f) ==
    /\ At(f, "execute")
    /\ \/ merged' = TRUE /\ Goto(f, "complete") /\ UNCHANGED <<submits, faults>>
       \/ merged' = merged /\ Goto(f, "fail") /\ Disturb("merge")
    /\ UNCHANGED <<tikv, merging, lost>>

\* Reads the status, whatever its phase is, to put p over it; a missing status
\* is an error
Close(f, pc, p, old, then, error) ==
    /\ At(f, pc)
    /\ IF status = NoStatus THEN Goto(f, error)
       ELSE Write(f, transition_to(status, p), IF old = "read" THEN status.phase ELSE old, then)
    /\ UNCHANGED <<tikv, ghosts>>

complete_merge_with_status(f) ==
    Close(f, "complete", "Complete", "Merging", "mergecomplete", "markfailed")

mark_batch_complete(f) ==
    Close(f, "markcomplete", "Complete", "read", "idle", "markfailed")

fail_merge_with_status(f) ==
    Close(f, "fail", "Failed", "read", "mergefail", "markfailed")

mark_batch_failed(f) ==
    Close(f, "markfailed", "Failed", "read", "idle", "idle")

SaveMergeState(f) ==
    /\ \/ At(f, "mergecomplete") /\ merge' = "Complete" /\ Goto(f, "markcomplete")
       \/ At(f, "mergefail") /\ merge' = "Failed" /\ Goto(f, "markfailed")
    /\ UNCHANGED <<status, index, unit, ghosts>>

\* run: an error of finalize_batch marks the batch failed
FinalizerError(f) ==
    /\ Disturb("tikv")
    /\ \/ act[f].pc \in {"claim", "path", "verify", "prepare", "start", "complete",
                         "mergecomplete", "markcomplete", "fail", "mergefail"}
       \/ At(f, "put") /\ act[f].then # "idle"
    /\ Goto(f, "markfailed")
    /\ UNCHANGED <<tikv, history>>
-----------------------------------------------------------------------------
(* The rest of the system *)

\* A worker claims, completes or fails a unit: see WorkUnits
WorkerStep(u) ==
    /\ \/ unit[u] \in {"Pending", "Failed"} /\ unit' = [unit EXCEPT ![u] = "Processing"]
       \/ unit[u] = "Processing" /\ unit' = [unit EXCEPT ![u] = "Complete"]
       \/ /\ "unit" \in Faults
          /\ unit[u] = "Processing"
          /\ \E s \in {"Failed", "Dead"} : unit' = [unit EXCEPT ![u] = s]
    /\ UNCHANGED <<status, index, merge, act, ghosts>>

\* The process of an actor dies in the middle of an operation and starts again
Crash(a) ==
    /\ Disturb("crash")
    /\ ~At(a, "idle")
    /\ Goto(a, "idle")
    /\ UNCHANGED <<tikv, history>>
-----------------------------------------------------------------------------
WriteStep(a) == Put(a) \/ IndexPut(a) \/ IndexDelete(a)

ControllerStep(c) == reconcile_all(c) \/ reconcile_batch(c) \/ ScanUnits(c)

ScannerStep(s) ==
    get_pending_batches(s) \/ process_batch(s) \/ finalize_batch_phase(s)

MergeStep(f) ==
    \/ try_claim_merge(f) \/ transition_to_merging(f) \/ verify_cas_won(f)
    \/ ensure_merge_ready(f) \/ rollback_to_running(f) \/ start_merge(f)
    \/ execute_merge(f) \/ complete_merge_with_status(f) \/ fail_merge_with_status(f)
    \/ SaveMergeState(f)

FinalizerStep(f) ==
    \/ find_batch_awaiting_finalization(f) \/ MergeStep(f)
    \/ mark_batch_complete(f) \/ mark_batch_failed(f)

Next ==
    \/ \E a \in Actors : WriteStep(a) \/ Crash(a)
    \/ \E c \in Clients : Submit(c) \/ cancel_batch(c)
    \/ \E c \in Controllers : ControllerStep(c) \/ DiscoveryTimeout(c)
    \/ \E s \in Scanners : ScannerStep(s)
    \/ \E f \in Finalizers : FinalizerStep(f) \/ FinalizerError(f)
    \/ \E u \in Units : WorkerStep(u)

Spec == Init /\ [][Next]_vars

(* The loops of the controller, the scanner and the finalizer poll forever, the *)
(* workers drain the queue, and a batch that stays in Discovering grows older   *)
(* than discovery_timeout.                                                      *)
Fairness ==
    /\ \A a \in Actors : WF_vars(WriteStep(a))
    /\ \A c \in Controllers : WF_vars(ControllerStep(c)) /\ SF_vars(DiscoveryTimeout(c))
    /\ \A s \in Scanners : WF_vars(ScannerStep(s))
    /\ \A f \in Finalizers : WF_vars(FinalizerStep(f))
    /\ \A u \in Units : WF_vars(WorkerStep(u))

FairSpec == Spec /\ Fairness
-----------------------------------------------------------------------------
(* Every variable has its type *)
TypeOK ==
    /\ status \in Status \cup {NoStatus}
    /\ index \subseteq IndexKey
    /\ unit \in [Units -> {"none", "Pending", "Processing", "Complete", "Failed", "Dead"}]
    /\ merge \in {"none", "InProgress", "Complete", "Failed"}
    /\ act \in [Actors -> ActorState]
    /\ submits \in 0 .. MaxFaults + 1
    /\ faults \in 0..MaxFaults
    /\ merging \in 0..2
    /\ merged \in BOOLEAN
    /\ lost \in BOOLEAN

(* No status an actor stores counts more finished units than units: is_complete *)
(* compares the two for equality, so the batch would never be merged.  The      *)
(* counts come from scans, the total from the scanner or from a scan, and stale *)
(* copies of both are written back.                                             *)
CountsFit ==
    status # NoStatus => status.completed + status.failed <= status.total

(* A batch is Complete only after a merge has succeeded: the controller never   *)
(* completes a batch itself, and the finalizer only after the executor returns. *)
CompleteWasMerged ==
    status # NoStatus /\ Current.phase = "Complete" => merged

(* The merge executor runs at most once for a batch, whatever crashes, failed   *)
(* calls, cancellations and resubmissions happen, with one finalizer            *)
MergedOnce == merging <= 1

(* With one controller, nobody cancelling and no crash, a batch that is not     *)
(* closed has an index key under a prefix reconcile_all scans, or an actor is   *)
(* about to write one: the controller never loses the batch, although every     *)
(* actor deletes keys it read long ago                                          *)
IndexLeads ==
    status # NoStatus /\ Current.phase \notin {"Complete", "Cancelled"}
        => \/ index \cap ActiveKeys # {}
           \/ \E a \in Actors : At(a, "index") /\ act[a].next.phase \in ActiveKeys

\* can_transition_to
can_transition_to(p, q) ==
    \/ p = "Pending" /\ q \in {"Discovering", "Failed", "Cancelled"}
    \/ p = "Discovering" /\ q \in {"Running", "Failed", "Cancelled"}
    \/ p = "Running" /\ q \in {"Merging", "Failed", "Cancelled"}
    \/ p = "Merging" /\ q \in {"Complete", "Failed"}

(* As long as no write has overwritten a status its author had not seen, a      *)
(* batch changes phase as can_transition_to says, with three exceptions: the    *)
(* controller revives a Failed batch whose units are being retried, a batch can *)
(* be cancelled while it merges, and a finalizer whose merge succeeded or       *)
(* failed closes the batch whatever its phase has become                        *)
PhaseSteps ==
    [][status # NoStatus /\ status' # NoStatus /\ ~lost' /\ submits' = submits
       => LET p == status.phase
              q == status'.phase
          IN  \/ p = q \/ can_transition_to(p, q)
              \/ p = "Failed" /\ q = "Running"
              \/ p = "Merging" /\ q = "Cancelled"
              \/ merged /\ q = "Complete"
              \/ q = "Failed" /\ \E f \in Finalizers : At(f, "put")]_vars

(* A submitted batch does not hang: it is merged, or it is Failed because its   *)
(* discovery took too long or a unit failed, if no process fails and nobody     *)
(* cancels.  A stale save of the controller may put it back to Discovering when *)
(* its key has left the prefixes the scanner reads; the timeout then ends it.   *)
BatchSettles ==
    submits > 0 ~> (merged \/ (status # NoStatus /\ Current.phase = "Failed"))
-----------------------------------------------------------------------------
(* finalizer/mod.rs:7 "triggers merge operations when all work units are        *)
(* complete": when the executor starts, every unit is finished for good         *)
MergeAfterAllDone ==
    [][merging' > merging => \A u \in Units : unit[u] \in {"Complete", "Dead"}]_vars

=============================================================================
