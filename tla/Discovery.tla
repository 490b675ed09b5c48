------------------------------ MODULE Discovery ------------------------------
(***************************************************************************)
(* Discovery of one batch with several sources: scanner.rs.  The scanner   *)
(* that holds the leader lock (LockManager) looks for the batch in the     *)
(* phase index, lists its sources one after the other, creates a work unit *)
(* for every file that has none, and makes the batch Running or Failed.    *)
(*                                                                         *)
(* Meanwhile the reconcile loop of every controller reads the status of    *)
(* the batch and puts it back, whatever the store holds by then:           *)
(* batch/controller.rs.                                                    *)
(*                                                                         *)
(* One TiKV call, and one listing of a source, is one step.  The counts of *)
(* files and units in the status are in BatchLifecycle; here a status is   *)
(* its phase and the number of sources scanned.                            *)
(***************************************************************************)
EXTENDS Integers, FiniteSets, Sequences

CONSTANTS
    Scanners, Controllers,
    N,                      \* the number of sources
    FilesOf,                \* the files of each source, by their hashes
    batch_size,             \* how many units are put in one transaction
    max_batches_per_cycle,  \* when get_pending_batches has enough
    Faults,                 \* what may go wrong: see FaultKinds
    MaxFaults               \* how often (bound)

FaultKinds ==
    {"crash",   \* an actor dies, or a failing read ends its cycle
     "tikv",    \* a write of the status or the index reports an error
     "source",  \* a source cannot be listed, or its units cannot be written
     "lease"}   \* a scanner takes over from a leader that is still working

Files == UNION {FilesOf[i] : i \in 1 .. N}

ASSUME SourcesAssumption ==
    /\ N \in Nat
    /\ FilesOf \in [1 .. N -> SUBSET Files]
    /\ IsFiniteSet(Files)
ASSUME BoundsAssumption ==
    batch_size \in Nat \ {0} /\ max_batches_per_cycle \in Nat /\ MaxFaults \in Nat
ASSUME FaultsAssumption == Faults \subseteq FaultKinds

VARIABLES
    status,     \* TiKV: the status of the batch
    reopened,   \* history: an unfinished phase was stored over a finished one
    index,      \* TiKV: the phases whose prefix holds a key of the batch
    unit,       \* TiKV: the unit of each file, with its queue key while Pending
    pc,         \* where each scanner is
    prefix,     \* the index prefix it reads
    todo,       \* the snapshots of the status it found
    st,         \* the status it works on
    src,        \* the source it is at
    new,        \* the files of that source still to get a unit
    found,      \* whether files_discovered is above 0
    ctl,        \* the control state of each controller
    faults,     \* how many faults have happened
    happened    \* history: the kinds of fault that have happened

saved == <<status, reopened>>
tikv == <<saved, index, unit>>
list == <<prefix, todo>>
work == <<st, src, new, found>>
scanner == <<pc, list, work>>
ghosts == <<faults, happened>>
vars == <<tikv, scanner, ctl, ghosts>>
-----------------------------------------------------------------------------
Phase == {"Pending", "Discovering", "Running", "Failed"}

\* scanned: sources_scanned of the discovery status
Status == [phase : Phase, scanned : 0 .. N]

\* Discovery of a batch with status x is not over
Open(x) == x.phase \in {"Pending", "Discovering"}

Location == {"idle", "scan", "get", "clean", "next", "init", "source", "create", "save",
             "put", "index", "unindex"}

\* A controller: next is the status it has read or is about to put, old the
\* phase it read
ControllerState == [pc : {"idle", "get", "scan", "put", "index", "unindex"},
                    next : Status, old : Phase]

Submitted == [phase |-> "Pending", scanned |-> 0]

Waiting == [pc |-> "idle", next |-> Submitted, old |-> "Pending"]

Init ==
    /\ status = Submitted
    /\ reopened = FALSE
    /\ index = {"Pending"}
    /\ unit = [f \in Files |-> "none"]
    /\ pc = [s \in Scanners |-> "idle"]
    /\ prefix = [s \in Scanners |-> "Pending"]
    /\ todo = [s \in Scanners |-> <<>>]
    /\ st = [s \in Scanners |-> Submitted]
    /\ src = [s \in Scanners |-> 1]
    /\ new = [s \in Scanners |-> {}]
    /\ found = [s \in Scanners |-> FALSE]
    /\ ctl = [c \in Controllers |-> Waiting]
    /\ faults = 0
    /\ happened = {}

Goto(s, p) == pc' = [pc EXCEPT ![s] = p]
Step(s, p, q) == pc[s] = p /\ Goto(s, q)

Fault(k) ==
    /\ k \in Faults
    /\ faults < MaxFaults
    /\ faults' = faults + 1
    /\ happened' = happened \cup {k}

\* save_batch_status and save_status put x whatever is stored
Save(x) ==
    /\ status' = x
    /\ reopened' = (reopened \/ (Open(x) /\ ~Open(status)))

\* A write: it takes effect and the scanner goes on, or process_batch gives up
\* with an error, which says nothing about the effect
Write(s, p, effect, kept, q) ==
    \/ Step(s, p, q) /\ effect /\ UNCHANGED ghosts
    \/ Step(s, p, "next") /\ (effect \/ UNCHANGED kept) /\ Fault("tikv")
-----------------------------------------------------------------------------
(* The scan cycle *)

\* The lock keeps the others out for the whole cycle, unless the leader loses it
\* unawares: nothing in the cycle looks at the lock again
try_become_leader(s) ==
    /\ Step(s, "idle", "scan")
    /\ IF \A t \in Scanners : pc[t] = "idle" THEN UNCHANGED ghosts ELSE Fault("lease")
    /\ UNCHANGED <<tikv, list, work>>

\* Mutant: only the Pending prefix is read
NextPrefix_PendingOnly(s, snapshots) ==
    /\ todo' = [todo EXCEPT ![s] = snapshots]
    /\ Goto(s, "next")
    /\ UNCHANGED prefix

\* get_pending_batches reads the Pending prefix, then the Discovering prefix
\* unless it has enough batches
NextPrefix(s, snapshots) ==
    /\ todo' = [todo EXCEPT ![s] = snapshots]
    /\ IF prefix[s] = "Pending" /\ Len(snapshots) < max_batches_per_cycle
       THEN Goto(s, "scan") /\ prefix' = [prefix EXCEPT ![s] = "Discovering"]
       ELSE Goto(s, "next") /\ UNCHANGED prefix

ScanPrefix(s) ==
    /\ pc[s] = "scan"
    /\ IF prefix[s] \in index THEN Goto(s, "get") /\ UNCHANGED list
       ELSE NextPrefix(s, todo[s])
    /\ UNCHANGED <<tikv, work, ghosts>>

\* A batch in either phase is taken, whatever the prefix that led to it
GetStatus(s) ==
    /\ pc[s] = "get"
    /\ IF Open(status)
       THEN NextPrefix(s, Append(todo[s], status))
       ELSE Goto(s, "clean") /\ UNCHANGED list
    /\ UNCHANGED <<tikv, work, ghosts>>

\* The key of another phase is stale and deleted; a failure is only logged
CleanStaleKey(s) ==
    /\ pc[s] = "clean"
    /\ \/ index' = index \ {prefix[s]} /\ UNCHANGED ghosts
       \/ Fault("tikv") /\ UNCHANGED index
    /\ NextPrefix(s, todo[s])
    /\ UNCHANGED <<saved, unit, work>>

\* scan_cycle: process_batch of the next snapshot
StartBatch(s) ==
    /\ todo[s] # <<>>
    /\ Step(s, "next", "init")
    /\ st' = [st EXCEPT ![s] = Head(todo[s])]
    /\ todo' = [todo EXCEPT ![s] = Tail(todo[s])]
    /\ found' = [found EXCEPT ![s] = FALSE]
    /\ UNCHANGED <<tikv, prefix, src, new, ghosts>>

\* The locals of a cycle end with it
Forget(s) ==
    /\ Goto(s, "idle")
    /\ prefix' = [prefix EXCEPT ![s] = "Pending"]
    /\ todo' = [todo EXCEPT ![s] = <<>>]
    /\ st' = [st EXCEPT ![s] = Submitted]
    /\ src' = [src EXCEPT ![s] = 1]
    /\ new' = [new EXCEPT ![s] = {}]
    /\ found' = [found EXCEPT ![s] = FALSE]

\* Nothing left to process: sleep, and release the lock
EndCycle(s) ==
    /\ pc[s] = "next"
    /\ todo[s] = <<>>
    /\ Forget(s)
    /\ UNCHANGED <<tikv, ghosts>>
-----------------------------------------------------------------------------
(* process_batch *)

\* Mutant: the sources scanned before are not skipped
ResumeAt_First(s) == 1

\* process_batch skips as many sources as were scanned before
ResumeAt(s) == st[s].scanned + 1

\* Only a Pending batch is initialised; another one goes on where it was left
initialize_discovery_phase(s) ==
    /\ IF st[s].phase = "Pending"
       THEN /\ Step(s, "init", "put")
            /\ st' = [st EXCEPT ![s] = [phase |-> "Discovering", scanned |-> 0]]
            /\ src' = [src EXCEPT ![s] = 1]
       ELSE /\ Step(s, "init", "source")
            /\ src' = [src EXCEPT ![s] = ResumeAt(s)]
            /\ UNCHANGED st
    /\ UNCHANGED <<tikv, list, new, found, ghosts>>

\* check_existing_work_units
Existing == {f \in Files : unit[f] # "none"}

\* Mutant: the existing units are not looked up
NewFiles_All(i) == FilesOf[i]

NewFiles(i) == FilesOf[i] \ Existing

\* process_single_source up to the first write: list the files, drop the ones
\* that have a unit
ListSource(s) ==
    /\ src[s] <= N
    /\ Step(s, "source", "create")
    /\ new' = [new EXCEPT ![s] = NewFiles(src[s])]
    /\ UNCHANGED <<tikv, list, st, src, found, ghosts>>

\* create_work_units_for_files, for the next chunk of new_files, in any order:
\* the units and their queue keys, in one write that does not look at the
\* stored units
PutChunk(s, chunk) ==
    /\ pc[s] = "create"
    /\ new[s] # {}
    /\ Cardinality(chunk) = IF Cardinality(new[s]) < batch_size
                            THEN Cardinality(new[s]) ELSE batch_size
    /\ unit' = [f \in Files |-> IF f \in chunk THEN "Pending" ELSE unit[f]]

create_work_units_for_files(s) ==
    /\ \E chunk \in SUBSET new[s] :
         /\ PutChunk(s, chunk)
         /\ new' = [new EXCEPT ![s] = new[s] \ chunk]
    /\ UNCHANGED <<saved, index, pc, list, st, src, found, ghosts>>

\* A source that cannot be listed, or one of whose chunks reports an error, is
\* logged and passed over, without being counted
SourceFails(s) ==
    /\ src[s] <= N
    /\ \/ pc[s] = "source" /\ UNCHANGED unit
       \/ pc[s] = "create" /\ new[s] # {} /\ UNCHANGED unit
       \/ \E chunk \in SUBSET new[s] : PutChunk(s, chunk)
    /\ Fault("source")
    /\ Goto(s, "source")
    /\ src' = [src EXCEPT ![s] = src[s] + 1]
    /\ new' = [new EXCEPT ![s] = {}]
    /\ UNCHANGED <<saved, index, list, st, found>>

\* Mutant: a source counts as scanned before all its units exist
SourceDone_Early(s) ==
    /\ Step(s, "create", "save")
    /\ found' = [found EXCEPT ![s] = found[s] \/ FilesOf[src[s]] # {}]
    /\ st' = [st EXCEPT ![s] = [phase |-> st[s].phase, scanned |-> st[s].scanned + 1]]
    /\ UNCHANGED <<tikv, list, src, new, ghosts>>

\* After the last chunk: add_files and increment_scanned
SourceDone(s) ==
    /\ new[s] = {}
    /\ Step(s, "create", "save")
    /\ found' = [found EXCEPT ![s] = found[s] \/ FilesOf[src[s]] # {}]
    /\ st' = [st EXCEPT ![s] = [phase |-> st[s].phase, scanned |-> st[s].scanned + 1]]
    /\ UNCHANGED <<tikv, list, src, new, ghosts>>

SaveSource(s) ==
    /\ Write(s, "save", Save(st[s]), saved, "source")
    /\ src' = [src EXCEPT ![s] = src[s] + 1]
    /\ UNCHANGED <<index, unit, list, st, new, found>>
-----------------------------------------------------------------------------
\* finalize_batch_phase: nothing to do while a source is missing; otherwise the
\* files of THIS cycle decide (units are only created for files found)
StaysOpen(s) ==
    /\ src[s] = N + 1
    /\ st[s].scanned < N
    /\ Step(s, "source", "next")
    /\ UNCHANGED <<tikv, list, work, ghosts>>

finalize_batch_phase(s) ==
    /\ src[s] = N + 1
    /\ st[s].scanned >= N
    /\ Step(s, "source", "put")
    /\ st' = [st EXCEPT ![s] =
                [phase |-> IF found[s] THEN "Running" ELSE "Failed",
                 scanned |-> st[s].scanned]]
    /\ UNCHANGED <<tikv, list, src, new, found, ghosts>>

\* save_batch_status of the new phase
SavePhase(s) ==
    /\ Write(s, "put", Save(st[s]), saved, "index")
    /\ UNCHANGED <<index, unit, list, work>>

\* Mutant: the old key is deleted first
IndexFirst_Delete(s) ==
    index' = index \ {IF st[s].phase = "Discovering" THEN "Pending" ELSE "Discovering"}

\* update_phase_index: put the key of the new phase
IndexFirst(s) == index' = index \cup {st[s].phase}

\* and then delete the key of the phase before
IndexSecond(s) ==
    index' = index \ {IF st[s].phase = "Discovering" THEN "Pending" ELSE "Discovering"}

PutIndex(s) ==
    /\ Write(s, "index", IndexFirst(s), index, "unindex")
    /\ UNCHANGED <<saved, unit, list, work>>

DeleteIndex(s) ==
    /\ Write(s, "unindex", IndexSecond(s), index,
             IF st[s].phase = "Discovering" THEN "source" ELSE "next")
    /\ UNCHANGED <<saved, unit, list, work>>

Crash(s) ==
    /\ pc[s] # "idle"
    /\ Fault("crash")
    /\ Forget(s)
    /\ UNCHANGED tikv
-----------------------------------------------------------------------------
(* The controller *)

CtlGoto(c, p) ==
    ctl' = [ctl EXCEPT ![c] = IF p = "idle" THEN Waiting ELSE [ctl[c] EXCEPT !.pc = p]]

\* Every phase of this model is one reconcile_all looks for
reconcile_all(c) ==
    /\ ctl[c].pc = "idle"
    /\ index # {}
    /\ CtlGoto(c, "get")
    /\ UNCHANGED <<tikv, ghosts>>

Decide(c, p, x) ==
    ctl' = [ctl EXCEPT ![c] = [pc |-> p, next |-> x, old |-> status.phase]]

\* reconcile_batch reads the status; reconcile_phase makes a Pending batch
\* Discovering and leaves a Discovering one as it is
reconcile_batch(c) ==
    /\ ctl[c].pc = "get"
    /\ \/ /\ status.phase = "Pending"
          /\ Decide(c, "put", [phase |-> "Discovering", scanned |-> 0])
       \/ status.phase = "Discovering" /\ Decide(c, "put", status)
       \/ ~Open(status) /\ Decide(c, "scan", status)
    /\ UNCHANGED <<tikv, ghosts>>

\* reconcile_discovering, when the batch is older than discovery_timeout
DiscoveryTimeout(c) ==
    /\ ctl[c].pc = "get"
    /\ status.phase = "Discovering"
    /\ Decide(c, "put", [phase |-> "Failed", scanned |-> status.scanned])
    /\ UNCHANGED <<tikv, ghosts>>

\* reconcile_running scans the units: the outcome of those that were claimed
\* decides between Running and Failed
reconcile_running(c) ==
    /\ ctl[c].pc = "scan"
    /\ \E p \in IF \E f \in Files : unit[f] = "Claimed" THEN {"Running", "Failed"}
                ELSE {ctl[c].old} :
         ctl' = [ctl EXCEPT ![c] = [pc |-> "put", old |-> ctl[c].old,
                                    next |-> [phase |-> p, scanned |-> ctl[c].next.scanned]]]
    /\ UNCHANGED <<tikv, ghosts>>

\* A write of the controller: it takes effect and reconcile_batch goes on, or
\* ends with an error
CtlWrite(c, p, effect, kept, q) ==
    /\ ctl[c].pc = p
    /\ \/ effect /\ CtlGoto(c, q) /\ UNCHANGED ghosts
       \/ /\ effect \/ UNCHANGED kept
          /\ CtlGoto(c, "idle")
          /\ Fault("tikv")

\* The status is saved even if it is the one that was read
SaveStatus(c) ==
    /\ CtlWrite(c, "put", Save(ctl[c].next), saved,
                IF ctl[c].next.phase = ctl[c].old THEN "idle" ELSE "index")
    /\ UNCHANGED <<index, unit>>

\* update_phase_index
MoveIndex(c) ==
    /\ \/ CtlWrite(c, "index", index' = index \cup {ctl[c].next.phase}, index, "unindex")
       \/ CtlWrite(c, "unindex", index' = index \ {ctl[c].old}, index, "idle")
    /\ UNCHANGED <<saved, unit>>

CtlCrash(c) ==
    /\ ctl[c].pc # "idle"
    /\ Fault("crash")
    /\ CtlGoto(c, "idle")
    /\ UNCHANGED tikv
-----------------------------------------------------------------------------
\* A worker takes the unit from the queue; what becomes of a "Claimed" unit is in
\* WorkUnits
Claim(f) ==
    /\ unit[f] = "Pending"
    /\ unit' = [unit EXCEPT ![f] = "Claimed"]
    /\ UNCHANGED <<saved, index, ghosts>>
-----------------------------------------------------------------------------
get_pending_batches(s) == ScanPrefix(s) \/ GetStatus(s) \/ CleanStaleKey(s)

process_single_source(s) ==
    \/ ListSource(s) \/ SourceFails(s) \/ create_work_units_for_files(s)
    \/ SourceDone(s) \/ SaveSource(s)

process_batch(s) ==
    \/ initialize_discovery_phase(s) \/ process_single_source(s)
    \/ StaysOpen(s) \/ finalize_batch_phase(s)
    \/ SavePhase(s) \/ PutIndex(s) \/ DeleteIndex(s)

scan_cycle(s) ==
    \/ get_pending_batches(s) \/ StartBatch(s) \/ process_batch(s) \/ EndCycle(s)

reconcile(c) ==
    reconcile_all(c) \/ reconcile_batch(c) \/ reconcile_running(c) \/ SaveStatus(c) \/ MoveIndex(c)

ScannerStep ==
    /\ \E s \in Scanners : try_become_leader(s) \/ scan_cycle(s) \/ Crash(s)
    /\ UNCHANGED ctl

ControllerStep ==
    /\ \E c \in Controllers : reconcile(c) \/ DiscoveryTimeout(c) \/ CtlCrash(c)
    /\ UNCHANGED scanner

WorkerStep ==
    /\ \E f \in Files : Claim(f)
    /\ UNCHANGED <<scanner, ctl>>

Next == ScannerStep \/ ControllerStep \/ WorkerStep

Spec == Init /\ [][Next]_vars

\* Some scanner keeps becoming leader (run loops for ever; LeaderReturns of
\* LockManager), the leader's cycle goes on, and so does the reconcile loop
FairSpec ==
    /\ Spec
    /\ WF_scanner(\E s \in Scanners : try_become_leader(s))
    /\ \A s \in Scanners : WF_scanner(scan_cycle(s))
    /\ \A c \in Controllers : WF_ctl(reconcile(c))
-----------------------------------------------------------------------------
(* Every variable has its type *)
TypeOK ==
    /\ status \in Status
    /\ reopened \in BOOLEAN
    /\ index \subseteq Phase
    /\ unit \in [Files -> {"none", "Pending", "Claimed"}]
    /\ pc \in [Scanners -> Location]
    /\ prefix \in [Scanners -> Phase]
    /\ todo \in [Scanners -> Seq(Status)]
    /\ st \in [Scanners -> Status]
    /\ src \in [Scanners -> 1 .. N + 1]
    /\ new \in [Scanners -> SUBSET Files]
    /\ found \in [Scanners -> BOOLEAN]
    /\ ctl \in [Controllers -> ControllerState]
    /\ faults \in Nat
    /\ happened \subseteq FaultKinds

(* The files of the sources that a status counts as scanned all have a unit *)
Covered(x) ==
    \A i \in 1 .. N : i <= x.scanned => \A f \in FilesOf[i] : unit[f] # "none"

(* process_batch skips as many sources as the stored status counts.  Each of   *)
(* them has a unit for every file, wherever an actor died, a write failed, two *)
(* leaders worked at once or the controller stored a stale copy, as long as no *)
(* source was passed over                                                      *)
ScannedIsCovered == "source" \notin happened => Covered(status)

(* An unfinished batch stays under a prefix that get_pending_batches reads,    *)
(* whatever dies or fails between the status and the index, and although the   *)
(* controller, a leader and its successor move the same keys, until a stale    *)
(* copy is saved over the end of discovery: the controller, or a leader the    *)
(* discovery timeout or a lost lease has overtaken, may put Discovering back   *)
(* when the key has left those prefixes, and no scanner finds the batch again  *)
Findable ==
    ~reopened /\ Open(status) => index \cap {"Pending", "Discovering"} # {}

(* With one leader at a time, creating units never resets one that a worker    *)
(* has claimed, although the put does not look at the stored unit              *)
ClaimsKept ==
    "lease" \notin happened' =>
        \A f \in Files : unit[f] = "Claimed" => unit'[f] = "Claimed"
ProgressKept == [][ClaimsKept]_vars

\* Discovery has ended for good, or no index key leads to the batch
Settles == <>[](~Open(status)) \/ <>[](index = {})

(* Discovery comes to an end: Running or Failed for good, after a bounded      *)
(* number of faults.  The scanners alone get there, from wherever one of them  *)
(* died, unless a stale save of the controller or of a second leader puts      *)
(* Discovering back; then the batch may be hidden from every scanner, and it   *)
(* is the discovery timeout of the controller that ends it.  Otherwise the     *)
(* batch has dropped out of the index altogether: a leader stored the end of   *)
(* discovery but died before it wrote the new key, and the next one deleted    *)
(* the old key as stale.  The timeout is fair: a batch that stays Discovering  *)
(* grows older than discovery_timeout, as nobody who saves it unchanged        *)
(* touches updated_at                                                          *)
DiscoverySettles ==
    /\ <>reopened \/ Settles
    /\ (\A c \in Controllers : SF_ctl(DiscoveryTimeout(c))) => Settles
-----------------------------------------------------------------------------
(* The inductive invariant behind ScannedIsCovered and ProgressKept *)

\* Every status that may still be stored covers its sources
SnapshotsCovered ==
    "source" \notin happened =>
        /\ Covered(status)
        /\ \A c \in Controllers : Covered(ctl[c].next)
        /\ \A s \in Scanners :
             /\ Covered(st[s])
             /\ \A j \in DOMAIN todo[s] : Covered(todo[s][j])

\* The position in the list of sources agrees with the count
SourceCounted(s) ==
    LET atSource == \/ pc[s] \in {"source", "create"}
                    \/ pc[s] \in {"put", "index", "unindex"} /\ st[s].phase = "Discovering"
    IN  /\ atSource => src[s] > st[s].scanned
        /\ atSource /\ "source" \notin happened => src[s] = st[s].scanned + 1
        /\ pc[s] = "create" => src[s] <= N
        /\ pc[s] = "save" => src[s] <= N /\ st[s].scanned <= src[s]
        /\ pc[s] = "save" /\ "source" \notin happened => src[s] = st[s].scanned

\* While a source gets its units, each of its files has one or is still to get it
SourceSplit(s) ==
    pc[s] = "create" => \A f \in FilesOf[src[s]] \ new[s] : unit[f] # "none"

\* With one leader at a time, a file that is still to get its unit has none
OneLeader ==
    "lease" \notin happened =>
        /\ \A s, t \in Scanners : pc[s] # "idle" /\ pc[t] # "idle" => s = t
        /\ \A s \in Scanners : pc[s] = "create" => \A f \in new[s] : unit[f] = "none"

IInv ==
    /\ TypeOK
    /\ SnapshotsCovered
    /\ \A s \in Scanners : SourceCounted(s) /\ SourceSplit(s)
    /\ OneLeader
-----------------------------------------------------------------------------
(* The inductive invariant behind Findable *)

\* The phases an actor is about to store or has stored: only the step from Pending
\* ends in Discovering
PhasesRead ==
    /\ \A s \in Scanners : pc[s] = "put" => st[s].phase # "Pending"
    /\ \A c \in Controllers :
         LET x == ctl[c] IN
         /\ x.pc = "scan" => ~Open(x.next) /\ x.old = x.next.phase
         /\ x.pc \in {"put", "index", "unindex"} =>
              /\ x.next.phase # "Pending"
              /\ Open(x.next) => x.old \in {"Pending", "Discovering"}
         /\ x.pc \in {"index", "unindex"} => x.old # x.next.phase

\* While discovery has not ended, nobody is about to delete the only key
KeysKept ==
    ~reopened /\ Open(status) =>
        /\ index \cap {"Pending", "Discovering"} # {}
        /\ \A s \in Scanners :
             /\ pc[s] # "clean"
             /\ pc[s] \in {"index", "unindex"} => st[s].phase = "Discovering"
             /\ pc[s] = "unindex" => "Discovering" \in index
        /\ \A c \in Controllers :
             /\ ctl[c].pc \in {"index", "unindex"} => ctl[c].next.phase = "Discovering"
             /\ ctl[c].pc = "unindex" => "Discovering" \in index
-----------------------------------------------------------------------------
(* scanner.rs:710 "Process each source that hasn't been processed yet": when   *)
(* discovery is over, the files of every source have a unit                    *)
EverySourceProcessed ==
    status.phase = "Running" => \A f \in Files : unit[f] # "none"
=============================================================================
