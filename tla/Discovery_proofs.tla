--------------------------- MODULE Discovery_proofs ---------------------------
(***************************************************************************)
(* Proofs about Discovery, for any number of scanners, controllers,        *)
(* sources and files.  IInv is inductive: every status a scanner or a      *)
(* controller may still store covers the sources it counts, and units      *)
(* never disappear, so Covered is stable.                                  *)
(***************************************************************************)
EXTENDS Discovery, FiniteSetTheorems, TLAPS

(* The initial state, before any scanner ran, satisfies the invariant *)
LEMMA InitIInv == Init => IInv
<1> SUFFICES ASSUME Init PROVE IInv
  OBVIOUS
<1>1. TypeOK
  <2>1. Submitted \in Status /\ "Pending" \in Phase /\ 1 \in 1 .. N + 1 /\ <<>> \in Seq(Status)
    BY SourcesAssumption DEF Submitted, Status, Phase
  <2>2. Waiting \in ControllerState
    BY <2>1 DEF Waiting, ControllerState
  <2>3. "idle" \in Location
    BY DEF Location
  <2> QED
    BY <2>1, <2>2, <2>3 DEF Init, TypeOK
<1>2. SnapshotsCovered
  BY SourcesAssumption DEF Init, SnapshotsCovered, Covered, Submitted, Waiting
<1>3. ASSUME NEW s \in Scanners PROVE SourceCounted(s) /\ SourceSplit(s)
  BY DEF Init, SourceCounted, SourceSplit
<1>4. OneLeader
  BY DEF Init, OneLeader
<1> QED
  BY <1>1, <1>2, <1>3, <1>4 DEF IInv

(* The two outcomes of a write, as far as pc and the history are concerned *)
LEMMA WriteType ==
    ASSUME TypeOK, NEW s \in Scanners, NEW p, NEW q \in Location,
           \/ Step(s, p, q) /\ UNCHANGED ghosts
           \/ Step(s, p, "next") /\ Fault("tikv")
    PROVE  pc' \in [Scanners -> Location] /\ faults' \in Nat /\ happened' \subseteq FaultKinds
<1>1. CASE Step(s, p, q) /\ UNCHANGED ghosts
  BY <1>1 DEF TypeOK, Step, Goto, ghosts
<1>2. CASE Step(s, p, "next") /\ Fault("tikv")
  BY <1>2, FaultsAssumption DEF TypeOK, Step, Goto, Fault, Location
<1> QED
  BY <1>1, <1>2

(* A saved status has its type *)
LEMMA SaveType ==
    ASSUME TypeOK, NEW x \in Status, Save(x) \/ UNCHANGED saved
    PROVE  status' \in Status /\ reopened' \in BOOLEAN
<1>1. CASE Save(x)
  BY <1>1 DEF Save
<1>2. CASE UNCHANGED saved
  BY <1>2 DEF saved, TypeOK
<1> QED
  BY <1>1, <1>2

(* The next prefix, or the end of get_pending_batches *)
LEMMA NextPrefixType ==
    ASSUME TypeOK, NEW s \in Scanners, NEW x \in Seq(Status), NextPrefix(s, x)
    PROVE  /\ pc' \in [Scanners -> Location]
           /\ prefix' \in [Scanners -> Phase]
           /\ todo' \in [Scanners -> Seq(Status)]
<1>t. /\ pc \in [Scanners -> Location] /\ prefix \in [Scanners -> Phase]
      /\ todo \in [Scanners -> Seq(Status)]
  BY DEF TypeOK
<1>p. "scan" \in Location /\ "next" \in Location /\ "Discovering" \in Phase
  BY DEF Location, Phase
<1>1. CASE prefix[s] = "Pending" /\ Len(x) < max_batches_per_cycle
  BY <1>1, <1>t, <1>p DEF NextPrefix, Goto
<1>2. CASE ~(prefix[s] = "Pending" /\ Len(x) < max_batches_per_cycle)
  BY <1>2, <1>t, <1>p DEF NextPrefix, Goto
<1> QED
  BY <1>1, <1>2

(* Every step of a scanner keeps the types *)
LEMMA ScannerType ==
    ASSUME IInv, NEW s \in Scanners,
           try_become_leader(s) \/ scan_cycle(s) \/ Crash(s), UNCHANGED ctl
    PROVE  TypeOK'
<1>t. TypeOK /\ ctl' = ctl
  BY DEF IInv
<1>p. /\ {"Pending", "Discovering", "Running", "Failed"} \subseteq Phase
      /\ Submitted \in Status /\ 1 \in 1 .. N + 1
  BY SourcesAssumption DEF Phase, Status, Submitted
<1>q. Location = {"idle", "scan", "get", "clean", "next", "init", "source", "create",
                  "save", "put", "index", "unindex"}
  BY DEF Location
<1>g. ASSUME NEW p \in Location, Goto(s, p) PROVE pc' \in [Scanners -> Location]
  BY <1>g, <1>t DEF Goto, TypeOK
<1> USE DEF Goto, Step, tikv, saved, list, work, ghosts
<1>1. CASE try_become_leader(s)
  <2>1. faults' \in Nat /\ happened' \subseteq FaultKinds
    BY <1>1, <1>t, FaultsAssumption DEF try_become_leader, Fault, TypeOK
  <2> QED
    BY <1>1, <1>t, <2>1 DEF try_become_leader, TypeOK, Location
<1>2. CASE ScanPrefix(s)
  <2>1. CASE prefix[s] \in index
    <3>1. Goto(s, "get") /\ UNCHANGED list
      BY <1>2, <2>1 DEF ScanPrefix
    <3>2. pc' \in [Scanners -> Location]
      BY <1>g, <1>q, <3>1
    <3> QED
      BY <1>2, <1>t, <3>1, <3>2 DEF ScanPrefix, TypeOK
  <2>2. CASE prefix[s] \notin index
    BY <1>2, <1>t, <2>2, NextPrefixType DEF ScanPrefix, TypeOK
  <2> QED
    BY <2>1, <2>2
<1>3. CASE GetStatus(s)
  <2>1. CASE Open(status)
    <3>1. Append(todo[s], status) \in Seq(Status)
      BY <1>t DEF TypeOK
    <3>2. NextPrefix(s, Append(todo[s], status))
      BY <1>3, <2>1 DEF GetStatus
    <3>3. /\ pc' \in [Scanners -> Location] /\ prefix' \in [Scanners -> Phase]
          /\ todo' \in [Scanners -> Seq(Status)]
      BY <1>t, <3>1, <3>2, NextPrefixType
    <3> QED
      BY <1>3, <1>t, <3>3 DEF GetStatus, TypeOK
  <2>2. CASE ~Open(status)
    <3>1. Goto(s, "clean") /\ UNCHANGED list
      BY <1>3, <2>2 DEF GetStatus
    <3>2. pc' \in [Scanners -> Location]
      BY <1>g, <1>q, <3>1
    <3> QED
      BY <1>3, <1>t, <3>1, <3>2 DEF GetStatus, TypeOK
  <2> QED
    BY <2>1, <2>2
<1>4. CASE CleanStaleKey(s)
  <2>1. NextPrefix(s, todo[s]) /\ todo[s] \in Seq(Status)
    BY <1>4, <1>t DEF CleanStaleKey, TypeOK
  <2>2. index' \subseteq Phase /\ faults' \in Nat /\ happened' \subseteq FaultKinds
    BY <1>4, <1>t, FaultsAssumption DEF CleanStaleKey, Fault, TypeOK
  <2> QED
    BY <1>4, <1>t, <2>1, <2>2, NextPrefixType DEF CleanStaleKey, TypeOK
<1>5. CASE StartBatch(s)
  BY <1>5, <1>t, <1>p, FaultsAssumption DEF StartBatch, TypeOK, Location
<1>6. CASE EndCycle(s)
  BY <1>6, <1>t, <1>p, FaultsAssumption DEF EndCycle, Forget, TypeOK, Location
<1>7. CASE initialize_discovery_phase(s)
  <2>1. /\ st[s] \in Status /\ st[s].scanned + 1 \in 1 .. N + 1
        /\ [phase |-> "Discovering", scanned |-> 0] \in Status
    BY <1>t, SourcesAssumption DEF TypeOK, Status, Phase
  <2>0. 1 \in 1 .. N + 1
    BY SourcesAssumption
  <2>2. CASE st[s].phase = "Pending"
    <3>1. pc' \in [Scanners -> Location]
      BY <1>7, <1>g, <1>q, <2>2 DEF initialize_discovery_phase
    <3> QED
      BY <1>7, <1>t, <2>0, <2>1, <2>2, <3>1 DEF initialize_discovery_phase, TypeOK
  <2>3. CASE st[s].phase # "Pending"
    <3>1. pc' \in [Scanners -> Location]
      BY <1>7, <1>g, <1>q, <2>3 DEF initialize_discovery_phase
    <3> QED
      BY <1>7, <1>t, <2>1, <2>3, <3>1 DEF initialize_discovery_phase, ResumeAt, TypeOK
  <2> QED
    BY <2>2, <2>3
<1>8. CASE ListSource(s)
  <2>1. NewFiles(src[s]) \subseteq Files
    BY <1>8, <1>t DEF ListSource, NewFiles, Files, TypeOK
  <2> QED
    BY <1>8, <1>t, <2>1 DEF ListSource, TypeOK, Location
<1>9. CASE SourceFails(s)
  <2>1. src[s] + 1 \in 1 .. N + 1
    BY <1>9, <1>t, SourcesAssumption DEF SourceFails, TypeOK
  <2>2. unit' \in [Files -> {"none", "Pending", "Claimed"}]
    BY <1>9, <1>t DEF SourceFails, PutChunk, TypeOK
  <2> QED
    BY <1>9, <1>t, <2>1, <2>2, FaultsAssumption DEF SourceFails, Fault, TypeOK, Location
<1>10. CASE create_work_units_for_files(s)
  BY <1>10, <1>t DEF create_work_units_for_files, PutChunk, TypeOK
<1>11. CASE SourceDone(s)
  <2>1. src[s] \in 1 .. N /\ st[s].scanned < src[s]
    <3>1. SourceCounted(s) /\ pc[s] = "create" /\ src[s] \in 1 .. N + 1 /\ st[s] \in Status
      BY <1>11, <1>t DEF SourceDone, IInv, TypeOK
    <3> QED
      BY <3>1, SourcesAssumption DEF SourceCounted, Status
  <2>2. [phase |-> st[s].phase, scanned |-> st[s].scanned + 1] \in Status
    <3>1. st[s].phase \in Phase /\ st[s].scanned \in 0 .. N
      BY <1>t DEF TypeOK, Status
    <3>2. st[s].scanned + 1 \in 0 .. N
      BY <2>1, <3>1, SourcesAssumption
    <3> QED
      BY <3>1, <3>2 DEF Status
  <2>3. (found[s] \/ FilesOf[src[s]] # {}) \in BOOLEAN
    OBVIOUS
  <2> QED
    BY <1>11, <1>t, <2>2, <2>3 DEF SourceDone, TypeOK, Location
<1>12. CASE SaveSource(s)
  <2>0. src[s] + 1 \in 1 .. N + 1
    BY <1>12, <1>t, SourcesAssumption DEF SaveSource, Write, IInv, SourceCounted, TypeOK
  <2>1. pc' \in [Scanners -> Location] /\ faults' \in Nat /\ happened' \subseteq FaultKinds
    BY <1>12, <1>t, WriteType DEF SaveSource, Write, Location
  <2>2. status' \in Status /\ reopened' \in BOOLEAN
    <3>1. st[s] \in Status /\ (Save(st[s]) \/ UNCHANGED saved)
      BY <1>12, <1>t DEF SaveSource, Write, TypeOK
    <3> QED
      BY <1>t, <3>1, SaveType
  <2> QED
    BY <1>12, <1>t, <2>0, <2>1, <2>2 DEF SaveSource, TypeOK
<1>13. CASE StaysOpen(s)
  BY <1>13, <1>t, <1>p, FaultsAssumption DEF StaysOpen, TypeOK, Location
<1>14. CASE finalize_batch_phase(s)
  <2>1. [phase |-> IF found[s] THEN "Running" ELSE "Failed", scanned |-> st[s].scanned] \in Status
    <3>1. st[s] \in Status
      BY <1>t DEF TypeOK
    <3> QED
      BY <3>1 DEF Status, Phase
  <2> QED
    BY <1>14, <1>t, <2>1 DEF finalize_batch_phase, TypeOK, Location
<1>15. CASE SavePhase(s)
  <2>1. pc' \in [Scanners -> Location] /\ faults' \in Nat /\ happened' \subseteq FaultKinds
    BY <1>15, <1>t, WriteType DEF SavePhase, Write, Location
  <2>2. status' \in Status /\ reopened' \in BOOLEAN
    <3>1. st[s] \in Status /\ (Save(st[s]) \/ UNCHANGED saved)
      BY <1>15, <1>t DEF SavePhase, Write, TypeOK
    <3> QED
      BY <1>t, <3>1, SaveType
  <2> QED
    BY <1>15, <1>t, <2>1, <2>2 DEF SavePhase, TypeOK
<1>16. CASE PutIndex(s)
  <2>0. st[s].phase \in Phase
    BY <1>t DEF TypeOK, Status
  <2>1. pc' \in [Scanners -> Location] /\ faults' \in Nat /\ happened' \subseteq FaultKinds
    BY <1>16, <1>t, WriteType DEF PutIndex, Write, Location
  <2> QED
    BY <1>16, <1>t, <1>p, <2>0, <2>1 DEF PutIndex, Write, TypeOK, IndexFirst
<1>17. CASE DeleteIndex(s)
  <2>1. pc' \in [Scanners -> Location] /\ faults' \in Nat /\ happened' \subseteq FaultKinds
    BY <1>17, <1>t, WriteType DEF DeleteIndex, Write, Location
  <2> QED
    BY <1>17, <1>t, <1>p, <2>1 DEF DeleteIndex, Write, TypeOK, IndexSecond
<1>18. CASE Crash(s)
  BY <1>18, <1>t, <1>p, FaultsAssumption DEF Crash, Forget, Fault, TypeOK, Location
<1> QED
  BY <1>1, <1>2, <1>3, <1>4, <1>5, <1>6, <1>7, <1>8, <1>9, <1>10, <1>11, <1>12, <1>13, <1>14, <1>15, <1>16, <1>17, <1>18
  DEF scan_cycle, get_pending_batches, process_batch, process_single_source

(* Every step of a controller keeps the types *)
LEMMA ControllerType ==
    ASSUME TypeOK, NEW c \in Controllers,
           reconcile(c) \/ DiscoveryTimeout(c) \/ CtlCrash(c), UNCHANGED scanner
    PROVE  TypeOK'
<1>t. /\ status \in Status /\ status.phase \in Phase /\ status.scanned \in 0 .. N
      /\ ctl \in [Controllers -> ControllerState] /\ ctl[c] \in ControllerState
      /\ ctl[c].next \in Status /\ ctl[c].old \in Phase
      /\ ctl[c].next.phase \in Phase /\ ctl[c].next.scanned \in 0 .. N
  BY DEF TypeOK, ControllerState, Status
<1>w. Waiting \in ControllerState
  BY SourcesAssumption DEF Waiting, Submitted, ControllerState, Status, Phase
<1>1. ASSUME NEW p \in {"idle", "get", "index", "unindex"}, CtlGoto(c, p)
      PROVE  ctl' \in [Controllers -> ControllerState]
  <2>1. [ctl[c] EXCEPT !.pc = p] \in ControllerState
    BY <1>t DEF ControllerState
  <2> QED
    BY <1>1, <1>t, <1>w, <2>1 DEF CtlGoto
<1>2. ASSUME NEW p \in {"put", "scan"}, NEW x \in Status, Decide(c, p, x)
      PROVE  ctl' \in [Controllers -> ControllerState]
  <2>1. [pc |-> p, next |-> x, old |-> status.phase] \in ControllerState
    BY <1>t DEF ControllerState
  <2> QED
    BY <1>2, <1>t, <2>1 DEF Decide
<1>3. ASSUME ctl' \in [Controllers -> ControllerState], status' \in Status,
             reopened' \in BOOLEAN, index' \subseteq Phase, unit' = unit,
             faults' \in Nat, happened' \subseteq FaultKinds
      PROVE  TypeOK'
  BY <1>3 DEF TypeOK, scanner, list, work
<1> USE DEF tikv, saved, ghosts
<1>4. CASE reconcile_all(c)
  BY <1>1, <1>3, <1>4 DEF reconcile_all, TypeOK
<1>5. CASE reconcile_batch(c) \/ DiscoveryTimeout(c)
  <2>1. /\ [phase |-> "Discovering", scanned |-> 0] \in Status
        /\ [phase |-> "Failed", scanned |-> status.scanned] \in Status
    BY <1>t, SourcesAssumption DEF Status, Phase
  <2>2. ctl' \in [Controllers -> ControllerState]
    BY <1>2, <1>5, <1>t, <2>1 DEF reconcile_batch, DiscoveryTimeout
  <2> QED
    BY <1>3, <1>5, <2>2 DEF reconcile_batch, DiscoveryTimeout, TypeOK
<1>6. CASE reconcile_running(c)
  <2>1. ASSUME NEW p \in Phase
        PROVE  [pc |-> "put", old |-> ctl[c].old,
                next |-> [phase |-> p, scanned |-> ctl[c].next.scanned]] \in ControllerState
    BY <1>t DEF ControllerState, Status
  <2>2. {"Running", "Failed"} \subseteq Phase /\ {ctl[c].old} \subseteq Phase
    BY <1>t DEF Phase
  <2>3. ctl' \in [Controllers -> ControllerState]
    BY <1>6, <1>t, <2>1, <2>2 DEF reconcile_running
  <2> QED
    BY <1>3, <1>6, <2>3 DEF reconcile_running, TypeOK
<1>7. ASSUME NEW p, NEW q \in {"idle", "index", "unindex"},
             \/ CtlGoto(c, q) /\ UNCHANGED ghosts
             \/ CtlGoto(c, "idle") /\ Fault("tikv")
      PROVE  /\ ctl' \in [Controllers -> ControllerState]
             /\ faults' \in Nat /\ happened' \subseteq FaultKinds
  BY <1>1, <1>7, FaultsAssumption DEF Fault, TypeOK
<1>8. CASE SaveStatus(c)
  <2>1. /\ ctl' \in [Controllers -> ControllerState]
        /\ faults' \in Nat /\ happened' \subseteq FaultKinds
    BY <1>7, <1>8 DEF SaveStatus, CtlWrite
  <2>2. status' \in Status /\ reopened' \in BOOLEAN
    BY <1>8, <1>t, SaveType DEF SaveStatus, CtlWrite
  <2> QED
    BY <1>3, <1>8, <2>1, <2>2 DEF SaveStatus, TypeOK
<1>9. CASE MoveIndex(c)
  <2>1. /\ ctl' \in [Controllers -> ControllerState]
        /\ faults' \in Nat /\ happened' \subseteq FaultKinds
    BY <1>7, <1>9 DEF MoveIndex, CtlWrite
  <2>2. index' \subseteq Phase
    BY <1>9, <1>t DEF MoveIndex, CtlWrite, TypeOK
  <2> QED
    BY <1>3, <1>9, <2>1, <2>2 DEF MoveIndex, TypeOK
<1>10. CASE CtlCrash(c)
  BY <1>1, <1>3, <1>10, FaultsAssumption DEF CtlCrash, Fault, TypeOK
<1> QED
  BY <1>4, <1>5, <1>6, <1>8, <1>9, <1>10 DEF reconcile

(* Every step keeps the types *)
LEMMA TypeStep ==
    ASSUME IInv, [Next]_vars PROVE TypeOK'
<1>t. TypeOK
  BY DEF IInv
<1>1. CASE WorkerStep
  BY <1>1, <1>t DEF WorkerStep, Claim, TypeOK, saved, scanner, list, work, ghosts
<1>2. CASE UNCHANGED vars
  BY <1>2, <1>t DEF vars, TypeOK, tikv, saved, scanner, list, work, ghosts
<1> QED
  BY <1>t, <1>1, <1>2, ScannerType, ControllerType DEF Next, ScannerStep, ControllerStep

(* The steps that take a scanner to a place outside the work on a source *)
Elsewhere == {"idle", "scan", "get", "clean", "next", "init"}

Travels(s) ==
    \/ try_become_leader(s) \/ ScanPrefix(s) \/ GetStatus(s) \/ CleanStaleKey(s)
    \/ StartBatch(s) \/ EndCycle(s) \/ StaysOpen(s) \/ Crash(s)

Works(s) ==
    \/ initialize_discovery_phase(s) \/ ListSource(s) \/ SourceFails(s)
    \/ create_work_units_for_files(s) \/ SourceDone(s) \/ SaveSource(s)
    \/ finalize_batch_phase(s) \/ SavePhase(s) \/ PutIndex(s) \/ DeleteIndex(s)

Reconciles(c) == reconcile(c) \/ DiscoveryTimeout(c) \/ CtlCrash(c)

(* The cases of a step *)
LEMMA StepCases ==
    ASSUME [Next]_vars
    PROVE  \/ \E s \in Scanners : (Travels(s) \/ Works(s)) /\ UNCHANGED ctl
           \/ \E c \in Controllers : Reconciles(c) /\ UNCHANGED scanner
           \/ \E f \in Files : Claim(f) /\ UNCHANGED <<scanner, ctl>>
           \/ UNCHANGED vars
  BY DEF Next, ScannerStep, ControllerStep, WorkerStep, scan_cycle, get_pending_batches,
     process_batch, process_single_source, Travels, Works, Reconciles

(* A step of s leaves the locals of the other scanners alone *)
OthersKeep(s) ==
    \A r \in Scanners : r # s => /\ pc'[r] = pc[r] /\ st'[r] = st[r] /\ src'[r] = src[r]
                                 /\ new'[r] = new[r] /\ todo'[r] = todo[r]

(* A scanner that travels moves itself only, and writes neither status nor units *)
LEMMA Travelling ==
    ASSUME TypeOK, NEW s \in Scanners, Travels(s)
    PROVE  /\ OthersKeep(s) /\ pc'[s] \in Elsewhere
           /\ happened \subseteq happened' /\ unit' = unit /\ status' = status
<1>t. /\ pc \in [Scanners -> Location] /\ st \in [Scanners -> Status]
      /\ src \in [Scanners -> 1 .. N + 1] /\ new \in [Scanners -> SUBSET Files]
      /\ todo \in [Scanners -> Seq(Status)]
  BY DEF TypeOK
<1> USE DEF Goto, Step, tikv, saved, list, work, ghosts, OthersKeep, Elsewhere
<1>0. ASSUME NEW x, NextPrefix(s, x)
      PROVE  /\ pc'[s] \in Elsewhere
             /\ \A r \in Scanners : r # s => pc'[r] = pc[r] /\ todo'[r] = todo[r]
  BY <1>t, <1>0 DEF NextPrefix
<1>1. CASE try_become_leader(s)
  BY <1>t, <1>1 DEF try_become_leader, Fault
<1>2. CASE ScanPrefix(s)
  BY <1>t, <1>0, <1>2 DEF ScanPrefix
<1>3. CASE GetStatus(s)
  BY <1>t, <1>0, <1>3 DEF GetStatus
<1>4. CASE CleanStaleKey(s)
  BY <1>t, <1>0, <1>4 DEF CleanStaleKey, Fault
<1>5. CASE StartBatch(s)
  BY <1>t, <1>5 DEF StartBatch
<1>6. CASE EndCycle(s)
  BY <1>t, <1>6 DEF EndCycle, Forget
<1>7. CASE StaysOpen(s)
  BY <1>t, <1>7 DEF StaysOpen
<1>8. CASE Crash(s)
  BY <1>t, <1>8 DEF Crash, Forget, Fault
<1> QED
  BY <1>1, <1>2, <1>3, <1>4, <1>5, <1>6, <1>7, <1>8 DEF Travels

(* A scanner at work on a batch may store the status in its hands, or put a     *)
(* chunk of new units, and moves no other scanner                               *)
LEMMA Working ==
    ASSUME TypeOK, NEW s \in Scanners, Works(s)
    PROVE  /\ OthersKeep(s) /\ todo' = todo /\ pc[s] # "idle"
           /\ happened \subseteq happened' /\ status' \in {status, st[s]}
           /\ unit' = unit \/ \E chunk \in SUBSET new[s] : PutChunk(s, chunk)
<1>t. /\ pc \in [Scanners -> Location] /\ st \in [Scanners -> Status]
      /\ src \in [Scanners -> 1 .. N + 1] /\ new \in [Scanners -> SUBSET Files]
  BY DEF TypeOK
<1> USE DEF Goto, Step, tikv, saved, list, work, ghosts, OthersKeep
<1>1. CASE initialize_discovery_phase(s)
  BY <1>t, <1>1 DEF initialize_discovery_phase
<1>2. CASE ListSource(s)
  BY <1>t, <1>2 DEF ListSource
<1>3. CASE SourceFails(s)
  <2>1. pc[s] # "idle"
    BY <1>3 DEF SourceFails, PutChunk
  <2>2. unit' = unit \/ \E chunk \in SUBSET new[s] : PutChunk(s, chunk)
    BY <1>3 DEF SourceFails
  <2> QED
    BY <1>t, <1>3, <2>1, <2>2 DEF SourceFails, Fault
<1>4. CASE create_work_units_for_files(s)
  <2>1. pc[s] # "idle"
    BY <1>4 DEF create_work_units_for_files, PutChunk
  <2>2. \E chunk \in SUBSET new[s] : PutChunk(s, chunk)
    BY <1>4 DEF create_work_units_for_files
  <2> QED
    BY <1>t, <1>4, <2>1, <2>2 DEF create_work_units_for_files
<1>5. CASE SourceDone(s)
  BY <1>t, <1>5 DEF SourceDone
<1>6. CASE SaveSource(s)
  BY <1>t, <1>6 DEF SaveSource, Write, Save, Fault
<1>7. CASE finalize_batch_phase(s)
  BY <1>t, <1>7 DEF finalize_batch_phase
<1>8. CASE SavePhase(s)
  BY <1>t, <1>8 DEF SavePhase, Write, Save, Fault
<1>9. CASE PutIndex(s)
  BY <1>t, <1>9 DEF PutIndex, Write, Fault
<1>10. CASE DeleteIndex(s)
  BY <1>t, <1>10 DEF DeleteIndex, Write, Fault
<1> QED
  BY <1>1, <1>2, <1>3, <1>4, <1>5, <1>6, <1>7, <1>8, <1>9, <1>10 DEF Works

(* A controller puts a status it has read, or one that starts discovery over *)
LEMMA Reconciling ==
    ASSUME TypeOK, NEW c \in Controllers, Reconciles(c)
    PROVE  /\ unit' = unit /\ happened \subseteq happened'
           /\ status' \in {status, ctl[c].next}
           /\ \A d \in Controllers : d # c => ctl'[d] = ctl[d]
           /\ ctl'[c].next.scanned \in {0, status.scanned, ctl[c].next.scanned}
<1>t. ctl \in [Controllers -> ControllerState] /\ ctl[c] \in ControllerState
  BY DEF TypeOK
<1>1. ASSUME NEW p, CtlGoto(c, p)
      PROVE  /\ \A d \in Controllers : d # c => ctl'[d] = ctl[d]
             /\ ctl'[c].next.scanned \in {0, ctl[c].next.scanned}
  <2>1. Waiting.next.scanned = 0 /\ [ctl[c] EXCEPT !.pc = p].next = ctl[c].next
    BY <1>t DEF Waiting, Submitted, ControllerState
  <2>2. ctl'[c] = Waiting \/ ctl'[c] = [ctl[c] EXCEPT !.pc = p]
    BY <1>t, <1>1 DEF CtlGoto
  <2> QED
    BY <1>t, <1>1, <2>1, <2>2 DEF CtlGoto
<1>2. ASSUME NEW p, NEW x, Decide(c, p, x)
      PROVE  (\A d \in Controllers : d # c => ctl'[d] = ctl[d]) /\ ctl'[c].next = x
  BY <1>t, <1>2 DEF Decide
<1> USE DEF tikv, saved, ghosts
<1>3. CASE reconcile_all(c)
  BY <1>1, <1>3 DEF reconcile_all
<1>4. CASE reconcile_batch(c) \/ DiscoveryTimeout(c)
  BY <1>2, <1>4 DEF reconcile_batch, DiscoveryTimeout
<1>5. CASE reconcile_running(c)
  BY <1>t, <1>5 DEF reconcile_running
<1>6. CASE SaveStatus(c)
  BY <1>1, <1>6 DEF SaveStatus, CtlWrite, Save, Fault
<1>7. CASE MoveIndex(c)
  BY <1>1, <1>7 DEF MoveIndex, CtlWrite, Fault
<1>8. CASE CtlCrash(c)
  BY <1>1, <1>8 DEF CtlCrash, Fault
<1> QED
  BY <1>3, <1>4, <1>5, <1>6, <1>7, <1>8 DEF Reconciles, reconcile

(* No step of discovery, of a controller or of a worker removes a unit *)
LEMMA UnitsStay ==
    ASSUME IInv, [Next]_vars PROVE \A f \in Files : unit[f] # "none" => unit'[f] # "none"
<1>t. TypeOK
  BY DEF IInv
<1>1. ASSUME NEW s \in Scanners, NEW chunk \in SUBSET new[s], PutChunk(s, chunk)
      PROVE  \A f \in Files : unit[f] # "none" => unit'[f] # "none"
  BY <1>1 DEF PutChunk
<1>2. ASSUME NEW g \in Files, Claim(g)
      PROVE  \A f \in Files : unit[f] # "none" => unit'[f] # "none"
  BY <1>2, <1>t DEF Claim, TypeOK
<1>3. UNCHANGED vars => unit' = unit
  BY DEF vars, tikv
<1> QED
  BY <1>t, <1>1, <1>2, <1>3, StepCases, Travelling, Working, Reconciling

(* The parts of a source's work, as far as the counting of sources is concerned *)
LEMMA CountedWork ==
    ASSUME IInv, NEW s \in Scanners, Works(s) PROVE SourceCounted(s)'
<1>t. TypeOK /\ SourceCounted(s)
  BY DEF IInv
<1>n. src[s] \in Nat /\ st[s].scanned \in Nat
  <2>1. src[s] \in 1 .. N + 1 /\ st[s] \in Status
    BY <1>t DEF TypeOK
  <2> QED
    BY <2>1, SourcesAssumption DEF Status
<1>d. /\ pc \in [Scanners -> Location] /\ st \in [Scanners -> Status]
      /\ src \in [Scanners -> 1 .. N + 1]
  BY <1>t DEF TypeOK
<1> USE DEF Goto, Step, tikv, saved, list, work, ghosts
<1>1. CASE initialize_discovery_phase(s)
  <2>1. \/ pc'[s] = "put" /\ src'[s] = 1 /\ st'[s].scanned = 0
        \/ pc'[s] = "source" /\ src'[s] = st[s].scanned + 1 /\ st'[s] = st[s]
    BY <1>1, <1>d DEF initialize_discovery_phase, ResumeAt
  <2> QED
    BY <1>n, <2>1 DEF SourceCounted
<1>2. CASE ListSource(s)
  <2>1. pc[s] = "source" /\ pc'[s] = "create" /\ src' = src /\ st' = st /\ happened' = happened
        /\ src[s] <= N
    BY <1>2, <1>d DEF ListSource
  <2> QED
    BY <1>t, <1>n, <2>1 DEF SourceCounted
<1>3. CASE SourceFails(s)
  <2>1. /\ pc[s] \in {"source", "create"} /\ pc'[s] = "source" /\ src'[s] = src[s] + 1
        /\ st' = st /\ "source" \in happened'
    BY <1>3, <1>d DEF SourceFails, PutChunk, Fault
  <2> QED
    BY <1>t, <1>n, <2>1 DEF SourceCounted
<1>4. CASE create_work_units_for_files(s)
  <2>1. pc' = pc /\ src' = src /\ st' = st /\ happened' = happened
    BY <1>4 DEF create_work_units_for_files
  <2> QED
    BY <1>t, <2>1 DEF SourceCounted
<1>5. CASE SourceDone(s)
  <2>1. /\ pc[s] = "create" /\ pc'[s] = "save" /\ src' = src /\ happened' = happened
        /\ st'[s].scanned = st[s].scanned + 1
    BY <1>5, <1>d DEF SourceDone
  <2>2. src[s] > st[s].scanned /\ src[s] <= N
        /\ ("source" \notin happened => src[s] = st[s].scanned + 1)
    BY <1>t, <2>1 DEF SourceCounted
  <2> QED
    BY <1>n, <2>1, <2>2 DEF SourceCounted
<1>6. CASE SaveSource(s)
  <2>1. /\ pc[s] = "save" /\ pc'[s] \in {"source", "next"} /\ src'[s] = src[s] + 1
        /\ st' = st /\ happened \subseteq happened'
    BY <1>6, <1>d DEF SaveSource, Write, Fault
  <2> QED
    BY <1>t, <1>n, <2>1 DEF SourceCounted
<1>7. CASE finalize_batch_phase(s)
  <2>1. pc'[s] = "put" /\ st'[s].phase # "Discovering"
    BY <1>7, <1>d DEF finalize_batch_phase
  <2> QED
    BY <2>1 DEF SourceCounted
<1>8. CASE SavePhase(s) \/ PutIndex(s) \/ DeleteIndex(s)
  <2>1. /\ src' = src /\ st' = st /\ happened \subseteq happened'
        /\ pc[s] \in {"put", "index", "unindex"}
        /\ \/ pc'[s] \in {"index", "unindex", "next"}
           \/ pc'[s] = "source" /\ st[s].phase = "Discovering"
    <3>1. CASE SavePhase(s)
      BY <3>1, <1>d DEF SavePhase, Write, Fault
    <3>2. CASE PutIndex(s)
      BY <3>2, <1>d DEF PutIndex, Write, Fault
    <3>3. CASE DeleteIndex(s)
      BY <3>3, <1>d DEF DeleteIndex, Write, Fault
    <3> QED
      BY <1>8, <3>1, <3>2, <3>3
  <2> QED
    BY <1>t, <1>n, <2>1 DEF SourceCounted
<1> QED
  BY <1>1, <1>2, <1>3, <1>4, <1>5, <1>6, <1>7, <1>8 DEF Works

(* Every step keeps the position and the count of sources in agreement *)
LEMMA CountedStep ==
    ASSUME IInv, [Next]_vars PROVE \A r \in Scanners : SourceCounted(r)'
<1>t. TypeOK /\ \A r \in Scanners : SourceCounted(r)
  BY DEF IInv
<1>1. ASSUME NEW s \in Scanners, OthersKeep(s), happened \subseteq happened',
             NEW r \in Scanners, r # s
      PROVE  SourceCounted(r)'
  BY <1>t, <1>1 DEF OthersKeep, SourceCounted
<1>2. ASSUME NEW s \in Scanners, Travels(s) PROVE \A r \in Scanners : SourceCounted(r)'
  <2>1. OthersKeep(s) /\ pc'[s] \in Elsewhere /\ happened \subseteq happened'
    BY <1>t, <1>2, Travelling
  <2>2. SourceCounted(s)'
    BY <2>1 DEF Elsewhere, SourceCounted
  <2> QED
    BY <1>1, <2>1, <2>2
<1>3. ASSUME NEW s \in Scanners, Works(s) PROVE \A r \in Scanners : SourceCounted(r)'
  <2>1. OthersKeep(s) /\ happened \subseteq happened'
    BY <1>t, <1>3, Working
  <2> QED
    BY <1>1, <1>3, <2>1, CountedWork
<1>4. ASSUME UNCHANGED scanner, happened \subseteq happened'
      PROVE  \A r \in Scanners : SourceCounted(r)'
  BY <1>t, <1>4 DEF SourceCounted, scanner, work
<1>5. ASSUME NEW f \in Files, Claim(f) PROVE happened' = happened
  BY <1>5 DEF Claim, ghosts
<1>6. ASSUME UNCHANGED vars PROVE \A r \in Scanners : SourceCounted(r)'
  BY <1>4, <1>6 DEF vars, ghosts
<1>7. \A c \in Controllers : Reconciles(c) => happened \subseteq happened'
  BY <1>t, Reconciling
<1> QED
  BY <1>2, <1>3, <1>4, <1>5, <1>6, <1>7, StepCases

(* Only listing a source leads to the creation of its units *)
LEMMA LeadsToCreate ==
    ASSUME TypeOK, NEW s \in Scanners, Works(s)
    PROVE  pc'[s] # "create" \/ ListSource(s) \/ create_work_units_for_files(s)
<1>d. pc \in [Scanners -> Location]
  BY DEF TypeOK
<1> USE DEF Goto, Step
<1>1. CASE initialize_discovery_phase(s)
  BY <1>1, <1>d DEF initialize_discovery_phase
<1>2. CASE SourceFails(s)
  BY <1>2, <1>d DEF SourceFails
<1>3. CASE SourceDone(s)
  BY <1>3, <1>d DEF SourceDone
<1>4. CASE SaveSource(s)
  BY <1>4, <1>d DEF SaveSource, Write
<1>5. CASE finalize_batch_phase(s)
  BY <1>5, <1>d DEF finalize_batch_phase
<1>6. CASE SavePhase(s)
  BY <1>6, <1>d DEF SavePhase, Write
<1>7. CASE PutIndex(s)
  BY <1>7, <1>d DEF PutIndex, Write
<1>8. CASE DeleteIndex(s)
  BY <1>8, <1>d DEF DeleteIndex, Write
<1> QED
  BY <1>1, <1>2, <1>3, <1>4, <1>5, <1>6, <1>7, <1>8 DEF Works

(* What listing a source does *)
LEMMA Listing ==
    ASSUME TypeOK, NEW s \in Scanners, ListSource(s)
    PROVE  /\ src' = src /\ unit' = unit /\ happened' = happened /\ src[s] \in 1 .. N
           /\ new'[s] = FilesOf[src[s]] \ Existing
           /\ FilesOf[src[s]] \subseteq Files
<1>1. src' = src /\ unit' = unit /\ happened' = happened /\ src[s] \in 1 .. N
  BY SourcesAssumption DEF ListSource, tikv, ghosts, TypeOK
<1>2. new'[s] = FilesOf[src[s]] \ Existing
  BY DEF ListSource, NewFiles, TypeOK
<1>3. FilesOf[src[s]] \subseteq Files
  BY <1>1 DEF Files
<1> QED
  BY <1>1, <1>2, <1>3

(* Every step keeps the split of the current source *)
LEMMA SplitStep ==
    ASSUME IInv, [Next]_vars PROVE \A r \in Scanners : SourceSplit(r)'
<1>t. TypeOK /\ \A r \in Scanners : SourceSplit(r)
  BY DEF IInv
<1>f. ASSUME NEW r \in Scanners, pc[r] = "create" PROVE FilesOf[src[r]] \subseteq Files
  <2>1. src[r] \in 1 .. N
    <3>1. SourceCounted(r) /\ src[r] \in 1 .. N + 1
      BY <1>t DEF IInv, TypeOK
    <3> QED
      BY <1>f, <3>1, SourcesAssumption DEF SourceCounted
  <2> QED
    BY <2>1 DEF Files
<1>u. \A f \in Files : unit[f] # "none" => unit'[f] # "none"
  BY UnitsStay
<1>1. ASSUME NEW r \in Scanners, pc'[r] = pc[r], src'[r] = src[r], new'[r] = new[r]
      PROVE  SourceSplit(r)'
  BY <1>t, <1>f, <1>u, <1>1 DEF SourceSplit
<1>2. ASSUME NEW s \in Scanners, OthersKeep(s), SourceSplit(s)'
      PROVE  \A r \in Scanners : SourceSplit(r)'
  BY <1>1, <1>2 DEF OthersKeep
<1>3. ASSUME NEW s \in Scanners, Travels(s) PROVE \A r \in Scanners : SourceSplit(r)'
  <2>1. OthersKeep(s) /\ pc'[s] \in Elsewhere
    BY <1>t, <1>3, Travelling
  <2>2. SourceSplit(s)'
    BY <2>1 DEF Elsewhere, SourceSplit
  <2> QED
    BY <1>2, <2>1, <2>2
<1>4. ASSUME NEW s \in Scanners, ListSource(s) PROVE SourceSplit(s)'
  <2>1. \A f \in FilesOf[src[s]] \ new'[s] : unit[f] # "none"
    BY <1>t, <1>4, Listing DEF Existing
  <2> QED
    BY <1>t, <1>4, <2>1, Listing DEF SourceSplit
<1>5. ASSUME NEW s \in Scanners, create_work_units_for_files(s) PROVE SourceSplit(s)'
  <2>1. PICK chunk \in SUBSET new[s] :
          /\ unit' = [f \in Files |-> IF f \in chunk THEN "Pending" ELSE unit[f]]
          /\ new' = [new EXCEPT ![s] = new[s] \ chunk]
    BY <1>5 DEF create_work_units_for_files, PutChunk
  <2>2. pc[s] = "create" /\ src' = src
    BY <1>5 DEF create_work_units_for_files, PutChunk
  <2>3. new'[s] = new[s] \ chunk
    BY <1>t, <2>1 DEF TypeOK
  <2> SUFFICES ASSUME NEW f \in FilesOf[src[s]], f \notin new'[s] PROVE unit'[f] # "none"
    BY <2>2 DEF SourceSplit
  <2>4. f \in Files
    BY <1>f, <2>2
  <2>5. CASE f \in chunk
    BY <2>1, <2>4, <2>5
  <2>6. CASE f \notin chunk
    BY <1>t, <1>u, <2>2, <2>3, <2>4, <2>6 DEF SourceSplit
  <2> QED
    BY <2>5, <2>6
<1>6. ASSUME NEW s \in Scanners, Works(s) PROVE \A r \in Scanners : SourceSplit(r)'
  <2>1. OthersKeep(s)
    BY <1>t, <1>6, Working
  <2>2. pc'[s] # "create" => SourceSplit(s)'
    BY DEF SourceSplit
  <2>3. SourceSplit(s)'
    BY <1>t, <1>4, <1>5, <1>6, <2>2, LeadsToCreate
  <2> QED
    BY <1>2, <2>1, <2>3
<1>7. ASSUME UNCHANGED scanner PROVE \A r \in Scanners : SourceSplit(r)'
  BY <1>1, <1>7 DEF scanner, work
<1>8. UNCHANGED vars => UNCHANGED scanner
  BY DEF vars
<1> QED
  BY <1>3, <1>6, <1>7, <1>8, StepCases

(* Every step keeps what one leader at a time gives *)
LEMMA LeaderStep ==
    ASSUME IInv, [Next]_vars PROVE OneLeader'
<1>t. TypeOK /\ OneLeader
  BY DEF IInv
<1>1. ASSUME NEW s \in Scanners, pc[s] # "idle", OthersKeep(s), happened \subseteq happened',
             "lease" \notin happened' /\ pc'[s] = "create" => \A f \in new'[s] : unit'[f] = "none"
      PROVE  OneLeader'
  <2> SUFFICES ASSUME "lease" \notin happened' PROVE OneLeader'
    BY DEF OneLeader
  <2>1. \A r \in Scanners : r # s => pc'[r] = "idle"
    BY <1>t, <1>1 DEF OneLeader, OthersKeep
  <2> QED
    BY <1>1, <2>1 DEF OneLeader
<1>2. ASSUME NEW s \in Scanners, try_become_leader(s) PROVE OneLeader'
  <2>1. pc' = [pc EXCEPT ![s] = "scan"] /\ unit' = unit /\ new' = new
        /\ ("lease" \notin happened' => \A r \in Scanners : pc[r] = "idle")
    BY <1>2 DEF try_become_leader, Goto, Step, Fault, tikv, work
  <2> QED
    BY <1>t, <2>1 DEF OneLeader, TypeOK
<1>3. ASSUME NEW s \in Scanners, Travels(s), ~ try_become_leader(s) PROVE OneLeader'
  <2>1. pc[s] # "idle"
    BY <1>3 DEF Travels, ScanPrefix, GetStatus, CleanStaleKey, StartBatch, EndCycle,
       StaysOpen, Crash, Step
  <2>2. OthersKeep(s) /\ pc'[s] \in Elsewhere /\ happened \subseteq happened'
    BY <1>t, <1>3, Travelling
  <2> QED
    BY <1>1, <2>1, <2>2 DEF Elsewhere
<1>4. ASSUME NEW s \in Scanners, ListSource(s) PROVE \A f \in new'[s] : unit'[f] = "none"
  BY <1>t, <1>4, Listing DEF Existing
<1>5. ASSUME NEW s \in Scanners, create_work_units_for_files(s), "lease" \notin happened'
      PROVE  \A f \in new'[s] : unit'[f] = "none"
  <2>1. PICK chunk \in SUBSET new[s] :
          /\ unit' = [f \in Files |-> IF f \in chunk THEN "Pending" ELSE unit[f]]
          /\ new' = [new EXCEPT ![s] = new[s] \ chunk]
    BY <1>5 DEF create_work_units_for_files, PutChunk
  <2>2. \A f \in new[s] : unit[f] = "none"
    BY <1>t, <1>5 DEF OneLeader, create_work_units_for_files, PutChunk, ghosts
  <2>3. new'[s] = new[s] \ chunk /\ new[s] \subseteq Files
    BY <1>t, <2>1 DEF TypeOK
  <2> QED
    BY <2>1, <2>2, <2>3
<1>6. ASSUME NEW s \in Scanners, Works(s) PROVE OneLeader'
  <2>1. pc[s] # "idle" /\ OthersKeep(s) /\ happened \subseteq happened'
    BY <1>t, <1>6, Working
  <2>2. "lease" \notin happened' /\ pc'[s] = "create" => \A f \in new'[s] : unit'[f] = "none"
    BY <1>t, <1>4, <1>5, <1>6, LeadsToCreate
  <2> QED
    BY <1>1, <2>1, <2>2
<1>7. ASSUME UNCHANGED scanner, happened \subseteq happened',
             \A f \in Files : unit[f] = "none" => unit'[f] = "none"
      PROVE  OneLeader'
  <2>1. pc' = pc /\ new' = new
    BY <1>7 DEF scanner, work
  <2>2. \A s \in Scanners : new[s] \subseteq Files
    BY <1>t DEF TypeOK
  <2> QED
    BY <1>t, <1>7, <2>1, <2>2 DEF OneLeader
<1>8. ASSUME NEW g \in Files, Claim(g)
      PROVE  happened' = happened /\ \A f \in Files : unit[f] = "none" => unit'[f] = "none"
  BY <1>t, <1>8 DEF Claim, ghosts, TypeOK
<1>9. ASSUME UNCHANGED vars PROVE OneLeader'
  BY <1>t, <1>9 DEF vars, tikv, scanner, work, ghosts, OneLeader
<1>10. \A c \in Controllers : Reconciles(c) => unit' = unit /\ happened \subseteq happened'
  BY <1>t, Reconciling
<1> QED
  BY <1>2, <1>3, <1>6, <1>7, <1>8, <1>9, <1>10, StepCases

(* Where the snapshots of a scanner come from after a step outside the work *)
LEMMA SnapshotsTravel ==
    ASSUME TypeOK, NEW s \in Scanners, Travels(s)
    PROVE  /\ \/ st'[s] = st[s] \/ st'[s].scanned = 0
              \/ \E k \in DOMAIN todo[s] : st'[s] = todo[s][k]
           /\ \A j \in DOMAIN todo'[s] :
                 todo'[s][j] = status \/ \E k \in DOMAIN todo[s] : todo'[s][j] = todo[s][k]
<1>d. /\ st \in [Scanners -> Status] /\ todo \in [Scanners -> Seq(Status)]
      /\ todo[s] \in Seq(Status) /\ status \in Status
  BY DEF TypeOK
<1>1. CASE st' = st /\ todo'[s] = todo[s]
  BY <1>1
<1>2. CASE st' = st /\ todo'[s] = Append(todo[s], status)
  <2>1. \A j \in DOMAIN Append(todo[s], status) :
            \/ Append(todo[s], status)[j] = status
            \/ j \in DOMAIN todo[s] /\ Append(todo[s], status)[j] = todo[s][j]
    BY <1>d
  <2> QED
    BY <1>2, <2>1
<1>3. CASE StartBatch(s)
  <2>1. todo[s] # <<>> /\ st'[s] = Head(todo[s]) /\ todo'[s] = Tail(todo[s])
    BY <1>3, <1>d DEF StartBatch
  <2>2. 1 \in DOMAIN todo[s] /\ Head(todo[s]) = todo[s][1]
    BY <1>d, <2>1
  <2>3. \A j \in DOMAIN Tail(todo[s]) :
            j + 1 \in DOMAIN todo[s] /\ Tail(todo[s])[j] = todo[s][j + 1]
    BY <1>d, <2>1
  <2> QED
    BY <2>1, <2>2, <2>3
<1>4. CASE EndCycle(s) \/ Crash(s)
  <2>1. st'[s] = Submitted /\ todo'[s] = <<>>
    BY <1>4, <1>d DEF EndCycle, Crash, Forget
  <2>2. Submitted.scanned = 0 /\ DOMAIN <<>> = {}
    BY DEF Submitted
  <2> QED
    BY <2>1, <2>2
<1>5. CASE try_become_leader(s) \/ StaysOpen(s)
  BY <1>1, <1>5 DEF try_become_leader, StaysOpen, list, work
<1>6. CASE ScanPrefix(s)
  BY <1>1, <1>6, <1>d DEF ScanPrefix, NextPrefix, list, work
<1>7. CASE GetStatus(s)
  BY <1>1, <1>2, <1>7, <1>d DEF GetStatus, NextPrefix, list, work
<1>8. CASE CleanStaleKey(s)
  BY <1>1, <1>8, <1>d DEF CleanStaleKey, NextPrefix, work
<1> QED
  BY <1>3, <1>4, <1>5, <1>6, <1>7, <1>8 DEF Travels

(* The work on a source counts sources only in SourceDone *)
LEMMA SnapshotsWork ==
    ASSUME TypeOK, NEW s \in Scanners, Works(s)
    PROVE  st'[s].scanned \in {0, st[s].scanned} \/ SourceDone(s)
<1>d. st \in [Scanners -> Status]
  BY DEF TypeOK
<1>1. CASE initialize_discovery_phase(s)
  BY <1>1, <1>d DEF initialize_discovery_phase
<1>2. CASE finalize_batch_phase(s)
  BY <1>2, <1>d DEF finalize_batch_phase
<1>3. CASE \/ ListSource(s) \/ SourceFails(s) \/ create_work_units_for_files(s)
           \/ SaveSource(s) \/ SavePhase(s) \/ PutIndex(s) \/ DeleteIndex(s)
  BY <1>3 DEF ListSource, SourceFails, create_work_units_for_files, SaveSource, SavePhase,
     PutIndex, DeleteIndex, work
<1> QED
  BY <1>1, <1>2, <1>3 DEF Works

(* Every step keeps the snapshots covered *)
LEMMA CoveredStep ==
    ASSUME IInv, [Next]_vars PROVE SnapshotsCovered'
<1>t. TypeOK /\ SnapshotsCovered
  BY DEF IInv
<1>u. \A i \in 1 .. N : \A f \in FilesOf[i] : unit[f] # "none" => unit'[f] # "none"
  BY UnitsStay DEF Files
<1> DEFINE Reaches(n) == \A i \in 1 .. N : i <= n => \A f \in FilesOf[i] : unit'[f] # "none"
<1>r. /\ \A x : Covered(x) => Reaches(x.scanned)
      /\ Reaches(0)
  BY <1>u DEF Covered
<1>1. ASSUME NEW s \in Scanners, OthersKeep(s), happened \subseteq happened',
             status' \in {status, st[s]}, ctl' = ctl,
             "source" \notin happened => Reaches(st'[s].scanned),
             \A j \in DOMAIN todo'[s] :
                 todo'[s][j] = status \/ \E k \in DOMAIN todo[s] : todo'[s][j] = todo[s][k]
      PROVE  SnapshotsCovered'
  <2> SUFFICES ASSUME "source" \notin happened' PROVE SnapshotsCovered'
    BY DEF SnapshotsCovered
  <2>0. "source" \notin happened
    BY <1>1
  <2>1. /\ Covered(status) /\ \A c \in Controllers : Covered(ctl[c].next)
        /\ \A r \in Scanners : Covered(st[r]) /\ \A j \in DOMAIN todo[r] : Covered(todo[r][j])
    BY <1>t, <2>0 DEF SnapshotsCovered
  <2>2. Reaches(status'.scanned)
    BY <1>1, <1>r, <2>1
  <2>5. \A c \in Controllers : Reaches(ctl'[c].next.scanned)
    BY <1>1, <1>r, <2>1
  <2>3. ASSUME NEW r \in Scanners PROVE Reaches(st'[r].scanned)
    BY <1>1, <1>r, <2>0, <2>1, <2>3 DEF OthersKeep
  <2>4. ASSUME NEW r \in Scanners, NEW j \in DOMAIN todo'[r] PROVE Reaches(todo'[r][j].scanned)
    <3>1. CASE r = s
      BY <1>1, <1>r, <2>1, <2>4, <3>1
    <3>2. CASE r # s
      <4>1. todo'[r] = todo[r]
        BY <1>1, <3>2 DEF OthersKeep
      <4> QED
        BY <1>r, <2>1, <2>4, <4>1
    <3> QED
      BY <3>1, <3>2
  <2> QED
    BY <2>2, <2>3, <2>4, <2>5 DEF SnapshotsCovered, Covered
<1>2. ASSUME NEW s \in Scanners, Travels(s), ctl' = ctl PROVE SnapshotsCovered'
  <2>1. OthersKeep(s) /\ happened \subseteq happened' /\ status' = status
    BY <1>t, <1>2, Travelling
  <2>2. "source" \notin happened => Reaches(st'[s].scanned)
    <3> HIDE DEF Reaches
    <3> QED
      BY <1>t, <1>2, <1>r, SnapshotsTravel DEF SnapshotsCovered
  <2>3. \A j \in DOMAIN todo'[s] :
            todo'[s][j] = status \/ \E k \in DOMAIN todo[s] : todo'[s][j] = todo[s][k]
    BY <1>t, <1>2, SnapshotsTravel
  <2> HIDE DEF Reaches
  <2> QED
    BY <1>1, <1>2, <2>1, <2>2, <2>3
<1>3. ASSUME NEW s \in Scanners, SourceDone(s), "source" \notin happened
      PROVE  Reaches(st'[s].scanned)
  <2>1. unit' = unit /\ st'[s].scanned = st[s].scanned + 1 /\ pc[s] = "create" /\ new[s] = {}
    BY <1>3, <1>t DEF SourceDone, Step, tikv, TypeOK
  <2>2. SourceCounted(s) /\ SourceSplit(s) /\ Covered(st[s])
    BY <1>t, <1>3 DEF IInv, SnapshotsCovered
  <2>3. src[s] = st[s].scanned + 1
    BY <1>3, <2>1, <2>2 DEF SourceCounted
  <2>4. st[s].scanned \in Nat
    BY <1>t DEF TypeOK, Status
  <2>5. \A f \in FilesOf[src[s]] : unit[f] # "none"
    BY <2>1, <2>2 DEF SourceSplit
  <2> QED
    BY <2>1, <2>2, <2>3, <2>4, <2>5 DEF Covered
<1>4. ASSUME NEW s \in Scanners, Works(s), ctl' = ctl PROVE SnapshotsCovered'
  <2>1. /\ OthersKeep(s) /\ happened \subseteq happened' /\ todo' = todo
        /\ status' \in {status, st[s]}
    BY <1>t, <1>4, Working
  <2>2. "source" \notin happened => Reaches(st'[s].scanned)
    <3> HIDE DEF Reaches
    <3> QED
      BY <1>t, <1>3, <1>4, <1>r, SnapshotsWork DEF SnapshotsCovered
  <2> HIDE DEF Reaches
  <2> QED
    BY <1>1, <1>4, <2>1, <2>2
<1>5. ASSUME NEW c \in Controllers, Reconciles(c), UNCHANGED scanner PROVE SnapshotsCovered'
  <2> SUFFICES ASSUME "source" \notin happened' PROVE SnapshotsCovered'
    BY DEF SnapshotsCovered
  <2>1. /\ happened \subseteq happened' /\ status' \in {status, ctl[c].next}
        /\ \A d \in Controllers : d # c => ctl'[d] = ctl[d]
        /\ ctl'[c].next.scanned \in {0, status.scanned, ctl[c].next.scanned}
    BY <1>t, <1>5, Reconciling
  <2>2. /\ Covered(status) /\ \A d \in Controllers : Covered(ctl[d].next)
        /\ \A r \in Scanners : Covered(st[r]) /\ \A j \in DOMAIN todo[r] : Covered(todo[r][j])
    BY <1>t, <2>1 DEF SnapshotsCovered
  <2>3. Reaches(status'.scanned) /\ Reaches(ctl'[c].next.scanned)
    <3> HIDE DEF Reaches
    <3> QED
      BY <1>r, <2>1, <2>2
  <2>4. \A d \in Controllers : Reaches(ctl'[d].next.scanned)
    <3> HIDE DEF Reaches
    <3> QED
      BY <1>r, <2>1, <2>2, <2>3
  <2>5. \A r \in Scanners : Reaches(st'[r].scanned)
                           /\ \A j \in DOMAIN todo'[r] : Reaches(todo'[r][j].scanned)
    <3>1. st' = st /\ todo' = todo
      BY <1>5 DEF scanner, list, work
    <3> HIDE DEF Reaches
    <3> QED
      BY <1>r, <2>2, <3>1
  <2> QED
    BY <2>3, <2>4, <2>5 DEF SnapshotsCovered, Covered
<1>6. ASSUME status' = status, UNCHANGED <<scanner, ctl>>, happened' = happened
      PROVE  SnapshotsCovered'
  BY <1>t, <1>u, <1>6 DEF SnapshotsCovered, Covered, scanner, list, work
<1>7. ASSUME NEW g \in Files, Claim(g) PROVE status' = status /\ happened' = happened
  BY <1>7 DEF Claim, saved, ghosts
<1>8. ASSUME UNCHANGED vars PROVE SnapshotsCovered'
  BY <1>6, <1>8 DEF vars, tikv, saved, ghosts
<1> QED
  BY <1>2, <1>4, <1>5, <1>6, <1>7, <1>8, StepCases

(* The invariant holds in every reachable state *)
THEOREM Invariance == Spec => []IInv
<1>1. IInv /\ [Next]_vars => IInv'
  BY TypeStep, CountedStep, SplitStep, LeaderStep, CoveredStep DEF IInv
<1> QED
  BY <1>1, InitIInv, PTL DEF Spec

(* A source that the stored status counts as scanned, and that process_batch    *)
(* will skip, has a unit for each of its files: for any number of scanners,     *)
(* controllers, sources, files, crashes, failed writes, stale saves and leaders *)
(* at work at the same time                                                     *)
THEOREM SkippedSourcesCovered == Spec => []ScannedIsCovered
<1>1. IInv => ScannedIsCovered
  BY DEF IInv, SnapshotsCovered, ScannedIsCovered
<1> QED
  BY <1>1, Invariance, PTL

(* While no second leader worked, the blind put of create_work_units_for_files  *)
(* never resets a claimed unit                                                  *)
THEOREM ClaimsSafe == Spec => ProgressKept
<1>1. ASSUME IInv, [Next]_vars PROVE ClaimsKept
  <2>t. TypeOK /\ OneLeader
    BY <1>1 DEF IInv
  <2> SUFFICES ASSUME "lease" \notin happened', NEW f \in Files, unit[f] = "Claimed"
               PROVE  unit'[f] = "Claimed"
    BY DEF ClaimsKept
  <2>1. ASSUME NEW s \in Scanners, NEW chunk \in SUBSET new[s], PutChunk(s, chunk),
               happened \subseteq happened'
        PROVE  unit'[f] = "Claimed"
    <3>1. f \notin chunk
      BY <2>t, <2>1 DEF OneLeader, PutChunk
    <3> QED
      BY <2>1, <3>1 DEF PutChunk
  <2>2. ASSUME NEW g \in Files, Claim(g) PROVE unit'[f] = "Claimed"
    BY <2>t, <2>2 DEF Claim, TypeOK
  <2>3. UNCHANGED vars => unit' = unit
    BY DEF vars, tikv
  <2> QED
    BY <1>1, <2>t, <2>1, <2>2, <2>3, StepCases, Travelling, Working, Reconciling
<1> QED
  BY <1>1, Invariance, PTL DEF Spec, ProgressKept

(* The phases actors are about to store agree with the ones they have read *)
LEMMA PhasesStep ==
    ASSUME TypeOK, PhasesRead, [Next]_vars PROVE PhasesRead'
<1> DEFINE S(s) == pc[s] = "put" => st[s].phase # "Pending"
           C(x) == /\ x.pc = "scan" => ~Open(x.next) /\ x.old = x.next.phase
                   /\ x.pc \in {"put", "index", "unindex"} =>
                        /\ x.next.phase # "Pending"
                        /\ Open(x.next) => x.old \in {"Pending", "Discovering"}
                   /\ x.pc \in {"index", "unindex"} => x.old # x.next.phase
<1>t. /\ pc \in [Scanners -> Location] /\ st \in [Scanners -> Status]
      /\ ctl \in [Controllers -> ControllerState]
  BY DEF TypeOK
<1>h. (\A s \in Scanners : S(s)) /\ \A c \in Controllers : C(ctl[c])
  BY DEF PhasesRead
<1>g. (\A s \in Scanners : S(s)') /\ (\A c \in Controllers : C(ctl'[c])) => PhasesRead'
  BY DEF PhasesRead
<1>1. ASSUME NEW s \in Scanners, Travels(s) \/ Works(s) PROVE \A r \in Scanners : S(r)'
  <2>1. OthersKeep(s)
    BY <1>1, Travelling, Working
  <2>2. ASSUME Travels(s) PROVE S(s)'
    BY <2>2, Travelling DEF Elsewhere
  <2>3. ASSUME Works(s) PROVE S(s)'
    <3> USE DEF Goto, Step, Write
    <3>1. CASE initialize_discovery_phase(s) \/ finalize_batch_phase(s)
      BY <1>t, <3>1 DEF initialize_discovery_phase, finalize_batch_phase
    <3>2. CASE ListSource(s) \/ SourceFails(s) \/ SourceDone(s) \/ SaveSource(s)
      BY <1>t, <3>2 DEF ListSource, SourceFails, SourceDone, SaveSource
    <3>3. CASE create_work_units_for_files(s)
      BY <1>t, <3>3 DEF create_work_units_for_files, PutChunk
    <3>4. CASE SavePhase(s) \/ PutIndex(s) \/ DeleteIndex(s)
      BY <1>t, <3>4 DEF SavePhase, PutIndex, DeleteIndex
    <3> QED
      BY <2>3, <3>1, <3>2, <3>3, <3>4 DEF Works
  <2> QED
    BY <1>1, <1>h, <2>1, <2>2, <2>3 DEF OthersKeep
<1>2. ASSUME NEW c \in Controllers, Reconciles(c) PROVE \A d \in Controllers : C(ctl'[d])
  <2>1. \A d \in Controllers : d # c => ctl'[d] = ctl[d]
    BY <1>2, Reconciling
  <2>2. C(ctl'[c])
    <3>r. ctl[c] \in ControllerState /\ C(ctl[c])
      BY <1>t, <1>h
    <3>w. C(Waiting)
      BY DEF Waiting
    <3>1. CASE reconcile_all(c) \/ CtlCrash(c)
      <4>1. ctl'[c] = Waiting \/ ctl'[c].pc = "get"
        BY <1>t, <3>1, <3>r DEF reconcile_all, CtlCrash, CtlGoto, ControllerState
      <4> QED
        BY <3>w, <4>1
    <3>2. CASE reconcile_batch(c) \/ DiscoveryTimeout(c)
      <4>1. \/ /\ status.phase = "Pending"
               /\ ctl'[c] = [pc |-> "put", next |-> [phase |-> "Discovering", scanned |-> 0],
                             old |-> "Pending"]
            \/ /\ status.phase = "Discovering"
               /\ ctl'[c] = [pc |-> "put", next |-> status, old |-> status.phase]
            \/ ~Open(status) /\ ctl'[c] = [pc |-> "scan", next |-> status, old |-> status.phase]
            \/ ctl'[c] = [pc |-> "put", next |-> [phase |-> "Failed", scanned |-> status.scanned],
                          old |-> status.phase]
        BY <1>t, <3>2 DEF reconcile_batch, DiscoveryTimeout, Decide
      <4> QED
        BY <4>1 DEF Open
    <3>3. CASE reconcile_running(c)
      <4>1. PICK p \in {"Running", "Failed", ctl[c].old} :
              ctl'[c] = [pc |-> "put", old |-> ctl[c].old,
                         next |-> [phase |-> p, scanned |-> ctl[c].next.scanned]]
        BY <1>t, <3>3 DEF reconcile_running
      <4>2. ctl[c].pc = "scan"
        BY <3>3 DEF reconcile_running
      <4> QED
        BY <3>r, <4>1, <4>2 DEF Open
    <3>4. CASE SaveStatus(c) \/ MoveIndex(c)
      <4>1. \/ ctl'[c] = Waiting
            \/ /\ ctl[c].pc = "put" /\ ctl[c].next.phase # ctl[c].old
               /\ ctl'[c] = [ctl[c] EXCEPT !.pc = "index"]
            \/ ctl[c].pc = "index" /\ ctl'[c] = [ctl[c] EXCEPT !.pc = "unindex"]
        BY <1>t, <3>4 DEF SaveStatus, MoveIndex, CtlWrite, CtlGoto
      <4> QED
        BY <3>r, <3>w, <4>1 DEF ControllerState
    <3> QED
      BY <1>2, <3>1, <3>2, <3>3, <3>4 DEF Reconciles, reconcile
  <2> QED
    BY <1>h, <2>1, <2>2
<1>3. UNCHANGED scanner => \A s \in Scanners : S(s)'
  BY <1>h DEF scanner, work
<1>4. UNCHANGED vars => UNCHANGED <<scanner, ctl>>
  BY DEF vars
<1>5. ctl' = ctl => \A c \in Controllers : C(ctl'[c])
  BY <1>h
<1> HIDE DEF S, C
<1> QED
  BY <1>g, <1>1, <1>2, <1>3, <1>4, <1>5, StepCases

(* Without a save over the end of discovery, an unfinished batch was unfinished *)
(* before the step                                                              *)
LEMMA StaysUnfinished ==
    ASSUME TypeOK, NEW x, Save(x) \/ UNCHANGED saved, ~reopened', Open(status')
    PROVE  ~reopened /\ Open(status)
  BY DEF Save, saved, TypeOK

\* What KeysKept says of a scanner and of a controller
ScannerKeeps(s) ==
    /\ pc[s] # "clean"
    /\ pc[s] \in {"index", "unindex"} => st[s].phase = "Discovering"
    /\ pc[s] = "unindex" => "Discovering" \in index

ControllerKeeps(c) ==
    /\ ctl[c].pc \in {"index", "unindex"} => ctl[c].next.phase = "Discovering"
    /\ ctl[c].pc = "unindex" => "Discovering" \in index

Key == index \cap {"Pending", "Discovering"} # {}

(* KeysKept, actor by actor *)
LEMMA KeysParts ==
    KeysKept <=> (~reopened /\ Open(status) => /\ Key
                                               /\ \A s \in Scanners : ScannerKeeps(s)
                                               /\ \A c \in Controllers : ControllerKeeps(c))
  BY DEF KeysKept, Key, ScannerKeeps, ControllerKeeps

(* The steps of a scanner that neither save nor touch the index *)
LEMMA KeysTravel ==
    ASSUME TypeOK, NEW s \in Scanners, Travels(s), Open(status), pc[s] # "clean"
    PROVE  index' = index /\ UNCHANGED saved /\ pc'[s] \notin {"clean", "index", "unindex"}
<1>t. pc \in [Scanners -> Location]
  BY DEF TypeOK
<1> USE DEF Goto, Step, tikv, ghosts
<1>1. CASE try_become_leader(s)
  BY <1>t, <1>1 DEF try_become_leader
<1>2. CASE ScanPrefix(s)
  BY <1>t, <1>2 DEF ScanPrefix, NextPrefix
<1>3. CASE GetStatus(s)
  BY <1>t, <1>3 DEF GetStatus, NextPrefix
<1>4. CASE StartBatch(s) \/ StaysOpen(s)
  BY <1>t, <1>4 DEF StartBatch, StaysOpen
<1>5. CASE EndCycle(s) \/ Crash(s)
  BY <1>t, <1>5 DEF EndCycle, Crash, Forget
<1>6. ~CleanStaleKey(s)
  BY DEF CleanStaleKey
<1> QED
  BY <1>1, <1>2, <1>3, <1>4, <1>5, <1>6 DEF Travels

(* The steps of process_batch other than the three writes of the phase change no key *)
LEMMA KeysWork ==
    ASSUME TypeOK, NEW s \in Scanners, Works(s),
           ~SavePhase(s), ~PutIndex(s), ~DeleteIndex(s)
    PROVE  /\ index' = index /\ pc'[s] \notin {"clean", "index", "unindex"}
           /\ Save(st[s]) \/ UNCHANGED saved
<1>t. pc \in [Scanners -> Location]
  BY DEF TypeOK
<1> USE DEF Goto, Step, tikv
<1>1. CASE initialize_discovery_phase(s) \/ finalize_batch_phase(s)
  BY <1>t, <1>1 DEF initialize_discovery_phase, finalize_batch_phase
<1>2. CASE ListSource(s) \/ SourceFails(s) \/ SourceDone(s)
  BY <1>t, <1>2 DEF ListSource, SourceFails, SourceDone
<1>3. CASE create_work_units_for_files(s)
  BY <1>t, <1>3 DEF create_work_units_for_files, PutChunk
<1>4. CASE SaveSource(s)
  BY <1>t, <1>4 DEF SaveSource, Write
<1> QED
  BY <1>1, <1>2, <1>3, <1>4 DEF Works

(* The scanner's own writes of the phase and of its keys *)
LEMMA KeysPhase ==
    ASSUME TypeOK, PhasesRead, NEW s \in Scanners, ScannerKeeps(s), Key, Open(status'),
           SavePhase(s) \/ PutIndex(s) \/ DeleteIndex(s)
    PROVE  /\ Key' /\ ScannerKeeps(s)' /\ ("Discovering" \in index => "Discovering" \in index')
           /\ Save(st[s]) \/ UNCHANGED saved
<1>t. /\ pc \in [Scanners -> Location]
      /\ st[s].phase \in Phase
  BY DEF TypeOK, Status
<1> USE DEF Goto, Step, Write, work, Key, ScannerKeeps
<1>1. CASE SavePhase(s)
  <2>1. Save(st[s]) \/ UNCHANGED saved
    BY <1>1 DEF SavePhase
  <2>2. pc[s] = "put" /\ st' = st /\ index' = index
    BY <1>1 DEF SavePhase
  <2>3. pc'[s] = "next" \/ (pc'[s] = "index" /\ status' = st[s])
    BY <1>t, <1>1 DEF SavePhase, Save
  <2>4. pc'[s] = "index" => st[s].phase = "Discovering"
    BY <2>2, <2>3 DEF Open, PhasesRead
  <2> QED
    BY <2>1, <2>2, <2>3, <2>4
<1>2. CASE PutIndex(s)
  <2>1. pc[s] = "index" /\ st' = st /\ UNCHANGED saved
    BY <1>2 DEF PutIndex
  <2>2. \/ pc'[s] = "next" /\ index \subseteq index'
        \/ pc'[s] = "unindex" /\ index' = index \cup {st[s].phase}
    BY <1>t, <1>2 DEF PutIndex, IndexFirst
  <2> QED
    BY <2>1, <2>2
<1>3. CASE DeleteIndex(s)
  <2>1. pc[s] = "unindex" /\ st' = st /\ UNCHANGED saved
    BY <1>3 DEF DeleteIndex
  <2>2. pc'[s] \in {"source", "next"}
    BY <1>t, <1>3 DEF DeleteIndex
  <2>3. "Discovering" \in index'
    BY <1>t, <1>3, <2>1 DEF DeleteIndex, IndexSecond
  <2> QED
    BY <2>1, <2>2, <2>3
<1> QED
  BY <1>1, <1>2, <1>3

(* A controller's steps *)
LEMMA KeysReconcile ==
    ASSUME TypeOK, PhasesRead, NEW c \in Controllers, ControllerKeeps(c), Key,
           Open(status'), Reconciles(c)
    PROVE  /\ Key' /\ ControllerKeeps(c)' /\ ("Discovering" \in index => "Discovering" \in index')
           /\ Save(ctl[c].next) \/ UNCHANGED saved
<1>t. ctl \in [Controllers -> ControllerState] /\ ctl[c] \in ControllerState
  BY DEF TypeOK
<1> USE DEF Key, ControllerKeeps
<1>1. ASSUME NEW p, CtlGoto(c, p), p \in {"idle", "get", "index", "unindex"}
      PROVE  /\ ctl'[c].pc = p
             /\ p # "idle" => ctl'[c].next = ctl[c].next
  BY <1>t, <1>1 DEF CtlGoto, Waiting, ControllerState
<1>2. CASE reconcile_all(c) \/ CtlCrash(c)
  BY <1>1, <1>2 DEF reconcile_all, CtlCrash, tikv
<1>3. CASE reconcile_batch(c) \/ DiscoveryTimeout(c) \/ reconcile_running(c)
  <2>1. ctl'[c].pc \in {"put", "scan"}
    BY <1>t, <1>3 DEF reconcile_batch, DiscoveryTimeout, reconcile_running, Decide
  <2>2. index' = index /\ UNCHANGED saved
    BY <1>3 DEF reconcile_batch, DiscoveryTimeout, reconcile_running, Decide, tikv
  <2> QED
    BY <2>1, <2>2
<1>4. CASE SaveStatus(c)
  <2>1. Save(ctl[c].next) \/ UNCHANGED saved
    BY <1>4 DEF SaveStatus, CtlWrite
  <2>2. ctl[c].pc = "put" /\ index' = index
    BY <1>4 DEF SaveStatus, CtlWrite
  <2>3. \/ ctl'[c].pc = "idle"
        \/ /\ ctl'[c].pc = "index" /\ ctl'[c].next = ctl[c].next
           /\ status' = ctl[c].next
    BY <1>1, <1>4 DEF SaveStatus, CtlWrite, Save
  <2>4. ctl'[c].pc = "index" => ctl'[c].next.phase = "Discovering"
    BY <2>2, <2>3 DEF PhasesRead, Open
  <2> QED
    BY <2>1, <2>2, <2>3, <2>4
<1>5. CASE MoveIndex(c)
  <2>1. UNCHANGED saved
    BY <1>5 DEF MoveIndex
  <2>2. CASE ctl[c].pc = "index"
    <3>1. \/ ctl'[c].pc = "idle" /\ index \subseteq index'
          \/ /\ ctl'[c].pc = "unindex" /\ ctl'[c].next = ctl[c].next
             /\ index' = index \cup {ctl[c].next.phase}
      BY <1>1, <1>5, <2>2 DEF MoveIndex, CtlWrite
    <3> QED
      BY <2>1, <2>2, <3>1
  <2>3. CASE ctl[c].pc = "unindex"
    <3>1. ctl'[c].pc = "idle" /\ (index' = index \/ index' = index \ {ctl[c].old})
      BY <1>1, <1>5, <2>3 DEF MoveIndex, CtlWrite
    <3>2. ctl[c].old # "Discovering"
      BY <2>3 DEF PhasesRead
    <3> QED
      BY <2>1, <2>3, <3>1, <3>2
  <2> QED
    BY <1>5, <2>2, <2>3 DEF MoveIndex, CtlWrite
<1> QED
  BY <1>2, <1>3, <1>4, <1>5 DEF Reconciles, reconcile

(* The keys of an unfinished batch survive every step *)
LEMMA KeysStep ==
    ASSUME TypeOK, PhasesRead, KeysKept, [Next]_vars PROVE KeysKept'
<1>p. KeysKept' <=> (~reopened' /\ Open(status') =>
                        /\ Key'
                        /\ \A s \in Scanners : ScannerKeeps(s)'
                        /\ \A c \in Controllers : ControllerKeeps(c)')
  BY DEF KeysKept, Key, ScannerKeeps, ControllerKeeps
<1> SUFFICES ASSUME ~reopened', Open(status')
             PROVE  /\ Key'
                    /\ \A s \in Scanners : ScannerKeeps(s)'
                    /\ \A c \in Controllers : ControllerKeeps(c)'
  BY <1>p
<1>b. ASSUME NEW x, Save(x) \/ UNCHANGED saved
      PROVE  /\ Open(status) /\ Key
             /\ \A s \in Scanners : ScannerKeeps(s)
             /\ \A c \in Controllers : ControllerKeeps(c)
  BY <1>b, StaysUnfinished, KeysParts
<1>1. ASSUME NEW s \in Scanners, Travels(s) \/ Works(s), UNCHANGED ctl
      PROVE  /\ Key' /\ \A r \in Scanners : ScannerKeeps(r)'
             /\ \A c \in Controllers : ControllerKeeps(c)'
  <2>s. \E x : Save(x) \/ UNCHANGED saved
    <3>1. ASSUME Travels(s) PROVE UNCHANGED saved
      BY <3>1 DEF Travels, try_become_leader, ScanPrefix, GetStatus, CleanStaleKey, StartBatch,
         EndCycle, StaysOpen, Crash, tikv
    <3>2. CASE Works(s)
      BY <3>2, KeysWork DEF SavePhase, PutIndex, DeleteIndex, Write
    <3> QED
      BY <1>1, <3>1, <3>2
  <2>b. /\ Open(status) /\ Key
        /\ \A r \in Scanners : ScannerKeeps(r)
        /\ \A c \in Controllers : ControllerKeeps(c)
    BY <1>b, <2>s
  <2>1. OthersKeep(s)
    BY <1>1, Travelling, Working
  <2>2. Key' /\ ScannerKeeps(s)' /\ ("Discovering" \in index => "Discovering" \in index')
    <3>1. CASE Travels(s)
      BY <2>b, <3>1, KeysTravel DEF ScannerKeeps, Key
    <3>2. CASE SavePhase(s) \/ PutIndex(s) \/ DeleteIndex(s)
      BY <2>b, <3>2, KeysPhase
    <3>3. CASE Works(s) /\ ~(SavePhase(s) \/ PutIndex(s) \/ DeleteIndex(s))
      <4>1. index' = index /\ pc'[s] \notin {"clean", "index", "unindex"}
        BY <3>3, KeysWork
      <4> QED
        BY <2>b, <4>1 DEF ScannerKeeps, Key
    <3> QED
      BY <1>1, <3>1, <3>2, <3>3
  <2> QED
    BY <1>1, <2>b, <2>1, <2>2 DEF OthersKeep, ScannerKeeps, ControllerKeeps
<1>2. ASSUME NEW c \in Controllers, Reconciles(c), UNCHANGED scanner
      PROVE  /\ Key' /\ \A r \in Scanners : ScannerKeeps(r)'
             /\ \A d \in Controllers : ControllerKeeps(d)'
  <2>s. Save(ctl[c].next) \/ UNCHANGED saved
    BY <1>2 DEF Reconciles, reconcile, reconcile_all, reconcile_batch, reconcile_running,
       DiscoveryTimeout, CtlCrash, SaveStatus, MoveIndex, CtlWrite, tikv
  <2>b. /\ Open(status) /\ Key
        /\ \A r \in Scanners : ScannerKeeps(r)
        /\ \A d \in Controllers : ControllerKeeps(d)
    BY <1>b, <2>s
  <2>1. \A d \in Controllers : d # c => ctl'[d] = ctl[d]
    BY <1>2, Reconciling
  <2>2. Key' /\ ControllerKeeps(c)' /\ ("Discovering" \in index => "Discovering" \in index')
    BY <1>2, <2>b, KeysReconcile
  <2> QED
    BY <1>2, <2>b, <2>1, <2>2 DEF scanner, work, ScannerKeeps, ControllerKeeps
<1>3. ASSUME NEW f \in Files, Claim(f), UNCHANGED <<scanner, ctl>>
      PROVE  /\ Key' /\ \A r \in Scanners : ScannerKeeps(r)'
             /\ \A d \in Controllers : ControllerKeeps(d)'
  <2>1. UNCHANGED saved /\ index' = index
    BY <1>3 DEF Claim
  <2> QED
    BY <1>b, <1>3, <2>1 DEF scanner, work, Key, ScannerKeeps, ControllerKeeps
<1>4. CASE UNCHANGED vars
  BY <1>b, <1>4 DEF vars, tikv, scanner, work, Key, ScannerKeeps, ControllerKeeps
<1> QED
  BY <1>1, <1>2, <1>3, <1>4, StepCases

(* Findable: until a save overwrites the end of discovery, an unfinished batch  *)
(* keeps a key under a prefix the scanner reads, whichever actor dies or fails  *)
(* between the writes of update_phase_index                                     *)
THEOREM UnfinishedIsFound == Spec => []Findable
<1>1. Init => PhasesRead /\ KeysKept
  BY DEF Init, PhasesRead, KeysKept, Waiting, Submitted, Open
<1>2. IInv /\ PhasesRead /\ KeysKept /\ [Next]_vars => (PhasesRead /\ KeysKept)'
  BY PhasesStep, KeysStep DEF IInv
<1>3. KeysKept => Findable
  BY DEF KeysKept, Findable
<1> QED
  BY <1>1, <1>2, <1>3, Invariance, PTL DEF Spec
=============================================================================
