----------------------- MODULE EpisodeAllocator_proofs -----------------------
(***************************************************************************)
(* The episode allocator hands out every index at most once, below the     *)
(* limit, and so implements the dispenser.  The argument: an index handed  *)
(* out lies below counter.next (GrantedBelow); a CAS succeeds only on the  *)
(* version the worker read, and the version identifies the value           *)
(* (SeenIsOld), so the block it takes starts at counter.next; creating the *)
(* counter a second time writes what is there (FreshAtZero).               *)
(***************************************************************************)
EXTENDS EpisodeAllocator, TLAPS

USE DEF At, Idle, NewCounter, WorkerState, Counter

(* max_episodes, the default limit of TiKVEpisodeAllocator::new, is a number *)
LEMMA LimitNat == max_episodes \in Nat
  BY ChunkAssumption, SMT DEF max_episodes

(* A worker with no request has a state of its type *)
LEMMA IdleState == Idle \in WorkerState /\ Idle.pc = "idle"
  <1>1. 0 \in 0 .. MaxAttempts - 1
    BY AttemptsAssumption
  <1> QED
    BY <1>1

(* A worker's request and what it has read are numbers *)
LEMMA WorkerTyped ==
  ASSUME IInv, NEW w \in Workers
  PROVE  /\ wk[w] \in WorkerState
         /\ wk[w].count \in Nat
         /\ wk[w].seen \in Counter
  <1>1. wk[w] \in WorkerState
    BY DEF IInv, TypeOK
  <1>2. wk[w].count \in Counts \cup {0} /\ wk[w].seen \in Counter
    BY <1>1
  <1>3. Counts \cup {0} \subseteq Nat
    BY CountsAssumption
  <1> QED
    BY <1>1, <1>2, <1>3

(* Before the first call there is no counter and nothing is handed out *)
LEMMA InitIInv == Init => IInv
  BY AttemptsAssumption, NoCounterAssumption
  DEF Init, IInv, TypeOK, Requests, FreshAtZero, SeenIsOld, GrantedBelow, NoIndexTwice

(* A worker's own moves (starting, looking for the counter, giving up) keep the *)
(* invariant: the counter and what is handed out do not change                  *)
LEMMA OwnMoveIInv ==
  ASSUME IInv, NEW w \in Workers, NEW s \in WorkerState,
         s.pc # "cas", s.pc = "idle" \/ s.count \in Counts, wk' = [wk EXCEPT ![w] = s], UNCHANGED <<counter, granted>>
  PROVE  IInv'
  <1>1. TypeOK'
    BY DEF IInv, TypeOK
  <1>2. Requests' /\ FreshAtZero' /\ GrantedBelow' /\ NoIndexTwice'
    BY DEF TypeOK, Requests, IInv, FreshAtZero, GrantedBelow, NoIndexTwice
  <1>3. SeenIsOld'
    <2> SUFFICES ASSUME NEW v \in Workers, wk'[v].pc = "cas"
                 PROVE  /\ counter' # NoCounter
                        /\ wk'[v].seen.version <= counter'.version
                        /\ wk'[v].seen.version = counter'.version => wk'[v].seen = counter'
                        /\ wk'[v].seen.next + wk'[v].count <= max_episodes
      BY DEF SeenIsOld
    <2>1. v # w /\ wk'[v] = wk[v]
      BY DEF IInv, TypeOK
    <2> QED
      BY <2>1 DEF IInv, SeenIsOld
  <1> QED
    BY <1>1, <1>2, <1>3 DEF IInv

(* Creating the counter: it is written only where there is none, or where the   *)
(* counter at version 0 is the one being written                                *)
LEMMA CreateIInv ==
  ASSUME IInv, NEW w \in Workers, CreateCounter(w)
  PROVE  IInv'
  <1>1. [wk[w] EXCEPT !.pc = "read"] \in WorkerState
    BY DEF IInv, TypeOK
  <1>2. wk' = [wk EXCEPT ![w] = [wk[w] EXCEPT !.pc = "read"]] /\ granted' = granted
    BY DEF CreateCounter, Goto
  <1>3. CASE counter' = counter
    <2>1. wk[w].count \in Counts /\ [wk[w] EXCEPT !.pc = "read"].count = wk[w].count
      BY DEF IInv, TypeOK, Requests, CreateCounter
    <2> QED
      BY <1>1, <1>2, <1>3, <2>1, OwnMoveIInv DEF IInv, TypeOK
  <1>4. CASE counter' # counter
    <2>1. counter = NoCounter /\ counter' = NewCounter
      BY <1>4 DEF CreateCounter, cas, IInv, TypeOK, FreshAtZero
    <2>2. \A v \in Workers : wk[v].pc # "cas" /\ granted[v] = {}
      BY <2>1 DEF IInv, TypeOK, SeenIsOld, GrantedBelow
    <2>3. TypeOK'
      BY <1>1, <1>2, <2>1 DEF IInv, TypeOK
    <2>4. \A v \in Workers : wk'[v].pc # "cas" /\ granted'[v] = {}
      BY <1>2, <2>2 DEF IInv, TypeOK
    <2>5. FreshAtZero'
      BY <2>1 DEF FreshAtZero
    <2>6. Requests'
      BY <1>2 DEF IInv, TypeOK, Requests, CreateCounter
    <2> QED
      BY <2>3, <2>4, <2>5, <2>6 DEF IInv, SeenIsOld, GrantedBelow, NoIndexTwice
  <1> QED
    BY <1>3, <1>4

(* A read of the counter *)
LEMMA ReadIInv ==
  ASSUME IInv, NEW w \in Workers, ReadCounter(w)
  PROVE  IInv'
  <1>1. CASE wk' = [wk EXCEPT ![w] = Idle]
    <2> HIDE DEF Idle, WorkerState
    <2> QED
      BY <1>1, OwnMoveIInv, IdleState DEF ReadCounter
  <1>2. CASE /\ counter # NoCounter
             /\ counter.next + wk[w].count <= max_episodes
             /\ wk' = [wk EXCEPT ![w] = [wk[w] EXCEPT !.pc = "cas", !.seen = counter]]
    <2>0. counter' = counter /\ granted' = granted
      BY DEF ReadCounter
    <2>1. TypeOK' /\ counter' = counter /\ granted' = granted
      <3>1. wk[w] \in WorkerState /\ counter \in Counter
        BY <1>2, WorkerTyped DEF IInv, TypeOK
      <3>2. [wk[w] EXCEPT !.pc = "cas", !.seen = counter] \in WorkerState
        BY <3>1
      <3> HIDE DEF WorkerState
      <3> QED
        BY <1>2, <2>0, <3>2 DEF IInv, TypeOK
    <2>2. Requests' /\ FreshAtZero' /\ GrantedBelow' /\ NoIndexTwice'
      BY <1>2, <2>1 DEF IInv, TypeOK, Requests, ReadCounter, FreshAtZero, GrantedBelow, NoIndexTwice
    <2>3. SeenIsOld'
      BY <1>2, <2>1 DEF IInv, TypeOK, SeenIsOld
    <2> QED
      BY <2>1, <2>2, <2>3 DEF IInv
  <1> QED
    <2>1. counter # NoCounter => counter.next \in Nat
      BY DEF IInv, TypeOK
    <2>2. wk[w].count \in Nat
      BY WorkerTyped
    <2> QED
      BY <1>1, <1>2, <2>1, <2>2, LimitNat DEF ReadCounter, Return

(* A CAS that is applied: the worker read the current counter, the block it     *)
(* takes starts at counter.next and ends below the limit                        *)
LEMMA CasTakesNew ==
  ASSUME IInv, NEW w \in Workers, At(w, "cas"), cas(wk[w].seen.version)
  PROVE  /\ counter \in Counter /\ counter # NoCounter
         /\ wk[w].seen = counter
         /\ wk[w].count \in Nat \ {0}
         /\ counter.next + wk[w].count <= max_episodes
  <1>1. counter # NoCounter /\ wk[w].seen = counter /\ wk[w].count \in Counts
        /\ counter.next + wk[w].count <= max_episodes
    BY DEF IInv, Requests, SeenIsOld, cas
  <1>2. counter \in Counter
    BY <1>1 DEF IInv, TypeOK
  <1> QED
    BY <1>1, <1>2, CountsAssumption

(* ... and the step keeps the invariant, whether or not the worker learns of it *)
LEMMA CasIInv ==
  ASSUME IInv, NEW w \in Workers, At(w, "cas"), cas(wk[w].seen.version),
         Advance(w), Return(w),
         \/ granted' = [granted EXCEPT ![w] = @ \cup Taken(w)]
         \/ granted' = granted
  PROVE  IInv'
  <1> DEFINE n == counter.next
             c == wk[w].count
  <1>1. /\ n \in Nat /\ counter.version \in Nat /\ c \in Nat \ {0} /\ n + c <= max_episodes
        /\ wk[w].seen = counter /\ counter # NoCounter
    BY CasTakesNew
  <1>2. /\ counter' = [next |-> n + c, version |-> counter.version + 1]
        /\ Taken(w) = n .. (n + c - 1)
    BY <1>1 DEF Advance, Taken
  <1>3. counter' \in Counter /\ counter' # NoCounter
    BY <1>1, <1>2, NoCounterAssumption
  <1>4. counter'.next = n + c /\ counter'.version = counter.version + 1
    BY <1>2
  <1> HIDE DEF n, c
  <1>5. wk' = [wk EXCEPT ![w] = Idle]
    BY DEF Return
  <1>6. \A v \in Workers : granted'[v] = granted[v] \/ (v = w /\ granted'[v] = granted[v] \cup Taken(w))
    BY DEF IInv, TypeOK
  <1>7. \A i \in Taken(w) : i \in Nat /\ i >= n /\ i < n + c /\ i < max_episodes
    BY <1>1, <1>2, LimitNat
  <1>8. \A v \in Workers : \A i \in granted[v] : i \in Nat /\ i < n /\ i < max_episodes
    BY DEF IInv, TypeOK, GrantedBelow, n
  <1>9. \A v \in Workers : granted[v] \cap Taken(w) = {}
    BY <1>1, <1>7, <1>8
  <1>10. TypeOK'
    <2>1. wk' \in [Workers -> WorkerState]
      <3> HIDE DEF Idle, WorkerState
      <3> QED
        BY <1>5, IdleState DEF IInv, TypeOK
    <2>2. granted' \in [Workers -> SUBSET Nat]
      BY <1>7 DEF IInv, TypeOK
    <2> QED
      BY <1>3, <2>1, <2>2 DEF TypeOK
  <1>11. Requests' /\ FreshAtZero'
    BY <1>1, <1>4, <1>5 DEF IInv, TypeOK, Requests, FreshAtZero
  <1>12. SeenIsOld'
    <2> SUFFICES ASSUME NEW v \in Workers, wk'[v].pc = "cas"
                 PROVE  /\ counter' # NoCounter
                        /\ wk'[v].seen.version <= counter'.version
                        /\ wk'[v].seen.version = counter'.version => wk'[v].seen = counter'
                        /\ wk'[v].seen.next + wk'[v].count <= max_episodes
      BY DEF SeenIsOld
    <2>1. v # w /\ wk'[v] = wk[v]
      BY <1>5 DEF IInv, TypeOK
    <2>2. /\ wk[v].seen.version <= counter.version
          /\ wk[v].seen.next + wk[v].count <= max_episodes
      BY <2>1 DEF IInv, SeenIsOld
    <2>3. wk[v].seen.version \in Nat
      BY WorkerTyped
    <2> QED
      BY <1>1, <1>3, <1>4, <2>1, <2>2, <2>3
  <1>13. GrantedBelow'
    BY <1>1, <1>3, <1>4, <1>6, <1>7, <1>8 DEF GrantedBelow
  <1>14. NoIndexTwice'
    BY <1>6, <1>9 DEF IInv, NoIndexTwice
  <1> QED
    BY <1>10, <1>11, <1>12, <1>13, <1>14 DEF IInv

(* Every step of every worker keeps the invariant *)
LEMMA NextIInv == IInv /\ [Next]_vars => IInv'
  <1> SUFFICES ASSUME IInv, [Next]_vars PROVE IInv'
    OBVIOUS
  <1>1. CASE UNCHANGED vars
    BY <1>1 DEF vars, IInv, TypeOK, Requests, FreshAtZero, SeenIsOld, GrantedBelow, NoIndexTwice
  <1>2. ASSUME NEW w \in Workers, Step(w) \/ CasAnswerLost(w) \/ Abort(w)
        PROVE  IInv'
    <2> HIDE DEF Idle, WorkerState
    <2>0. ASSUME Return(w), UNCHANGED <<counter, granted>> PROVE IInv'
      BY <2>0, OwnMoveIInv, IdleState DEF Return
    <2>1. CASE allocate_batch(w)
      <3>1. PICK n \in Counts : wk' = [wk EXCEPT ![w] = [Idle EXCEPT !.pc = "init", !.count = n]]
        BY <2>1 DEF allocate_batch
      <3> DEFINE s == [Idle EXCEPT !.pc = "init", !.count = n]
      <3>2. 0 \in 0 .. MaxAttempts - 1
        BY AttemptsAssumption
      <3>3. s \in WorkerState /\ s.pc = "init" /\ s.count = n
        BY <3>2 DEF WorkerState, Idle
      <3> QED
        BY <2>1, <3>1, <3>3, OwnMoveIInv DEF allocate_batch
    <2>2. CASE ensure_initialized(w)
      <3>1. PICK pc \in {"create", "read"} : wk' = [wk EXCEPT ![w] = [wk[w] EXCEPT !.pc = pc]]
        BY <2>2 DEF ensure_initialized, Goto
      <3> DEFINE s == [wk[w] EXCEPT !.pc = pc]
      <3>2. s \in WorkerState /\ s.pc = pc /\ s.count = wk[w].count
        BY WorkerTyped DEF WorkerState
      <3>3. wk[w].count \in Counts
        BY <2>2 DEF IInv, Requests, ensure_initialized
      <3> QED
        BY <2>2, <3>1, <3>2, <3>3, OwnMoveIInv DEF ensure_initialized
    <2>3. CASE CreateCounter(w)
      BY <2>3, CreateIInv
    <2>4. CASE ReadCounter(w)
      BY <2>4, ReadIInv
    <2>5. CASE CasWins(w)
      BY <2>5, CasIInv DEF CasWins
    <2>6. CASE CasLoses(w)
      <3>1. CASE Return(w)
        BY <2>0, <2>6, <3>1 DEF CasLoses
      <3>2. CASE /\ ~(wk[w].attempts + 1 >= MaxAttempts)
                 /\ wk' = [wk EXCEPT ![w] = [wk[w] EXCEPT !.pc = "init", !.attempts = wk[w].attempts + 1]]
        <4> DEFINE s == [wk[w] EXCEPT !.pc = "init", !.attempts = wk[w].attempts + 1]
        <4>1. wk[w].attempts + 1 \in 0 .. MaxAttempts - 1
          BY <3>2, WorkerTyped, AttemptsAssumption DEF WorkerState
        <4>2. s \in WorkerState /\ s.pc = "init" /\ s.count = wk[w].count
          BY <4>1, WorkerTyped DEF WorkerState
        <4>3. wk[w].count \in Counts
          BY <2>6 DEF IInv, Requests, CasLoses
        <4>4. wk' = [wk EXCEPT ![w] = s] /\ UNCHANGED <<counter, granted>>
          BY <2>6, <3>2 DEF CasLoses
        <4> HIDE DEF s
        <4> QED
          BY <4>2, <4>3, <4>4, OwnMoveIInv
      <3> QED
        BY <2>6, <3>1, <3>2 DEF CasLoses
    <2>7. CASE CasAnswerLost(w)
      BY <2>7, CasIInv DEF CasAnswerLost
    <2>8. CASE Abort(w)
      BY <2>0, <2>8 DEF Abort
    <2> QED
      BY <1>2, <2>1, <2>2, <2>3, <2>4, <2>5, <2>6, <2>7, <2>8 DEF Step
  <1> QED
    BY <1>1, <1>2 DEF Next

(* The inductive invariant of the allocator's CAS protocol holds in every       *)
(* reachable state                                                              *)
THEOREM Invariance == Spec => []IInv
  BY InitIInv, NextIInv, PTL DEF Spec

(* No two workers ever receive the same episode index from allocate or          *)
(* allocate_batch                                                               *)
THEOREM IndicesUnique == Spec => []NoIndexTwice
  <1>1. IInv => NoIndexTwice
    BY DEF IInv
  <1> QED
    BY <1>1, Invariance, PTL

(* Below max_episodes the chunk of an index fits 32 bits *)
LEMMA ChunkBelow ==
  ASSUME NEW i \in Nat, i < max_episodes
  PROVE  i = chunk_index(i) * PerChunk + chunk_offset(i)
  <1>1. PerChunk \in Nat /\ PerChunk > 0 /\ PerChunk < U32 /\ U32 \in Nat
    BY ChunkAssumption
  <1> DEFINE q == i \div PerChunk
             r == i % PerChunk
  <1>2. q \in Nat /\ r \in Nat /\ r < PerChunk /\ i = PerChunk * q + r
    BY <1>1
  <1>3. i < (U32 - 1) * PerChunk
    BY DEF max_episodes
  <1>4. q < U32 - 1
    <2> HIDE DEF q, r
    <2>1. SUFFICES ASSUME q >= U32 - 1 PROVE FALSE
      BY <1>1, <1>2
    <2>2. PerChunk * q >= PerChunk * (U32 - 1)
      BY <1>1, <1>2, <2>1
    <2>3. PerChunk * q \in Nat /\ PerChunk * (U32 - 1) \in Int /\ PerChunk * (U32 - 1) = (U32 - 1) * PerChunk
      BY <1>1, <1>2
    <2> QED
      BY <1>2, <1>3, <2>2, <2>3
  <1>5. q % U32 = q /\ r % U32 = r
    <2> HIDE DEF q, r
    <2> QED
      BY <1>1, <1>2, <1>4
  <1>6. PerChunk * q = q * PerChunk
    <2> HIDE DEF q, r
    <2> QED
      BY <1>1, <1>2
  <1>7. chunk_index(i) = q /\ chunk_offset(i) = r
    BY <1>5 DEF chunk_index, chunk_offset
  <1> QED
    BY <1>2, <1>6, <1>7

(* EpisodeAllocation::new never loses a part of the chunk index: the allocator  *)
(* stops before that                                                            *)
THEOREM ChunksNeverTruncated == Spec => []ChunksFit
  <1>1. IInv => ChunksFit
    <2> SUFFICES ASSUME IInv, NEW w \in Workers, NEW i \in granted[w]
                 PROVE  i = chunk_index(i) * PerChunk + chunk_offset(i)
      BY DEF ChunksFit
    <2>1. i \in Nat /\ i < max_episodes
      BY DEF IInv, TypeOK, GrantedBelow
    <2> QED
      BY <2>1, ChunkBelow
  <1> QED
    BY <1>1, Invariance, PTL

(* A step of the allocator is a step of the dispenser or changes nothing of it  *)
LEMMA StepRefines == IInv /\ [Next]_vars => [Dispenser!Next]_granted
  <1> SUFFICES ASSUME IInv, Next, granted' # granted PROVE Dispenser!Next
    BY DEF vars
  <1>1. PICK w \in Workers : CasWins(w)
    BY DEF Next, Step, allocate_batch, ensure_initialized, CreateCounter, ReadCounter,
           CasLoses, CasAnswerLost, Abort
  <1> DEFINE n == counter.next
             c == wk[w].count
             last == n + c - 1
  <1>2. n \in Nat /\ c \in Nat \ {0} /\ n + c <= max_episodes /\ wk[w].seen = counter
    BY <1>1, CasTakesNew DEF CasWins
  <1>3. Taken(w) = n .. last
    BY <1>2 DEF Taken
  <1>4. granted' = [granted EXCEPT ![w] = @ \cup (n .. last)]
    BY <1>1, <1>3 DEF CasWins
  <1>5. \A v \in Workers : \A i \in granted[v] : i \in Nat /\ i < n
    BY DEF IInv, TypeOK, GrantedBelow
  <1> HIDE DEF n, c
  <1>6. /\ n <= last /\ last < max_episodes
        /\ n \in 0 .. (max_episodes - 1) /\ last \in 0 .. (max_episodes - 1)
    BY <1>2, LimitNat
  <1>7. \A v \in Workers : (n .. last) \cap granted[v] = {}
    BY <1>2, <1>5
  <1> HIDE DEF last
  <1>8. Dispenser!Issue(w, n, last)
    BY <1>4, <1>6, <1>7 DEF Dispenser!Issue
  <1> QED
    BY <1>6, <1>8 DEF Dispenser!Next

(* The CAS protocol of TiKVEpisodeAllocator implements the dispenser that the   *)
(* trait EpisodeAllocator describes                                             *)
THEOREM Refinement == Spec => ImplementsDispenser
  <1>1. Init => Dispenser!Init
    BY DEF Init, Dispenser!Init
  <1> QED
    BY <1>1, StepRefines, Invariance, PTL DEF Spec, ImplementsDispenser, Dispenser!Spec
=============================================================================
