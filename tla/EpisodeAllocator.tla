-------------------------- MODULE EpisodeAllocator --------------------------
(***************************************************************************)
(* TiKVEpisodeAllocator of episode/allocator.rs: the workers of a batch    *)
(* take episode indices from a counter in TiKV with a compare-and-swap on  *)
(* its version (TikvClient::cas).                                          *)
(*                                                                         *)
(* A TiKV call is one step.  The CAS is a pessimistic transaction: it      *)
(* compares and writes in one step.                                        *)
(***************************************************************************)
EXTENDS Integers, FiniteSets

CONSTANTS
    Workers,
    Counts,         \* the sizes of the requests: 1 for allocate
    PerChunk,       \* episodes_per_chunk
    U32,            \* 2^32
    MaxAttempts,    \* max_attempts
    NoCounter       \* the counter key does not exist

ASSUME CountsAssumption == Counts \subseteq Nat \ {0}
ASSUME ChunkAssumption == U32 \in Nat /\ PerChunk \in 1 .. (U32 - 1)
ASSUME AttemptsAssumption == MaxAttempts \in Nat \ {0}

VARIABLES
    counter,    \* TiKV: the counter, or NoCounter
    wk,         \* the state of each worker's request
    granted     \* the indices returned to each worker

vars == <<counter, wk, granted>>
-----------------------------------------------------------------------------
Counter == [next : Nat, version : Nat]

ASSUME NoCounterAssumption == NoCounter \notin Counter

NewCounter == [next |-> 0, version |-> 0]

\* The default of TiKVEpisodeAllocator::new
max_episodes == (U32 - 1) * PerChunk

\* EpisodeAllocation::new, with its conversions to u32
chunk_index(i) == (i \div PerChunk) % U32
chunk_offset(i) == (i % PerChunk) % U32

\* Mutant: the version is not compared
cas_Unchecked(expected) == TRUE

\* TikvClient::cas: whether it writes
cas(expected) ==
    IF counter = NoCounter THEN expected = 0 ELSE counter.version = expected

WorkerState == [pc : {"idle", "init", "create", "read", "cas"},
                count : Counts \cup {0}, seen : Counter, attempts : 0 .. MaxAttempts - 1]

Idle == [pc |-> "idle", count |-> 0, seen |-> NewCounter, attempts |-> 0]

Init ==
    /\ counter = NoCounter
    /\ wk = [w \in Workers |-> Idle]
    /\ granted = [w \in Workers |-> {}]

At(w, pc) == wk[w].pc = pc

Goto(w, pc) == wk' = [wk EXCEPT ![w] = [@ EXCEPT !.pc = pc]]
Return(w) == wk' = [wk EXCEPT ![w] = Idle]
-----------------------------------------------------------------------------
\* allocate, allocate_batch
allocate_batch(w) ==
    /\ At(w, "idle")
    /\ \E n \in Counts : wk' = [wk EXCEPT ![w] = [Idle EXCEPT !.pc = "init", !.count = n]]
    /\ UNCHANGED <<counter, granted>>

ensure_initialized(w) ==
    /\ At(w, "init")
    /\ Goto(w, IF counter = NoCounter THEN "create" ELSE "read")
    /\ UNCHANGED <<counter, granted>>

\* Mutant: a plain put in place of the CAS
CreateCounter_Put(w) ==
    /\ At(w, "create")
    /\ counter' = NewCounter
    /\ Goto(w, "read")
    /\ UNCHANGED granted

\* The CAS of ensure_initialized; its result, and its error, are ignored
CreateCounter(w) ==
    /\ At(w, "create")
    /\ \/ counter' = IF cas(0) THEN NewCounter ELSE counter
       \/ UNCHANGED counter
    /\ Goto(w, "read")
    /\ UNCHANGED granted

\* Mutant: the limit is not checked
ReadCounter_Unlimited(w) ==
    /\ At(w, "read")
    /\ IF counter = NoCounter THEN Return(w)
       ELSE wk' = [wk EXCEPT ![w] = [@ EXCEPT !.pc = "cas", !.seen = counter]]
    /\ UNCHANGED <<counter, granted>>

\* cas_allocate up to the CAS: NotInitialized and Overflow end the request
ReadCounter(w) ==
    /\ At(w, "read")
    /\ IF counter = NoCounter \/ counter.next + wk[w].count > max_episodes
       THEN Return(w)
       ELSE wk' = [wk EXCEPT ![w] = [@ EXCEPT !.pc = "cas", !.seen = counter]]
    /\ UNCHANGED <<counter, granted>>

Taken(w) == wk[w].seen.next .. (wk[w].seen.next + wk[w].count - 1)

\* Mutant: the version is not advanced
Advance_SameVersion(w) ==
    counter' = [next |-> wk[w].seen.next + wk[w].count, version |-> wk[w].seen.version]

Advance(w) ==
    counter' = [next |-> wk[w].seen.next + wk[w].count,
                version |-> wk[w].seen.version + 1]

\* The CAS of cas_allocate succeeds
CasWins(w) ==
    /\ At(w, "cas")
    /\ cas(wk[w].seen.version)
    /\ Advance(w)
    /\ granted' = [granted EXCEPT ![w] = @ \cup Taken(w)]
    /\ Return(w)

\* Mutant: the request is retried once too often
CasLoses_NotBounded(w) ==
    /\ At(w, "cas")
    /\ ~cas(wk[w].seen.version)
    /\ wk' = [wk EXCEPT ![w] = [@ EXCEPT !.pc = "init", !.attempts = wk[w].attempts + 1]]
    /\ UNCHANGED <<counter, granted>>

\* It fails: the request starts again, up to max_attempts times
CasLoses(w) ==
    /\ At(w, "cas")
    /\ ~cas(wk[w].seen.version)
    /\ IF wk[w].attempts + 1 >= MaxAttempts THEN Return(w)
       ELSE wk' = [wk EXCEPT ![w] = [@ EXCEPT !.pc = "init", !.attempts = wk[w].attempts + 1]]
    /\ UNCHANGED <<counter, granted>>

\* The commit was applied and its answer is lost: the error ends the request
CasAnswerLost(w) ==
    /\ At(w, "cas")
    /\ cas(wk[w].seen.version)
    /\ Advance(w)
    /\ Return(w)
    /\ UNCHANGED granted

\* A TiKV call fails, or the worker dies and starts again
Abort(w) ==
    /\ ~At(w, "idle")
    /\ Return(w)
    /\ UNCHANGED <<counter, granted>>

Step(w) ==
    \/ allocate_batch(w) \/ ensure_initialized(w) \/ CreateCounter(w)
    \/ ReadCounter(w) \/ CasWins(w) \/ CasLoses(w)

Next == \E w \in Workers : Step(w) \/ CasAnswerLost(w) \/ Abort(w)

Spec == Init /\ [][Next]_vars
-----------------------------------------------------------------------------
(* Every variable has its type *)
TypeOK ==
    /\ counter \in Counter \cup {NoCounter}
    /\ wk \in [Workers -> WorkerState]
    /\ granted \in [Workers -> SUBSET Nat]

(* No two workers hold the same episode index, however their reads, their       *)
(* attempts to create the counter and their CASs interleave, and whatever calls *)
(* fail: the guarantee the trait EpisodeAllocator asks of its implementations   *)
NoIndexTwice ==
    \A v, w \in Workers : v # w => granted[v] \cap granted[w] = {}

(* The conversions of EpisodeAllocation::new to u32 never cut a chunk index off: *)
(* the chunk and the offset of every index handed out determine it              *)
ChunksFit ==
    \A w \in Workers : \A i \in granted[w] :
        i = chunk_index(i) * PerChunk + chunk_offset(i)

Dispenser == INSTANCE EpisodeDispenser WITH issued <- granted, Limit <- max_episodes

(* The allocator implements the dispenser: an index is handed out at most once, *)
(* to one worker, in consecutive blocks below max_episodes                      *)
ImplementsDispenser == Dispenser!Spec
-----------------------------------------------------------------------------
(* The inductive invariant *)

\* Where the counter is at version 0, it is the one ensure_initialized writes
FreshAtZero == counter # NoCounter /\ counter.version = 0 => counter = NewCounter

\* A worker with a request asks for one of Counts
Requests == \A w \in Workers : ~At(w, "idle") => wk[w].count \in Counts

\* A counter of the same version as the one a worker has read is the one it read
SeenIsOld ==
    \A w \in Workers : At(w, "cas") =>
        /\ counter # NoCounter
        /\ wk[w].seen.version <= counter.version
        /\ wk[w].seen.version = counter.version => wk[w].seen = counter
        /\ wk[w].seen.next + wk[w].count <= max_episodes

\* Every index handed out lies below the counter, and below max_episodes
GrantedBelow ==
    \A w \in Workers : \A i \in granted[w] :
        counter # NoCounter /\ i < counter.next /\ i < max_episodes

IInv == TypeOK /\ Requests /\ FreshAtZero /\ SeenIsOld /\ GrantedBelow /\ NoIndexTwice
=============================================================================
