-------------------------- MODULE EpisodeDispenser --------------------------
(***************************************************************************)
(* What the trait EpisodeAllocator of episode/allocator.rs promises to the *)
(* workers of a batch: "Implementations must guarantee atomic allocation - *)
(* no two workers should ever receive the same episode index."             *)
(***************************************************************************)
EXTENDS Naturals

CONSTANTS
    Workers,
    Limit       \* max_episodes

VARIABLE issued     \* the episode indices each worker has received

Init == issued = [w \in Workers |-> {}]

\* w receives the consecutive indices first .. last, all of them new
Issue(w, first, last) ==
    /\ first <= last
    /\ last < Limit
    /\ \A v \in Workers : (first .. last) \cap issued[v] = {}
    /\ issued' = [issued EXCEPT ![w] = @ \cup (first .. last)]

Next == \E w \in Workers : \E first, last \in 0 .. (Limit - 1) : Issue(w, first, last)

Spec == Init /\ [][Next]_issued
=============================================================================
