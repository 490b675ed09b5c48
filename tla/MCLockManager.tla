---------------------------- MODULE MCLockManager ----------------------------
(* Instances of LockManager for TLC: see the cfg files.  A tick is 30 s. *)
EXTENDS LockManager

CONSTANTS p1, p2

\* The clock of p2 is ahead of the clock of p1
MCSkew == [p \in Pods |-> IF p = p2 THEN MaxSkew ELSE 0]

\* p1 has the default interval of 60 s, p2 one of 30 s
MCScanInterval == [p \in Pods |-> IF p = p1 THEN 2 ELSE 1]

\* An interval of 30 s: a lease of 90 s, and a renewal every 120 s
MCShortInterval == [p \in Pods |-> 1]
=============================================================================
