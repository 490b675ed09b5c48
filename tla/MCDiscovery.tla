----------------------------- MODULE MCDiscovery -----------------------------
(* Instances of Discovery for TLC: see the cfg files.  All the interleavings of *)
(* two leaders and a controller are beyond TLC, so Discovery.cfg takes them two *)
(* at a time.                                                                   *)
EXTENDS Discovery, TLC

CONSTANTS s1, s2, c1, a, b

\* Two sources that share a file
MCFilesOf == <<{a, b}, {b}>>

VARIABLE deployment     \* which actors are at work

MCInit == Init /\ deployment \in {"controller", "rivals"}

\* "controller": the scanner s1 and the controller, with one fault, and workers
\* that only get to the file a; "rivals": both scanners, with MaxFaults
MCNext ==
    /\ Next
    /\ deployment = "controller" =>
         pc'[s2] = "idle" /\ faults' <= 1 /\ unit'[b] # "Claimed"
    /\ deployment = "rivals" => UNCHANGED ctl
    /\ UNCHANGED deployment

mcvars == <<vars, deployment>>

\* The fairness of FairSpec, for the two actors of "controller"
MCSpec ==
    /\ MCInit
    /\ [][MCNext]_mcvars
    /\ WF_scanner(deployment = "controller" /\ (try_become_leader(s1) \/ scan_cycle(s1)))
    /\ WF_ctl(deployment = "controller" /\ reconcile(c1))

(* Discovery comes to an end, as DiscoverySettles says, when one scanner and    *)
(* the controller work on the batch at once                                     *)
SettlesWithController == deployment = "controller" => DiscoverySettles
=============================================================================
