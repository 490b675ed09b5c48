------------------------ MODULE MCWorkUnitsProgress ------------------------
(* The instance of WorkUnits for what must eventually happen: either the       *)
(* processor may fail, or a worker may die, so that each cause of a retry is    *)
(* seen on its own.                                                             *)
EXTENDS WorkUnits

CONSTANTS w1, w2, r1

VARIABLE trouble        \* "failures" of the processor, or "deaths" of workers

MCInit == Init /\ trouble \in {"failures", "deaths"}

MCNext ==
    /\ Next
    /\ trouble = "failures" => \A w \in Workers : wk'[w].pc # "down"
    /\ trouble = "deaths" => \A w \in Workers : wk'[w].pc # "failing"
    /\ UNCHANGED trouble

MCSpec ==
    /\ MCInit
    /\ [][MCNext]_<<vars, trouble>>
    /\ Fairness

(* RetryQueued of WorkUnits, as long as no unit is reclaimed: fail_work_unit    *)
(* puts the pending key back, reclaim_work_unit does not                        *)
FailedIsQueued == trouble = "failures" => RetryQueued

(* DoneOrBlocked of WorkUnits, for workers that do not die                      *)
FinishedOrBlocked == trouble = "failures" => DoneOrBlocked
=============================================================================
