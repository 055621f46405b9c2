---------------------------- MODULE MCDriftGrace ----------------------------
(***************************************************************************)
(* Drift with one more history variable, which tells consecutive sweeps    *)
(* from sweeps.                                                            *)
(***************************************************************************)
EXTENDS MCDrift

VARIABLE
  \* Planning sweeps in a row that found the label's row without its table.
  \* Sweeps that trust no listing (skipped, capped, cut off before the plan)
  \* neither count nor break the row.
  streak

Planned == sweep.pc = "plan" /\ sweep'.pc = "apply"

Trusted(plan) == ~plan.skipped /\ ~plan.capped

StreakStep ==
    streak' = [l \in Label |->
        IF ~Planned THEN streak[l]
        ELSE IF l \in sweep.live \/ l \notin sweep.reg THEN 0
        ELSE IF Trusted(sweep'.plan) /\ streak[l] < MinAbsentSweeps
        THEN streak[l] + 1 ELSE streak[l]]

GraceSpec ==
    /\ Init /\ streak = [l \in Label |-> 0]
    /\ [][Next /\ StreakStep]_<<vars, streak>>
    /\ Fairness

\* "Each must be absent for reconcile_min_absent_sweeps consecutive sweeps":
\* the sweeps that count toward a deletion follow on one another, with none
\* between them that listed the table.
GraceIsConsecutive ==
    [][\A l \in SweptAway : streak[l] = MinAbsentSweeps]_<<vars, streak>>
=============================================================================
