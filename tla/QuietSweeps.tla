---------------------------- MODULE QuietSweeps ----------------------------
(***************************************************************************)
(* What the reconciler promises of a namespace nobody writes to while it   *)
(* sweeps: each sweep is one step, which carries out the whole plan.  The  *)
(* namespace starts in whatever state writers, crashes and earlier sweeps  *)
(* left it.                                                                *)
(***************************************************************************)
EXTENDS ReconcilePlan

VARIABLES
    live,     \* labels with a table
    reg,      \* labels with a registry row
    tombs,    \* grace counters
    sweeps    \* sweeps so far, counted no further than Patience

quietVars == <<live, reg, tombs, sweeps>>

\* Every row without a table is seen MinAbsentSweeps times and deleted; a
\* counter its label left behind goes in the sweep after.
Patience == MinAbsentSweeps + 1

\* A grace counter never reaches MinAbsentSweeps: the sweep that would take
\* it there deletes the row and drops the counter instead.
QuietTypeOK ==
    /\ live \in SUBSET Label
    /\ reg \in SUBSET Label
    /\ tombs \in [Label -> 0 .. MinAbsentSweeps - 1]
    /\ sweeps \in 0 .. Patience

QuietInit == QuietTypeOK /\ sweeps = 0

\* apply_plan: every table that was absent stays absent, so the re-check
\* lets every delete go ahead.
ApplyPlan(plan) ==
    /\ reg' = (reg \cup plan.backfill) \ plan.delete
    /\ tombs' = [l \in Label |-> IF l \in plan.clear \cup plan.delete THEN 0
                                 ELSE IF l \in plan.bump THEN tombs[l] + 1
                                 ELSE tombs[l]]

QuietSweep ==
    /\ ApplyPlan(PlanNamespace(live, reg, tombs))
    /\ sweeps' = IF sweeps < Patience THEN sweeps + 1 ELSE sweeps
    /\ UNCHANGED live

QuietSpec == QuietInit /\ [][QuietSweep]_quietVars
-----------------------------------------------------------------------------
InStep == reg = live /\ \A l \in Label : tombs[l] = 0

\* Patience sweeps are enough to bring the stores in step, from any state,
\* unless the fail-safe or the cap stands in the way; tables always have
\* their rows after one.
HealsInTime ==
    /\ sweeps >= 1 => live \subseteq reg
    /\ sweeps = Patience => InStep \/ ListingSuspect(live, reg) \/ OverCap(live, reg)

\* A sweep deletes no row that has a table, nothing at all from an empty
\* listing, and no more than the cap allows.
QuietSweepIsTimid ==
    [][LET lost == reg \ reg'
       IN  lost # {} => /\ lost \cap live = {}
                        /\ live # {}
                        /\ \/ Cardinality(lost) <= CapMin
                           \/ Cardinality(lost) * CapDen <= CapNum * Cardinality(reg)]_quietVars
=============================================================================
