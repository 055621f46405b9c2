----------------------------- MODULE SweepAlone -----------------------------
(***************************************************************************)
(* The reconciler's steps on a namespace nobody else writes to, and the    *)
(* claim that together they carry out whole plans: SweepAlone implements   *)
(* QuietSweeps.                                                            *)
(***************************************************************************)
EXTENDS Reconciler

VARIABLE sweepsPlanned   \* plans made so far, no further than Patience

aloneVars == <<registryVars, tables, sweep, sweepsPlanned>>

\* Mid-sweep, the abstract sweep has already happened: the work the plan
\* still holds is done in advance.
UpForDelete == sweep.plan.delete \cup (IF sweep.pc = "delete" THEN {sweep.label} ELSE {})

UpForClear == sweep.plan.clear \cup sweep.plan.delete
                \cup (IF sweep.pc \in {"delete", "untomb"} THEN {sweep.label} ELSE {})

RegAhead == (Registered \cup sweep.plan.backfill) \ UpForDelete

TombsAhead == [l \in Label |-> IF l \in UpForClear THEN 0
                               ELSE IF l \in sweep.plan.bump THEN tombstones[l] + 1
                               ELSE tombstones[l]]

Quiet == INSTANCE QuietSweeps WITH live <- Present, reg <- RegAhead,
                                   tombs <- TombsAhead, sweeps <- sweepsPlanned

AloneInit ==
    /\ objects \in [Label -> {NoRow, ReconciledRow}]
    /\ tags = [l \in Label |-> {}]
    /\ lineage = [l \in Label |-> {}]
    /\ tombstones \in [Label -> 0 .. MinAbsentSweeps - 1]
    /\ tables \in [Label -> {NoTable, [by |-> 1, n |-> 1, filled |-> TRUE]}]
    /\ ReconcilerInit
    /\ sweepsPlanned = 0

AloneNext ==
    /\ SweepStep
    /\ sweepsPlanned' = IF sweep.pc = "plan" /\ sweepsPlanned < Quiet!Patience
                        THEN sweepsPlanned + 1 ELSE sweepsPlanned

AloneSpec == AloneInit /\ [][AloneNext]_aloneVars
-----------------------------------------------------------------------------
\* apply_plan's loops, taken together, are the sweep that QuietSweeps takes
\* in one step; what holds of quiet sweeps holds of the loops.
ImplementsQuietSweeps == Quiet!QuietSpec

\* A counter never reaches MinAbsentSweeps: the sweep that would take it there
\* deletes the row and drops the counter (tombs[l] + 1 in plan_namespace).
CountersStayShort == Quiet!QuietTypeOK

\* Tables have their rows after one sweep, and from any state MinAbsentSweeps
\* + 1 sweeps bring the stores in step, unless fail-safe or cap forbid it.
HealsInTime == Quiet!HealsInTime

\* A sweep deletes no row that has a table, nothing from an empty listing, and
\* no more than the cap allows of the rows there were.
QuietSweepIsTimid == Quiet!QuietSweepIsTimid
=============================================================================
