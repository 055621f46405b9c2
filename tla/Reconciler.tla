----------------------------- MODULE Reconciler -----------------------------
(***************************************************************************)
(* One sweep of the reconciler over one namespace (src/memcove/            *)
(* reconciler.py): the snapshot that reconcile takes, the plan, and        *)
(* apply_plan.  The chart runs it as a CronJob with concurrencyPolicy      *)
(* Forbid, so sweeps do not overlap.  Each call to the catalog or the      *)
(* registry is a step.  The loops of apply_plan visit labels in sorted     *)
(* order; the model leaves the order within a loop open.                   *)
(***************************************************************************)
EXTENDS Registry, Catalog, ReconcilePlan

VARIABLE
  \* Program counter and locals of the sweep under way.
  sweep

IdleSweep == [pc |-> "idle", live |-> {}, reg |-> {}, plan |-> NoPlan, label |-> "none"]

ReconcilerInit == sweep = IdleSweep

\* catalog.list_labels.
SweepListed(live) ==
    /\ sweep.pc = "idle"
    /\ sweep' = [sweep EXCEPT !.pc = "labels", !.live = live]
    /\ UNCHANGED <<registryVars, tables>>

SweepList == SweepListed(Present)

\* list_labels turns an exception into an empty list, and a catalog answering
\* in pages may come short.
SweepListShort == \E live \in SUBSET Present : live # Present /\ SweepListed(live)

\* registry.labels_for_tenant.
SweepLabels ==
    /\ sweep.pc = "labels"
    /\ sweep' = [sweep EXCEPT !.pc = "plan", !.reg = Registered]
    /\ UNCHANGED <<registryVars, tables>>

\* registry.tombstones_for_tenant, and the plan made of the three answers.
SweepPlan ==
    /\ sweep.pc = "plan"
    /\ sweep' = [sweep EXCEPT !.pc = "apply",
                              !.plan = PlanNamespace(sweep.live, sweep.reg, tombstones)]
    /\ UNCHANGED <<registryVars, tables>>

SweepBackfill(l) ==
    /\ sweep.pc = "apply"
    /\ l \in sweep.plan.backfill
    /\ RecordObject(l, ReconciledRow, {})
    /\ sweep' = [sweep EXCEPT !.plan.backfill = @ \ {l}]
    /\ UNCHANGED tables

SweepClear(l) ==
    /\ sweep.pc = "apply"
    /\ sweep.plan.backfill = {}
    /\ l \in sweep.plan.clear
    /\ ClearTombstone(l)
    /\ sweep' = [sweep EXCEPT !.plan.clear = @ \ {l}]
    /\ UNCHANGED tables

SweepBump(l) ==
    /\ sweep.pc = "apply"
    /\ sweep.plan.backfill \cup sweep.plan.clear = {}
    /\ l \in sweep.plan.bump
    /\ BumpTombstone(l)
    /\ sweep' = [sweep EXCEPT !.plan.bump = @ \ {l}]
    /\ UNCHANGED tables

\* Mutant: the plan's snapshot is trusted, nothing is looked up again.
SweepNoRecheck(l) ==
    /\ sweep.pc = "apply"
    /\ sweep.plan.backfill \cup sweep.plan.clear \cup sweep.plan.bump = {}
    /\ l \in sweep.plan.delete
    /\ sweep' = [sweep EXCEPT !.pc = "delete", !.plan.delete = @ \ {l}, !.label = l]
    /\ UNCHANGED <<registryVars, tables>>

\* The live re-check before a delete: a table that came back keeps its row.
SweepRecheck(l) ==
    /\ sweep.pc = "apply"
    /\ sweep.plan.backfill \cup sweep.plan.clear \cup sweep.plan.bump = {}
    /\ l \in sweep.plan.delete
    /\ sweep' = [sweep EXCEPT !.pc = IF l \in Present THEN "untomb" ELSE "delete",
                              !.plan.delete = @ \ {l}, !.label = l]
    /\ UNCHANGED <<registryVars, tables>>

SweepDelete ==
    /\ sweep.pc = "delete"
    /\ DeleteObject(sweep.label)
    /\ sweep' = [sweep EXCEPT !.pc = "untomb"]
    /\ UNCHANGED tables

SweepUntomb ==
    /\ sweep.pc = "untomb"
    /\ ClearTombstone(sweep.label)
    /\ sweep' = [sweep EXCEPT !.pc = "apply", !.label = "none"]
    /\ UNCHANGED tables

\* Mutant: the sweep returns before its delete loop.
WorkBeforeDeletes(plan) == plan.backfill \cup plan.clear \cup plan.bump

WorkLeft(plan) == plan.backfill \cup plan.clear \cup plan.bump \cup plan.delete

SweepEnd ==
    /\ sweep.pc = "apply"
    /\ WorkLeft(sweep.plan) = {}
    /\ sweep' = IdleSweep
    /\ UNCHANGED <<registryVars, tables>>

\* A registry or catalog call raises, which ends this namespace's sweep, or
\* the job's pod dies.
SweepStop ==
    /\ sweep.pc # "idle"
    /\ sweep' = IdleSweep
    /\ UNCHANGED <<registryVars, tables>>

SweepStep ==
    \/ SweepList \/ SweepLabels \/ SweepPlan
    \/ \E l \in Label : SweepBackfill(l) \/ SweepClear(l) \/ SweepBump(l) \/ SweepRecheck(l)
    \/ SweepDelete \/ SweepUntomb \/ SweepEnd

SweepFault == SweepListShort \/ SweepStop

Sweep == [pc : {"idle", "labels", "plan", "apply", "delete", "untomb"},
          live : SUBSET Label, reg : SUBSET Label, plan : Plan,
          label : Label \cup {"none"}]

SweepTypeOK == sweep \in Sweep
=============================================================================
