------------------------------- MODULE Drift -------------------------------
(***************************************************************************)
(* memcove's two stores and everyone who writes them: tool calls on the    *)
(* MCP replicas, uploads on the Flight server, and the reconciler's        *)
(* sweeps.  A dataset is a table in the Iceberg catalog and a row in the   *)
(* registry; no transaction spans the two, so they drift apart when a call *)
(* dies between its steps or when calls interleave, and the sweep and the  *)
(* read-repair bring them together again.                                  *)
(***************************************************************************)
EXTENDS Writers, Reconciler

CONSTANTS
    MaxWriterFaults,   \* bound: calls that die or find the registry down
    MaxSweepFaults     \* bound: short listings and sweeps cut off

ASSUME FaultsAssumption == MaxWriterFaults \in Nat /\ MaxSweepFaults \in Nat

VARIABLES
  \* Faults so far, of writers and of sweeps.
  faults,
  \* History.  gone: labels without a table at some moment since the sweep's
  \* listing.  deleted: labels whose row this sweep deleted.  sightings: sweeps
  \* that found a row without its table and counted it (no further than
  \* MinAbsentSweeps) since the label's grace last started over.
  \* wrote: calls whose data reached the catalog.
  gone, deleted, sightings, wrote

storeVars == <<registryVars, tables>>
historyVars == <<gone, deleted, sightings, wrote>>
vars == <<storeVars, writerVars, sweep, faults, historyVars>>

Init ==
    /\ RegistryInit
    /\ tables = [l \in Label |-> NoTable]
    /\ WritersInit
    /\ ReconcilerInit
    /\ faults = [writer |-> 0, sweep |-> 0]
    /\ gone = {} /\ deleted = {} /\ wrote = {}
    /\ sightings = [l \in Label |-> 0]

\* The labels the plan made in this step counts as absent.
Sighted ==
    IF sweep.pc = "plan" /\ sweep'.pc = "apply"
    THEN sweep'.plan.bump \cup sweep'.plan.delete ELSE {}

\* Found in both stores; in neither, unless the listing reads as an outage.
InStep(live, reg) ==
    (live \cap reg) \cup IF ListingSuspect(live, reg) THEN {} ELSE Label \ (live \cup reg)

\* The labels whose grace starts over in this step: found in step by the plan
\* (with a counter, when the clear loop comes to it), or past the delete loop.
Dropped ==
    CASE sweep.pc = "plan" /\ sweep'.pc = "apply" ->
             InStep(sweep.live, sweep.reg) \ sweep'.plan.clear
      [] sweep.pc = "apply" /\ sweep'.pc = "apply" -> sweep.plan.clear \ sweep'.plan.clear
      [] sweep.pc = "untomb" /\ sweep'.pc = "apply" -> {sweep.label}
      [] OTHER -> {}

\* The label whose row the sweep deletes in this step.
SweptAway == IF sweep.pc = "delete" /\ sweep'.pc = "untomb" THEN {sweep.label} ELSE {}

History ==
    /\ gone' = IF sweep'.pc = "idle" THEN {} ELSE gone \cup (Label \ Present')
    /\ deleted' = IF sweep'.pc = "idle" THEN {} ELSE deleted \cup SweptAway
    /\ sightings' = [l \in Label |->
                       IF l \in Dropped THEN 0
                       ELSE IF l \in Sighted /\ sightings[l] < MinAbsentSweeps
                       THEN sightings[l] + 1 ELSE sightings[l]]
    /\ wrote' = wrote \cup {tables'[l].by : l \in {k \in Present' : tables'[k].filled}}

BeginSomeCall(p) == BeginStep(p) /\ UNCHANGED <<sweep, faults>> /\ History

RunCall(p) == CallStep(p) /\ UNCHANGED <<sweep, faults>> /\ History

FailCall(p) ==
    /\ faults.writer < MaxWriterFaults
    /\ faults' = [faults EXCEPT !.writer = @ + 1]
    /\ WriterFault(p) /\ UNCHANGED sweep /\ History

RunSweep == SweepStep /\ UNCHANGED <<writerVars, faults>> /\ History

FailSweep ==
    /\ faults.sweep < MaxSweepFaults
    /\ faults' = [faults EXCEPT !.sweep = @ + 1]
    /\ SweepFault /\ UNCHANGED writerVars /\ History

Next ==
    \/ \E p \in Process : BeginSomeCall(p) \/ RunCall(p) \/ FailCall(p)
    \/ RunSweep
    \/ FailSweep

Spec == Init /\ [][Next]_vars

\* A running process keeps running, and the CronJob keeps sweeping.  Nobody
\* has to call a tool, and nothing has to fail.
Fairness == WF_vars(RunSweep) /\ \A p \in Process : WF_vars(RunCall(p))

FairSpec == Spec /\ Fairness
-----------------------------------------------------------------------------
\* Rows, tags, edges and counters, table versions, the locals of every call
\* and of the sweep stay in the shapes registry.py, Iceberg and the tools
\* give them; the sources rows name are those of SourceKind.
TypeOK ==
    /\ RegistryTypeOK
    /\ WriterTypeOK
    /\ SweepTypeOK
    /\ faults \in [writer : 0 .. MaxWriterFaults, sweep : 0 .. MaxSweepFaults]
    /\ gone \in SUBSET Label /\ deleted \in SUBSET Label /\ wrote \in SUBSET Call
    /\ sightings \in [Label -> 0 .. MinAbsentSweeps]

\* Tags and lineage edges never outlive the row they describe, and the edges
\* of a derived row are labels its own producing SQL names: whatever order
\* writers, repairs and deletes reach the registry in, no derived row is left
\* with the lineage of another call (record_object_guarded, delete_object).
MetadataWhole ==
    \A l \in Label :
        /\ l \notin Registered => tags[l] = {} /\ lineage[l] = {}
        /\ objects[l].source = "derived" => lineage[l] \subseteq objects[l].sql \ {l}

\* A row names a call only after that call's data reached the catalog: a
\* crash can leave data without a row, never a row for data that was not
\* written ("Record object metadata AFTER the data write").
RowsFollowData == \A l \in Registered : objects[l].by \in wrote \cup {0}

\* A sweep deletes a row only if its table was missing at some moment of that
\* very sweep, however short or failed the listings were (the live re-check).
SweptRowsWereGone == deleted \subseteq gone

\* A sweep deletes nothing after an empty listing, and never more than the
\* cap allows of the rows it started from, whatever writers did meanwhile.
SweepsAreTimid ==
    deleted # {} => /\ sweep.live # {}
                    /\ \/ Cardinality(deleted) <= CapMin
                       \/ Cardinality(deleted) * CapDen <= CapNum * Cardinality(sweep.reg)

\* A row a sweep deletes was found without its table by MinAbsentSweeps
\* planning sweeps since a sweep last found the label in both stores or in
\* neither and got to clear it, or went through it in its delete loop; failed,
\* skipped and capped sweeps are not counted.
GraceGranted == [][\A l \in SweptAway : sightings[l] = MinAbsentSweeps]_vars
-----------------------------------------------------------------------------
\* What a sweep cannot repair: it takes an empty listing over registered rows
\* for an outage, and refuses to delete more than the cap allows.
BeyondSweep == ListingSuspect(Present, Registered) \/ OverCap(Present, Registered)

Reconciled == Present = Registered /\ \A l \in Label : tombstones[l] = 0

\* "The registry now self-heals when it drifts": once calls and faults stop,
\* the sweeps bring every table a row, take every row without a table away
\* and leave no grace counter behind, unless the fail-safe or the cap forbids.
DriftHeals == <>[](Reconciled \/ BeyondSweep)
-----------------------------------------------------------------------------
(***************************************************************************)
(* What documentation and comments say of the program and interleavings or *)
(* crashes refute; the README tells how.                                   *)
(***************************************************************************)

\* Read-repair and sweep backfill a row for a table "that has none".
BackfillOnlyMissing ==
    [][\A l \in Label : objects'[l] = ReconciledRow => objects[l] \in {NoRow, ReconciledRow}]_vars
=============================================================================
