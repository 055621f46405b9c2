---------------------------- MODULE SweepProofs ----------------------------
(***************************************************************************)
(* Why a sweep's deletions are safe, for every value of the constants:     *)
(* what a sweep deletes it saw gone, within the cap, and after its grace;  *)
(* and what sweeps achieve in a namespace nobody writes to: their loops    *)
(* implement QuietSweeps, and enough of them heal whatever they found.     *)
(***************************************************************************)
EXTENDS DriftProofs, SweepJob, FiniteSetTheorems

\* The label whose row the delete loop has decided to delete.
Doomed == IF sweep.pc = "delete" THEN {sweep.label} ELSE {}

GoneInv == Doomed \cup deleted \subseteq gone

\* Everything this sweep has deleted or may still delete.
Deletions == deleted \cup sweep.plan.delete \cup Doomed

TimidInv ==
    /\ sweep.pc \in {"idle", "labels", "plan"} => Deletions = {} /\ sweep.plan.bump = {}
    /\ Deletions \subseteq sweep.reg \ sweep.live
    /\ Deletions # {} => ~ListingSuspect(sweep.live, sweep.reg) /\ ~OverCap(sweep.live, sweep.reg)

SweepInv == GoneInv /\ TimidInv
-----------------------------------------------------------------------------
\* A writer's step is none of the sweep's business.
LEMMA WriterLeavesSweep ==
    ASSUME NEW p \in Process, BeginSomeCall(p) \/ RunCall(p) \/ FailCall(p)
    PROVE  sweep' = sweep /\ History
PROOF
  BY DEF BeginSomeCall, RunCall, FailCall

\* What the history variables do while the sweep is where it was.
LEMMA HistoryAside ==
    ASSUME TypeInv, sweep' = sweep, History
    PROVE  /\ sightings' = sightings
           /\ sweep.pc # "idle" => gone \subseteq gone' /\ deleted' = deleted
           /\ sweep.pc = "idle" => gone' = {} /\ deleted' = {}
PROOF
  <1>1. Dropped = {} /\ Sighted = {} /\ SweptAway = {}
    BY DEF Dropped, Sighted, SweptAway
  <1> QED BY <1>1 DEF History, TypeInv, TypeOK

\* What writers do cannot undo that a doomed label was seen gone.
LEMMA WriterKeepsSweepInv ==
    ASSUME TypeInv, SweepInv, sweep' = sweep, History
    PROVE  SweepInv'
PROOF
  <1>1. Doomed' = Doomed
    BY DEF Doomed
  <1>2. CASE sweep.pc = "idle"
    BY <1>1, <1>2, HistoryAside DEF SweepInv, GoneInv, TimidInv, Deletions, Doomed
  <1>3. CASE sweep.pc # "idle"
    BY <1>1, <1>3, HistoryAside DEF SweepInv, GoneInv, TimidInv, Deletions
  <1> QED BY <1>2, <1>3

\* The plan deletes only rows without a table, and nothing when the listing
\* is suspect or the cap is exceeded.
LEMMA PlanDeletes ==
    ASSUME NEW live \in SUBSET Label, NEW reg \in SUBSET Label, NEW tombs \in Tombstones
    PROVE  LET plan == PlanNamespace(live, reg, tombs)
           IN  /\ plan.delete \subseteq reg \ live
               /\ plan.delete # {} => ~ListingSuspect(live, reg) /\ ~OverCap(live, reg)
               /\ \A l \in plan.delete : PastGrace(l, tombs)
               /\ plan.bump \subseteq reg \ live
               /\ \A l \in plan.bump : ~PastGrace(l, tombs)
               /\ plan.bump \cap plan.delete = {}
PROOF
  BY DEF PlanNamespace, NoPlan

\* It clears whatever counter a label in step has, and no other.
LEMMA PlanClears ==
    ASSUME NEW live \in SUBSET Label, NEW reg \in SUBSET Label, NEW tombs \in Tombstones
    PROVE  LET plan == PlanNamespace(live, reg, tombs)
           IN  /\ plan.clear \subseteq InStep(live, reg)
               /\ \A l \in InStep(live, reg) \ plan.clear : tombs[l] = 0
               /\ InStep(live, reg) \cap (plan.bump \cup plan.delete) = {}
PROOF
  BY SMTT(30)
  DEF PlanNamespace, NoPlan, InStep, Reappeared, Orphaned, Tombstoned, Tombstones

\* A sweep dooms a label only when the re-check finds no table, and only
\* labels its plan allows.
LEMMA SweepKeepsSweepInv ==
    ASSUME TypeInv, SweepInv, SweepStep \/ SweepFault, History
    PROVE  SweepInv'
PROOF
  <1> USE DEF SweepInv
  <1>1. sweep \in Sweep /\ tombstones \in Tombstones
    BY DEF TypeInv, TypeOK, SweepTypeOK, RegistryTypeOK, Tombstones
  <1>2. sweep'.pc # "idle" => gone \subseteq gone' /\ deleted' = deleted \cup SweptAway
    BY DEF History
  <1>3. ASSUME NEW live, SweepListed(live) PROVE SweepInv'
    <2>1. sweep.pc = "idle" /\ sweep' = [sweep EXCEPT !.pc = "labels", !.live = live]
      BY <1>3 DEF SweepListed
    <2> QED
      BY <1>1, <1>2, <2>1 DEF Sweep, GoneInv, TimidInv, Deletions, Doomed, SweptAway
  <1>4. CASE SweepLabels
    BY <1>1, <1>2, <1>4 DEF SweepLabels, Sweep, GoneInv, TimidInv, Deletions, Doomed, SweptAway
  <1>5. CASE SweepPlan
    <2> DEFINE plan == PlanNamespace(sweep.live, sweep.reg, tombstones)
    <2>1. sweep.pc = "plan" /\ sweep' = [sweep EXCEPT !.pc = "apply", !.plan = plan]
      BY <1>5 DEF SweepPlan
    <2>2. /\ plan.delete \subseteq sweep.reg \ sweep.live
          /\ plan.delete # {} => ~ListingSuspect(sweep.live, sweep.reg) /\ ~OverCap(sweep.live, sweep.reg)
      <3>1. sweep.live \in SUBSET Label /\ sweep.reg \in SUBSET Label
        BY <1>1 DEF Sweep
      <3> QED BY <1>1, <3>1, PlanDeletes
    <2> HIDE DEF plan
    <2>3. /\ sweep'.pc = "apply" /\ sweep'.plan = plan
          /\ sweep'.live = sweep.live /\ sweep'.reg = sweep.reg
      BY <1>1, <2>1 DEF Sweep
    <2>4. Doomed' = {} /\ SweptAway = {} /\ deleted = {}
      BY <2>1, <2>3 DEF Doomed, SweptAway, TimidInv, Deletions
    <2>5. Deletions' = plan.delete
      BY <1>2, <2>3, <2>4 DEF Deletions
    <2>6. GoneInv'
      BY <1>2, <2>3, <2>4 DEF GoneInv
    <2>7. TimidInv'
      BY <2>2, <2>3, <2>5 DEF TimidInv, ListingSuspect, OverCap
    <2> QED BY <2>6, <2>7
  <1>6. ASSUME NEW l \in Label, SweepBackfill(l) \/ SweepClear(l) \/ SweepBump(l)
        PROVE  SweepInv'
    <2>1. /\ sweep.pc = "apply" /\ sweep'.pc = "apply"
          /\ sweep'.live = sweep.live /\ sweep'.reg = sweep.reg
          /\ sweep'.plan.delete = sweep.plan.delete
      BY <1>1, <1>6 DEF SweepBackfill, SweepClear, SweepBump, Sweep, Plan
    <2>2. SweptAway = {} /\ Doomed = {} /\ Doomed' = {}
      BY <2>1 DEF SweptAway, Doomed
    <2> QED
      BY <1>2, <2>1, <2>2 DEF GoneInv, TimidInv, Deletions, ListingSuspect, OverCap
  <1>7. ASSUME NEW l \in Label, SweepRecheck(l)
        PROVE  SweepInv'
    <2>1. /\ sweep.pc = "apply" /\ l \in sweep.plan.delete
          /\ sweep'.pc = IF l \in Present THEN "untomb" ELSE "delete"
          /\ sweep'.label = l
          /\ sweep'.live = sweep.live /\ sweep'.reg = sweep.reg
          /\ sweep'.plan.delete = sweep.plan.delete \ {l}
          /\ tables' = tables
      BY <1>1, <1>7 DEF SweepRecheck, Sweep, Plan
    <2>2. SweptAway = {} /\ Doomed = {}
      BY <2>1 DEF SweptAway, Doomed
    <2>3. Doomed' \subseteq {l} /\ (Doomed' # {} => l \notin Present)
      BY <2>1 DEF Doomed
    <2>4. Doomed' \subseteq gone'
      BY <2>1, <2>3 DEF History, Present
    <2>5. Deletions' \subseteq Deletions
      BY <1>2, <2>1, <2>2, <2>3 DEF Deletions
    <2> QED
      BY <1>2, <2>1, <2>2, <2>4, <2>5 DEF GoneInv, TimidInv, ListingSuspect, OverCap
  <1>8. CASE SweepDelete \/ SweepUntomb
    <2>1. /\ sweep.pc \in {"delete", "untomb"} /\ sweep'.pc \in {"untomb", "apply"}
          /\ sweep.pc = "delete" => sweep'.pc = "untomb"
          /\ sweep'.live = sweep.live /\ sweep'.reg = sweep.reg
          /\ sweep'.plan = sweep.plan
      BY <1>1, <1>8 DEF SweepDelete, SweepUntomb, Sweep
    <2>2. SweptAway \subseteq Doomed /\ Doomed' = {}
      BY <2>1 DEF SweptAway, Doomed
    <2>3. Deletions' \subseteq Deletions
      BY <1>2, <2>1, <2>2 DEF Deletions
    <2> QED
      BY <1>2, <2>1, <2>2, <2>3 DEF GoneInv, TimidInv, ListingSuspect, OverCap
  <1>9. CASE SweepEnd \/ SweepStop
    <2>1. sweep' = IdleSweep
      BY <1>9 DEF SweepEnd, SweepStop
    <2>2. sweep'.pc = "idle" /\ sweep'.plan = NoPlan
      BY <2>1 DEF IdleSweep
    <2>3. gone' = {} /\ deleted' = {}
      BY <2>2 DEF History
    <2> QED BY <2>2, <2>3 DEF GoneInv, TimidInv, Deletions, Doomed, NoPlan
  <1> QED
    BY <1>3, <1>4, <1>5, <1>6, <1>7, <1>8, <1>9
    DEF SweepStep, SweepFault, SweepList, SweepListShort

\* No sweep has deleted anything at first.
LEMMA InitSweepInv == Init => SweepInv
PROOF
  BY DEF Init, ReconcilerInit, IdleSweep, NoPlan, SweepInv, GoneInv, TimidInv, Deletions, Doomed

\* Every step keeps the sweep invariant.
LEMMA NextSweepInv == TypeInv /\ SweepInv /\ [Next]_vars => SweepInv'
PROOF
  <1> SUFFICES ASSUME TypeInv, SweepInv, [Next]_vars PROVE SweepInv'
    OBVIOUS
  <1>1. ASSUME NEW p \in Process, BeginSomeCall(p) \/ RunCall(p) \/ FailCall(p)
        PROVE  SweepInv'
    BY <1>1, WriterLeavesSweep, WriterKeepsSweepInv
  <1>2. CASE RunSweep \/ FailSweep
    BY <1>2, SweepKeepsSweepInv DEF RunSweep, FailSweep
  <1>3. CASE UNCHANGED vars
    BY <1>3 DEF vars, historyVars, SweepInv, GoneInv, TimidInv, Deletions, Doomed
  <1> QED BY <1>1, <1>2, <1>3 DEF Next
-----------------------------------------------------------------------------
\* What the cap grants a plan it grants every part of the plan.
LEMMA CapBoundsSubsets ==
    ASSUME NEW live \in SUBSET Label, NEW reg \in SUBSET Label, NEW D \in SUBSET (reg \ live),
           ~OverCap(live, reg)
    PROVE  \/ Cardinality(D) <= CapMin
           \/ Cardinality(D) * CapDen <= CapNum * Cardinality(reg)
PROOF
  <1> USE CapAssumption DEF CapAssumption
  <1>1. IsFiniteSet(reg) /\ IsFiniteSet(reg \ live)
    BY LabelFinite, FS_Subset DEF LabelFinite
  <1>2. /\ Cardinality(D) \in Nat /\ Cardinality(reg \ live) \in Nat /\ Cardinality(reg) \in Nat
        /\ Cardinality(D) <= Cardinality(reg \ live)
    BY <1>1, FS_Subset, FS_CardinalityType
  <1>3. \A x, y, d \in Nat : x <= y => x * d <= y * d
    OBVIOUS
  <1>4. Cardinality(D) * CapDen <= Cardinality(reg \ live) * CapDen
    BY <1>2, <1>3
  <1>5. CASE Cardinality(reg \ live) <= CapMin
    BY <1>2, <1>5
  <1>6. CASE Cardinality(reg \ live) * CapDen <= CapNum * Cardinality(reg)
    BY <1>2, <1>4, <1>6
  <1> QED BY <1>2, <1>5, <1>6 DEF OverCap

\* A sweep deletes a row only if its table was missing at some moment of that
\* sweep: whatever the listings said and however writers interleaved.
THEOREM SweptRowsGone == Spec => []SweptRowsWereGone
PROOF
  <1>1. SweepInv => SweptRowsWereGone
    BY DEF SweepInv, GoneInv, SweptRowsWereGone
  <1> QED BY <1>1, TypeCorrect, InitSweepInv, NextSweepInv, PTL DEF Spec

\* A sweep deletes nothing after an empty listing and no more than the cap.
THEOREM SweepsTimid == Spec => []SweepsAreTimid
PROOF
  <1>1. TypeInv /\ SweepInv => SweepsAreTimid
    <2> SUFFICES ASSUME TypeInv, SweepInv, deleted # {}
                 PROVE  /\ sweep.live # {}
                        /\ \/ Cardinality(deleted) <= CapMin
                           \/ Cardinality(deleted) * CapDen <= CapNum * Cardinality(sweep.reg)
      BY DEF SweepsAreTimid
    <2>1. sweep.live \in SUBSET Label /\ sweep.reg \in SUBSET Label
      BY DEF TypeInv, TypeOK, SweepTypeOK, Sweep
    <2>2. /\ deleted \in SUBSET (sweep.reg \ sweep.live)
          /\ ~ListingSuspect(sweep.live, sweep.reg) /\ ~OverCap(sweep.live, sweep.reg)
      BY DEF SweepInv, TimidInv, Deletions
    <2>3. sweep.live # {}
      BY <2>2 DEF ListingSuspect
    <2> QED BY <2>1, <2>2, <2>3, CapBoundsSubsets
  <1> QED BY <1>1, TypeCorrect, InitSweepInv, NextSweepInv, PTL DEF Spec
-----------------------------------------------------------------------------
(***************************************************************************)
(* The grace period.  Counters stay below the threshold and below what the *)
(* sweeps have seen; work still to do has been seen once more.             *)
(***************************************************************************)

GraceInv ==
    /\ \A l \in Label : tombstones[l] < MinAbsentSweeps /\ tombstones[l] <= sightings[l]
    /\ \A l \in sweep.plan.bump : /\ tombstones[l] + 1 < MinAbsentSweeps
                                  /\ tombstones[l] + 1 <= sightings[l]
    /\ \A l \in sweep.plan.delete \cup Doomed : sightings[l] = MinAbsentSweeps
    /\ sweep.pc \in {"delete", "untomb"} =>
          sweep.plan.bump = {} /\ sweep.label \notin sweep.plan.delete
    /\ sweep.plan.clear \cap (sweep.plan.bump \cup sweep.plan.delete) = {}

\* No counter and no sighting at first.
LEMMA InitGraceInv == Init => GraceInv
PROOF
  BY GraceAssumption, SMTT(30)
  DEF GraceAssumption, Init, RegistryInit, ReconcilerInit, IdleSweep, NoPlan, GraceInv, Doomed

\* Only sweeps touch the counters.
LEMMA WriterLeavesTombstones ==
    ASSUME NEW p \in Process, BeginStep(p) \/ CallStep(p) \/ WriterFault(p)
    PROVE  tombstones' = tombstones
PROOF
  BY DEF BeginStep, BeginIngest, BeginPut, BeginWrite, BeginDerive, BeginDescribe, BeginForget,
         CallStep, WriteCreate, WriteLoad, WriteCommit, PutFlush, DeriveProbe, DeriveCtas,
         DeriveParent, Record, RecordObjectGuarded, DescribeGet, RepairExists, RepairRecord,
         RecordObject, ForgetUnregister, DeleteObject, WriterFault, RecordPending, Die,
         registryVars

\* A counter never runs ahead of the sightings, step by step of a sweep.
LEMMA SweepKeepsGraceInv ==
    ASSUME TypeInv, SweepInv, GraceInv, SweepStep \/ SweepFault, History
    PROVE  GraceInv'
PROOF
  <1>0. /\ sweep \in Sweep /\ tombstones \in Tombstones
        /\ sightings \in [Label -> 0 .. MinAbsentSweeps]
        /\ MinAbsentSweeps \in Nat \ {0}
    BY GraceAssumption DEF TypeInv, TypeOK, SweepTypeOK, RegistryTypeOK, Tombstones, GraceAssumption
  <1>1. \A l \in Label : sightings'[l] = IF l \in Dropped THEN 0
                          ELSE IF l \in Sighted /\ sightings[l] < MinAbsentSweeps
                          THEN sightings[l] + 1 ELSE sightings[l]
    BY DEF History
  <1>2. ASSUME sweep'.pc = "labels" \/ sweep'.pc = "plan", sweep'.plan = sweep.plan,
               sweep.pc \in {"idle", "labels"}, tombstones' = tombstones
        PROVE  GraceInv'
    <2>1. Dropped = {} /\ Sighted = {} /\ Doomed' = {}
      BY <1>2 DEF Dropped, Sighted, Doomed
    <2>2. \A l \in Label : sightings'[l] = sightings[l]
      BY <1>1, <2>1
    <2>3. sweep.plan.bump \in SUBSET Label /\ sweep.plan.delete \in SUBSET Label
      BY <1>0 DEF Sweep, Plan
    <2> QED BY <1>2, <2>1, <2>2, <2>3 DEF GraceInv
  <1>3. CASE SweepPlan
    <2> DEFINE plan == PlanNamespace(sweep.live, sweep.reg, tombstones)
    <2>1. /\ sweep.pc = "plan" /\ sweep'.pc = "apply" /\ sweep'.plan = plan
          /\ tombstones' = tombstones
      BY <1>0, <1>3 DEF SweepPlan, Sweep, registryVars
    <2>2. sweep.live \in SUBSET Label /\ sweep.reg \in SUBSET Label
      BY <1>0 DEF Sweep
    <2>3. /\ plan.bump \in SUBSET Label /\ plan.delete \in SUBSET Label
          /\ \A l \in plan.delete : PastGrace(l, tombstones)
          /\ \A l \in plan.bump : ~PastGrace(l, tombstones)
      <3>1. /\ plan.bump \subseteq sweep.reg \ sweep.live
            /\ plan.delete \subseteq sweep.reg \ sweep.live
            /\ \A l \in plan.delete : PastGrace(l, tombstones)
            /\ \A l \in plan.bump : ~PastGrace(l, tombstones)
        <4>1. tombstones \in Tombstones
          BY <1>0
        <4>2. plan.bump \subseteq sweep.reg \ sweep.live /\ plan.delete \subseteq sweep.reg \ sweep.live
          BY <2>2, <4>1, PlanDeletes
        <4>3. \A l \in plan.delete : PastGrace(l, tombstones)
          BY <2>2, <4>1, PlanDeletes
        <4>4. \A l \in plan.bump : ~PastGrace(l, tombstones)
          BY <2>2, <4>1, PlanDeletes
        <4> QED BY <4>2, <4>3, <4>4
      <3> HIDE DEF plan
      <3> QED BY <2>2, <3>1
    <2>4. LET kept == InStep(sweep.live, sweep.reg) \ plan.clear
          IN  /\ \A l \in kept : tombstones[l] = 0
              /\ (kept \cup plan.clear) \cap (plan.bump \cup plan.delete) = {}
      <3>1. /\ plan.clear \subseteq InStep(sweep.live, sweep.reg)
            /\ \A l \in InStep(sweep.live, sweep.reg) \ plan.clear : tombstones[l] = 0
            /\ InStep(sweep.live, sweep.reg) \cap (plan.bump \cup plan.delete) = {}
        BY <1>0, <2>2, PlanClears
      <3> HIDE DEF plan
      <3> QED BY <3>1
    <2> HIDE DEF plan
    <2>5. /\ Dropped = InStep(sweep.live, sweep.reg) \ plan.clear
          /\ Sighted = plan.bump \cup plan.delete /\ Doomed' = {}
      BY <2>1 DEF Dropped, Sighted, Doomed
    <2>6. \A l \in Label : /\ tombstones[l] \in Nat /\ sightings[l] \in 0 .. MinAbsentSweeps
                           /\ tombstones[l] < MinAbsentSweeps
                           /\ tombstones[l] <= sightings[l]
      BY <1>0 DEF Tombstones, GraceInv
    <2>7. \A l \in Label : tombstones[l] <= sightings'[l]
      BY <1>0, <1>1, <2>4, <2>5, <2>6
    <2>8. \A l \in plan.bump : tombstones[l] + 1 < MinAbsentSweeps
                              /\ tombstones[l] + 1 <= sightings'[l]
      BY <1>0, <1>1, <2>3, <2>4, <2>5, <2>6 DEF PastGrace
    <2>9. \A l \in plan.delete : sightings'[l] = MinAbsentSweeps
      BY <1>0, <1>1, <2>3, <2>4, <2>5, <2>6 DEF PastGrace
    <2> QED BY <2>1, <2>4, <2>5, <2>6, <2>7, <2>8, <2>9 DEF GraceInv
  <1>4. ASSUME NEW l \in Label, SweepBackfill(l) \/ SweepClear(l) \/ SweepBump(l)
        PROVE  GraceInv'
    <2>1. /\ sweep.pc = "apply" /\ sweep'.pc = "apply"
          /\ sweep'.plan.delete = sweep.plan.delete
          /\ sweep'.plan.bump \subseteq sweep.plan.bump
          /\ sweep'.plan.clear \subseteq sweep.plan.clear
      BY <1>0, <1>4 DEF SweepBackfill, SweepClear, SweepBump, Sweep, Plan
    <2>2. /\ Dropped = sweep.plan.clear \ sweep'.plan.clear /\ Sighted = {}
          /\ Doomed' = {} /\ Doomed = {}
      BY <2>1 DEF Dropped, Sighted, Doomed
    <2>3. \A k \in Label : sightings'[k] = IF k \in Dropped THEN 0 ELSE sightings[k]
      BY <1>1, <2>2
    <2>4. sweep.plan.bump \in SUBSET Label /\ sweep.plan.delete \in SUBSET Label
      BY <1>0 DEF Sweep, Plan
    <2>5. \A k \in Label : tombstones[k] \in Nat /\ sightings[k] \in Nat
      BY <1>0 DEF Tombstones
    <2>6. CASE SweepBackfill(l)
      <3>1. tombstones' = tombstones /\ sweep'.plan.clear = sweep.plan.clear
        BY <1>0, <2>6 DEF SweepBackfill, RecordObject, Sweep, Plan
      <3> QED BY <2>1, <2>2, <2>3, <2>4, <3>1 DEF GraceInv
    <2>7. CASE SweepClear(l)
      <3>1. \A k \in Label : tombstones'[k] = IF k = l THEN 0 ELSE tombstones[k]
        BY <1>0, <2>7 DEF SweepClear, ClearTombstone, Tombstones
      <3>2. /\ Dropped = {l} /\ l \in sweep.plan.clear
            /\ l \notin sweep.plan.bump /\ l \notin sweep.plan.delete
        <4>1. l \in sweep.plan.clear /\ sweep'.plan.clear = sweep.plan.clear \ {l}
          BY <1>0, <2>7 DEF SweepClear, Sweep, Plan
        <4> QED BY <2>2, <4>1 DEF GraceInv
      <3>3. \A k \in Label : tombstones'[k] < MinAbsentSweeps /\ tombstones'[k] <= sightings'[k]
        BY <1>0, <2>3, <2>5, <3>1, <3>2 DEF GraceInv
      <3>4. \A k \in sweep'.plan.bump : tombstones'[k] + 1 < MinAbsentSweeps
                                        /\ tombstones'[k] + 1 <= sightings'[k]
        BY <2>1, <2>3, <2>4, <3>1, <3>2 DEF GraceInv
      <3>5. \A k \in sweep'.plan.delete : sightings'[k] = MinAbsentSweeps
        BY <2>1, <2>3, <2>4, <3>2 DEF GraceInv
      <3> QED BY <2>1, <2>2, <3>3, <3>4, <3>5 DEF GraceInv
    <2>8. CASE SweepBump(l)
      <3>1. \A k \in Label : tombstones'[k] = IF k = l THEN tombstones[k] + 1 ELSE tombstones[k]
        BY <1>0, <2>8 DEF SweepBump, BumpTombstone, Tombstones
      <3>2. /\ l \in sweep.plan.bump /\ sweep'.plan.bump = sweep.plan.bump \ {l}
            /\ Dropped = {}
        <4>1. sweep'.plan.clear = sweep.plan.clear
          BY <1>0, <2>8 DEF SweepBump, Sweep, Plan
        <4> QED BY <1>0, <2>2, <2>8, <4>1 DEF SweepBump, Sweep, Plan
      <3>3. \A k \in Label : tombstones'[k] < MinAbsentSweeps /\ tombstones'[k] <= sightings'[k]
        BY <2>3, <3>1, <3>2 DEF GraceInv
      <3>4. \A k \in sweep'.plan.bump : tombstones'[k] + 1 < MinAbsentSweeps
                                        /\ tombstones'[k] + 1 <= sightings'[k]
        BY <2>3, <2>4, <3>1, <3>2 DEF GraceInv
      <3>5. \A k \in sweep'.plan.delete : sightings'[k] = MinAbsentSweeps
        BY <2>1, <2>3, <2>4, <3>2 DEF GraceInv
      <3> QED BY <2>1, <2>2, <3>3, <3>4, <3>5 DEF GraceInv
    <2> QED BY <1>4, <2>6, <2>7, <2>8
  <1>5. ASSUME NEW l \in Label, SweepRecheck(l)
        PROVE  GraceInv'
    <2>1. /\ sweep.pc = "apply" /\ sweep'.pc \in {"delete", "untomb"} /\ sweep'.label = l
          /\ l \in sweep.plan.delete /\ sweep'.plan.delete = sweep.plan.delete \ {l}
          /\ sweep.plan.bump = {} /\ sweep'.plan.bump = {} /\ sweep'.plan.clear = {}
          /\ tombstones' = tombstones
      BY <1>0, <1>5 DEF SweepRecheck, Sweep, Plan, registryVars
    <2>2. Dropped = {} /\ Sighted = {} /\ Doomed' \subseteq {l}
      BY <2>1 DEF Dropped, Sighted, Doomed
    <2>3. \A k \in Label : sightings'[k] = sightings[k]
      BY <1>1, <2>2
    <2>4. sweep.plan.delete \in SUBSET Label
      BY <1>0 DEF Sweep, Plan
    <2>5. \A k \in Label : /\ tombstones'[k] < MinAbsentSweeps
                           /\ tombstones'[k] <= sightings'[k]
      BY <2>1, <2>3 DEF GraceInv
    <2>6. \A k \in sweep'.plan.delete \cup Doomed' : sightings'[k] = MinAbsentSweeps
      <3>1. sweep'.plan.delete \cup Doomed' \subseteq sweep.plan.delete
        BY <2>1, <2>2
      <3> QED BY <2>3, <2>4, <3>1 DEF GraceInv
    <2>7. sweep'.label \notin sweep'.plan.delete
      BY <2>1
    <2> QED BY <2>1, <2>5, <2>6, <2>7 DEF GraceInv
  <1>6. CASE SweepDelete
    <2>1. /\ sweep.pc = "delete" /\ sweep'.pc = "untomb" /\ sweep'.label = sweep.label
          /\ sweep'.plan = sweep.plan /\ tombstones' = tombstones
      BY <1>0, <1>6 DEF SweepDelete, DeleteObject, Sweep
    <2>2. Dropped = {} /\ Sighted = {} /\ Doomed' = {}
      BY <2>1 DEF Dropped, Sighted, Doomed
    <2>3. \A k \in Label : sightings'[k] = sightings[k]
      BY <1>1, <2>2
    <2>4. sweep.plan.bump \in SUBSET Label /\ sweep.plan.delete \in SUBSET Label
      BY <1>0 DEF Sweep, Plan
    <2> QED BY <2>1, <2>2, <2>3, <2>4 DEF GraceInv
  <1>7. CASE SweepUntomb
    <2>1. /\ sweep.pc = "untomb" /\ sweep'.pc = "apply" /\ sweep'.plan = sweep.plan
          /\ sweep.plan.bump = {} /\ sweep.label \notin sweep.plan.delete
          /\ ClearTombstone(sweep.label)
      BY <1>0, <1>7 DEF SweepUntomb, Sweep, GraceInv
    <2>2. Dropped = {sweep.label} /\ Sighted = {} /\ Doomed' = {}
      BY <2>1 DEF Dropped, Sighted, Doomed
    <2>3. \A k \in Label : sightings'[k] = IF k = sweep.label THEN 0 ELSE sightings[k]
      BY <1>1, <2>2
    <2>4. \A k \in Label : tombstones'[k] = IF k = sweep.label THEN 0 ELSE tombstones[k]
      BY <1>0, <2>1 DEF ClearTombstone, Tombstones
    <2>5. sweep.plan.delete \in SUBSET Label
      BY <1>0 DEF Sweep, Plan
    <2>6. \A k \in Label : tombstones'[k] < MinAbsentSweeps /\ tombstones'[k] <= sightings'[k]
      BY <1>0, <2>3, <2>4 DEF GraceInv
    <2> QED BY <2>1, <2>2, <2>3, <2>5, <2>6 DEF GraceInv
  <1>8. CASE SweepEnd \/ SweepStop
    <2>1. sweep' = IdleSweep /\ tombstones' = tombstones
      BY <1>8 DEF SweepEnd, SweepStop, registryVars
    <2>2. sweep'.pc = "idle" /\ sweep'.plan = NoPlan
      BY <2>1 DEF IdleSweep
    <2>3. Dropped = {} /\ Sighted = {} /\ Doomed' = {}
      BY <2>2 DEF Dropped, Sighted, Doomed
    <2>4. \A k \in Label : sightings'[k] = sightings[k]
      BY <1>1, <2>3
    <2> QED BY <2>1, <2>2, <2>3, <2>4 DEF GraceInv, NoPlan
  <1>9. CASE SweepList \/ SweepListShort \/ SweepLabels
    <2>1. /\ sweep'.pc = "labels" \/ sweep'.pc = "plan"
          /\ sweep'.plan = sweep.plan /\ tombstones' = tombstones
          /\ sweep.pc \in {"idle", "labels"}
      BY <1>0, <1>9 DEF SweepList, SweepListShort, SweepListed, SweepLabels, Sweep, registryVars
    <2> QED BY <1>2, <2>1
  <1> QED
    BY <1>3, <1>4, <1>5, <1>6, <1>7, <1>8, <1>9 DEF SweepStep, SweepFault

\* Every step keeps the grace invariant.
LEMMA NextGraceInv == TypeInv /\ SweepInv /\ GraceInv /\ [Next]_vars => GraceInv'
PROOF
  <1> SUFFICES ASSUME TypeInv, SweepInv, GraceInv, [Next]_vars PROVE GraceInv'
    OBVIOUS
  <1>1. ASSUME NEW p \in Process, BeginSomeCall(p) \/ RunCall(p) \/ FailCall(p)
        PROVE  GraceInv'
    <2>1. sweep' = sweep /\ sightings' = sightings
      BY <1>1, WriterLeavesSweep, HistoryAside
    <2>2. tombstones' = tombstones
      BY <1>1, WriterLeavesTombstones DEF BeginSomeCall, RunCall, FailCall
    <2> QED BY <2>1, <2>2 DEF GraceInv, Doomed
  <1>2. CASE RunSweep \/ FailSweep
    BY <1>2, SweepKeepsGraceInv DEF RunSweep, FailSweep
  <1>3. CASE UNCHANGED vars
    BY <1>3 DEF vars, storeVars, registryVars, historyVars, GraceInv, Doomed
  <1> QED BY <1>1, <1>2, <1>3 DEF Next

\* A row is deleted by a sweep only after MinAbsentSweeps planning sweeps saw
\* it without its table since its counter was last dropped.
THEOREM GraceIsGranted == Spec => GraceGranted
PROOF
  <1>1. GraceInv => \A l \in SweptAway : sightings[l] = MinAbsentSweeps
    BY DEF GraceInv, Doomed, SweptAway
  <1>2. Spec => []GraceInv
    BY TypeCorrect, InitSweepInv, NextSweepInv, InitGraceInv, NextGraceInv, PTL DEF Spec
  <1> QED BY <1>1, <1>2, PTL DEF GraceGranted, Spec
-----------------------------------------------------------------------------
(***************************************************************************)
(* Sweeps of a namespace nobody writes to (SweepAlone).  First whole       *)
(* sweeps, as functions of tables, rows and counters; then the loops that  *)
(* carry them out.                                                         *)
(***************************************************************************)

Blocked(live, reg) == ListingSuspect(live, reg) \/ OverCap(live, reg)

\* What is true after k sweeps.  Tables have rows after one.  Unless fail-safe
\* or cap forbid deletions, rows without a table have been counted by every
\* sweep but the first, and from the second on nothing else has a counter.
HealInv(live, reg, tombs, k) ==
    /\ live \in SUBSET Label /\ reg \in SUBSET Label
    /\ tombs \in [Label -> 0 .. MinAbsentSweeps - 1]
    /\ k \in 0 .. MinAbsentSweeps + 1
    /\ k >= 1 => live \subseteq reg
    /\ k >= 1 /\ ~Blocked(live, reg) => \A l \in reg \ live : tombs[l] >= k - 1
    /\ k >= 2 /\ ~Blocked(live, reg) => \A l \in Label \ (reg \ live) : tombs[l] = 0

\* Rows and counters after a plan is carried out.
RegAfter(reg, plan) == (reg \cup plan.backfill) \ plan.delete

TombsAfter(tombs, plan) ==
    [l \in Label |-> IF l \in plan.clear \cup plan.delete THEN 0
                     ELSE IF l \in plan.bump THEN tombs[l] + 1 ELSE tombs[l]]

\* What plan_namespace plans, set by set.
LEMMA PlanSets ==
    ASSUME NEW live \in SUBSET Label, NEW reg \in SUBSET Label, NEW tombs \in Tombstones
    PROVE  LET plan == PlanNamespace(live, reg, tombs)
           IN  /\ plan.backfill = live \ reg
               /\ Reappeared(live, reg, tombs) \subseteq plan.clear
               /\ plan.clear \subseteq Label \ (reg \ live)
               /\ ~ListingSuspect(live, reg) => Orphaned(live, reg, tombs) \subseteq plan.clear
               /\ Blocked(live, reg) => plan.delete = {} /\ plan.bump = {}
               /\ ~Blocked(live, reg) =>
                     /\ \A l : l \in plan.delete <=> l \in reg \ live /\ PastGrace(l, tombs)
                     /\ \A l : l \in plan.bump <=> l \in reg \ live /\ ~PastGrace(l, tombs)
PROOF
  BY DEF PlanNamespace, NoPlan, Blocked, Reappeared, Orphaned, Tombstoned, Tombstones

\* Multiplying keeps the order.
LEMMA TimesKeepsOrder ==
    ASSUME NEW x \in Nat, NEW y \in Nat, NEW d \in Nat, x <= y
    PROVE  x * d <= y * d
PROOF
  OBVIOUS

\* A namespace within the cap stays there when rows without a table go: the
\* cap never stops a clean-up half way.
LEMMA CapStays ==
    ASSUME NEW live \in SUBSET Label, NEW reg \in SUBSET Label, NEW after \in SUBSET Label,
           after \ live \subseteq reg \ live, reg \cap live \subseteq after, ~OverCap(live, reg)
    PROVE  ~OverCap(live, after)
PROOF
  <1> DEFINE a == Cardinality(reg \ live)
             b == Cardinality(after \ live)
             r == Cardinality(reg \cap live)
             s == Cardinality(after \cap live)
  <1>1. /\ IsFiniteSet(live) /\ IsFiniteSet(reg) /\ IsFiniteSet(after)
        /\ IsFiniteSet(reg \ live) /\ IsFiniteSet(after \ live)
        /\ IsFiniteSet(reg \cap live) /\ IsFiniteSet(after \cap live)
    BY LabelFinite, FS_Subset DEF LabelFinite
  <1>2. a \in Nat /\ b \in Nat /\ r \in Nat /\ s \in Nat
    BY <1>1, FS_CardinalityType
  <1>3. b <= a /\ r <= s
    <2>1. reg \cap live \subseteq after \cap live
      OBVIOUS
    <2> QED BY <1>1, <2>1, FS_Subset
  <1>4. Cardinality(reg) = a + r /\ Cardinality(after) = b + s
    <2>1. reg = (reg \ live) \cup (reg \cap live) /\ after = (after \ live) \cup (after \cap live)
      OBVIOUS
    <2>2. (reg \ live) \cap (reg \cap live) = {} /\ (after \ live) \cap (after \cap live) = {}
      OBVIOUS
    <2>3. Cardinality(reg) = a + r - Cardinality({})
      BY ONLY <1>1, <2>1, <2>2, FS_Union
    <2>4. Cardinality(after) = b + s - Cardinality({})
      BY ONLY <1>1, <2>1, <2>2, FS_Union
    <2> QED BY <1>2, <2>3, <2>4, FS_EmptySet
  <1>5. CapMin \in Nat /\ CapNum \in Nat /\ CapDen \in Nat
    BY CapAssumption
  <1> HIDE DEF a, b, r, s
  <1>6. a <= CapMin \/ a * CapDen <= CapNum * (a + r)
    BY <1>2, <1>4, <1>5 DEF OverCap, a
  <1>7. ASSUME a * CapDen <= CapNum * (a + r) PROVE b * CapDen <= CapNum * (b + s)
    <2>1. CapNum * r <= CapNum * s
      BY <1>2, <1>3, <1>5, TimesKeepsOrder
    <2>2. CapNum * (a + r) = CapNum * a + CapNum * r /\ CapNum * (b + s) = CapNum * b + CapNum * s
      BY <1>2, <1>5
    <2>3. CASE CapDen <= CapNum
      <3>1. b * CapDen <= CapNum * b
        BY <1>2, <1>5, <2>3, TimesKeepsOrder
      <3>2. CapNum * s >= 0
        BY <1>2, <1>5
      <3> QED BY <1>2, <1>5, <2>2, <3>1, <3>2
    <2>4. CASE CapDen > CapNum
      <3>1. PICK e \in Nat : CapDen = CapNum + e
        BY <1>5, <2>4
      <3>2. a * CapDen = CapNum * a + a * e /\ b * CapDen = CapNum * b + b * e
        BY <1>2, <1>5, <3>1
      <3>3. b * e <= a * e
        BY <1>2, <1>3, <3>1, TimesKeepsOrder
      <3>4. a * e <= CapNum * r
        BY <1>2, <1>5, <1>7, <2>2, <3>1, <3>2
      <3> QED BY <1>2, <1>5, <2>1, <2>2, <3>1, <3>2, <3>3, <3>4
    <2> QED BY <1>5, <2>3, <2>4
  <1> QED BY <1>2, <1>3, <1>4, <1>5, <1>6, <1>7 DEF OverCap, b

\* Whole sweeps keep the invariant.
LEMMA SweepHeals ==
    ASSUME NEW live, NEW reg, NEW tombs, NEW k, HealInv(live, reg, tombs, k)
    PROVE  LET plan == PlanNamespace(live, reg, tombs)
           IN  HealInv(live, RegAfter(reg, plan), TombsAfter(tombs, plan),
                       IF k < MinAbsentSweeps + 1 THEN k + 1 ELSE k)
PROOF
  <1> DEFINE plan == PlanNamespace(live, reg, tombs)
             reg2 == RegAfter(reg, plan)
             tombs2 == TombsAfter(tombs, plan)
             k2 == IF k < MinAbsentSweeps + 1 THEN k + 1 ELSE k
  <1>1. /\ live \in SUBSET Label /\ reg \in SUBSET Label /\ tombs \in Tombstones
        /\ \A l \in Label : tombs[l] \in Nat /\ tombs[l] < MinAbsentSweeps
        /\ MinAbsentSweeps \in Nat /\ MinAbsentSweeps >= 1
        /\ k \in Nat /\ k <= MinAbsentSweeps + 1
    BY GraceAssumption DEF HealInv, Tombstones
  <1>2. /\ plan.backfill = live \ reg
        /\ Reappeared(live, reg, tombs) \subseteq plan.clear
        /\ plan.clear \subseteq Label \ (reg \ live)
        /\ ~ListingSuspect(live, reg) => Orphaned(live, reg, tombs) \subseteq plan.clear
        /\ Blocked(live, reg) => plan.delete = {} /\ plan.bump = {}
        /\ ~Blocked(live, reg) =>
              /\ \A l : l \in plan.delete <=> l \in reg \ live /\ PastGrace(l, tombs)
              /\ \A l : l \in plan.bump <=> l \in reg \ live /\ ~PastGrace(l, tombs)
    <2>1. live \in SUBSET Label /\ reg \in SUBSET Label /\ tombs \in Tombstones
      BY <1>1
    <2> QED BY ONLY <2>1, PlanSets
  <1> HIDE DEF plan
  <1>3. plan.delete \subseteq reg \ live /\ plan.bump \subseteq reg \ live
    BY <1>2
  <1>4. /\ reg2 = (reg \cup live) \ plan.delete
        /\ reg2 \in SUBSET Label /\ live \subseteq reg2 /\ reg2 \ live = (reg \ live) \ plan.delete
    BY <1>1, <1>2, <1>3 DEF RegAfter
  <1>5. \A l \in Label : tombs2[l] = IF l \in plan.clear \cup plan.delete THEN 0
                                     ELSE IF l \in plan.bump THEN tombs[l] + 1 ELSE tombs[l]
    BY DEF TombsAfter
  <1>6. \A l \in plan.bump : tombs[l] + 1 < MinAbsentSweeps
    BY <1>1, <1>2, <1>3 DEF PastGrace
  <1>7. tombs2 \in [Label -> 0 .. MinAbsentSweeps - 1]
    <2>1. \A l \in Label : tombs2[l] \in 0 .. MinAbsentSweeps - 1
      BY <1>1, <1>5, <1>6
    <2>2. tombs2 = [l \in Label |-> tombs2[l]]
      BY DEF TombsAfter
    <2> QED BY <2>1, <2>2
  <1>8. k2 \in Nat /\ k2 \in 0 .. MinAbsentSweeps + 1 /\ k2 >= k /\ k2 <= k + 1
    BY <1>1
  <1>9. ~Blocked(live, reg) => ~Blocked(live, reg2)
    <2> SUFFICES ASSUME ~Blocked(live, reg) PROVE ~Blocked(live, reg2)
      OBVIOUS
    <2>1. ~ListingSuspect(live, reg2)
      BY <1>4 DEF Blocked, ListingSuspect
    <2>2. ~OverCap(live, reg2)
      <3>1. reg2 \ live \subseteq reg \ live /\ reg \cap live \subseteq reg2
        BY <1>4
      <3> HIDE DEF reg2
      <3> QED BY <1>1, <1>4, <3>1, CapStays DEF Blocked
    <2> QED BY <2>1, <2>2 DEF Blocked
  <1>10. k >= 1 => live \subseteq reg
    BY DEF HealInv
  <1>11. k >= 1 /\ ~Blocked(live, reg2) => ~Blocked(live, reg)
    <2> SUFFICES ASSUME k >= 1, Blocked(live, reg) PROVE Blocked(live, reg2)
      OBVIOUS
    <2>1. reg2 = reg
      BY <1>2, <1>4, <1>10
    <2> QED BY <2>1
  <1> HIDE DEF reg2, tombs2
  <1>12. ASSUME k2 >= 1, ~Blocked(live, reg2), NEW l \in reg2 \ live
         PROVE  tombs2[l] >= k2 - 1
    <2>1. l \in reg \ live /\ l \notin plan.delete /\ l \notin plan.clear /\ l \in Label
      BY <1>1, <1>2, <1>4, <1>12
    <2>2. CASE k = 0
      BY <1>1, <1>5, <1>7, <2>1, <2>2
    <2>3. CASE k >= 1
      <3>1. ~Blocked(live, reg)
        BY <1>11, <1>12, <2>3
      <3>2. l \in plan.bump /\ tombs2[l] = tombs[l] + 1
        BY <1>2, <1>5, <2>1, <3>1
      <3>3. tombs[l] >= k - 1
        BY <2>1, <2>3, <3>1 DEF HealInv
      <3> QED BY <1>1, <1>8, <2>1, <3>2, <3>3
    <2> QED BY <1>1, <2>2, <2>3
  <1>13. ASSUME k2 >= 2, ~Blocked(live, reg2), NEW l \in Label \ (reg2 \ live)
         PROVE  tombs2[l] = 0
    <2>1. k >= 1
      BY <1>1, <1>8, <1>13
    <2>2. ~Blocked(live, reg) /\ live \subseteq reg
      BY <1>10, <1>11, <1>13, <2>1
    <2>3. l \notin plan.bump
      <3>1. plan.bump \cap plan.delete = {}
        BY <1>2, <2>2
      <3> QED BY <1>3, <1>4, <1>13, <3>1
    <2>4. CASE l \in plan.clear \cup plan.delete
      BY <1>5, <2>4
    <2>5. CASE l \notin plan.clear \cup plan.delete
      <3>1. l \notin Reappeared(live, reg, tombs) /\ l \notin Orphaned(live, reg, tombs)
        BY <1>2, <2>2, <2>5 DEF Blocked
      <3>2. l \in live \/ l \notin reg
        BY <1>4, <1>13, <2>5
      <3>3. l \notin Tombstoned(tombs)
        BY <2>2, <3>1, <3>2 DEF Reappeared, Orphaned
      <3> QED BY <1>1, <1>5, <2>3, <2>5, <3>3 DEF Tombstoned
    <2> QED BY <2>4, <2>5
  <1> QED BY <1>1, <1>4, <1>7, <1>8, <1>12, <1>13 DEF HealInv, plan, reg2, tombs2

\* Sweeps that are not blocked are done after one more than the grace period.
LEMMA HealedInTime ==
    ASSUME NEW live, NEW reg, NEW tombs, NEW k, HealInv(live, reg, tombs, k),
           k = MinAbsentSweeps + 1, ~Blocked(live, reg)
    PROVE  reg = live /\ \A l \in Label : tombs[l] = 0
PROOF
  <1>1. k >= 2 /\ k - 1 = MinAbsentSweeps
    BY GraceAssumption
  <1>2. \A l \in reg \ live : tombs[l] >= MinAbsentSweeps /\ tombs[l] <= MinAbsentSweeps - 1
    BY <1>1 DEF HealInv
  <1>3. reg \ live = {}
    BY <1>2, GraceAssumption DEF HealInv
  <1>4. live \subseteq reg /\ k >= 2
    BY <1>1 DEF HealInv
  <1>5. \A l \in Label : tombs[l] = 0
    BY <1>3, <1>4 DEF HealInv
  <1> QED BY <1>3, <1>4, <1>5
-----------------------------------------------------------------------------
\* The loops.  A sweep that has planned nothing yet has looked at the stores
\* as they are; the work of its plan concerns labels the loops can tell apart.
AloneShape ==
    /\ SweepsOK
    /\ sweep.pc \in {"idle", "labels", "plan"} => WorkLeft(sweep.plan) = {}
    /\ sweep.pc \in {"labels", "plan"} => sweep.live = Present
    /\ sweep.pc = "plan" => sweep.reg = Registered
    /\ sweep.plan.delete \cap Present = {}
    /\ sweep.pc = "delete" => sweep.label \notin Present
    /\ sweep.plan.clear \cap sweep.plan.bump = {}
    /\ sweep.plan.backfill \cap sweep.plan.delete = {}
    /\ sweep.pc \in {"delete", "untomb"} =>
           sweep.plan.backfill \cup sweep.plan.clear \cup sweep.plan.bump = {}

AloneInv == AloneShape /\ HealInv(Present, RegAhead, TombsAhead, sweepsPlanned)

\* Two states agree on the counters ahead when they agree label by label.
LEMMA TombsAheadEqual ==
    ASSUME \A l \in Label : TombsAhead'[l] = TombsAhead[l]
    PROVE  TombsAhead' = TombsAhead
PROOF
  <1>1. TombsAhead = [l \in Label |-> TombsAhead[l]] /\ TombsAhead' = [l \in Label |-> TombsAhead'[l]]
    BY DEF TombsAhead
  <1> HIDE DEF TombsAhead
  <1> QED BY <1>1

\* Only the planning step moves the stores ahead; every other step of the
\* loops does what the plan already counted as done.
LEMMA LoopsAreSilent ==
    ASSUME AloneShape, SweepStep, sweep.pc # "plan"
    PROVE  AloneShape' /\ Present' = Present /\ RegAhead' = RegAhead /\ TombsAhead' = TombsAhead
PROOF
  <1>1. SweepsOK' /\ sweep \in Sweep /\ sweep.plan \in Plan /\ tombstones \in [Label -> Nat]
        /\ objects \in [Label -> Row \cup {NoRow}]
    BY SweepStepType, SMTT(30) DEF AloneShape, SweepsOK, SweepTypeOK, Sweep, RegistryTypeOK
  <1>2. Present' = Present
    BY DEF SweepStep, SweepList, SweepListed, SweepLabels, SweepPlan, SweepBackfill, SweepClear,
           SweepBump, SweepRecheck, SweepDelete, SweepUntomb, SweepEnd, Present
  <1> DEFINE Goal == AloneShape' /\ RegAhead' = RegAhead /\ TombsAhead' = TombsAhead
             plan == sweep.plan
  <1>3. CASE SweepList
    <2>1. /\ sweep.pc = "idle" /\ sweep'.pc = "labels" /\ sweep'.live = Present
          /\ sweep'.plan = plan /\ UNCHANGED registryVars
      BY <1>1, <1>3 DEF SweepList, SweepListed, Sweep
    <2>2. AloneShape'
      BY <1>1, <1>2, <2>1 DEF AloneShape
    <2>3. RegAhead' = RegAhead /\ TombsAhead' = TombsAhead
      BY <2>1 DEF RegAhead, TombsAhead, UpForDelete, UpForClear, registryVars, Registered
    <2> QED BY <1>2, <2>2, <2>3
  <1>4. CASE SweepLabels
    <2>1. /\ sweep.pc = "labels" /\ sweep'.pc = "plan" /\ sweep'.live = sweep.live
          /\ sweep'.reg = Registered /\ sweep'.plan = plan /\ UNCHANGED registryVars
      BY <1>1, <1>4 DEF SweepLabels, Sweep
    <2>2. Registered' = Registered
      BY <2>1 DEF Registered, registryVars
    <2>3. AloneShape'
      BY <1>1, <1>2, <2>1, <2>2 DEF AloneShape
    <2>4. RegAhead' = RegAhead /\ TombsAhead' = TombsAhead
      BY <2>1, <2>2 DEF RegAhead, TombsAhead, UpForDelete, UpForClear, registryVars
    <2> QED BY <1>2, <2>3, <2>4
  <1>5. ASSUME NEW l \in Label, SweepBackfill(l) PROVE Goal
    <2>1. /\ sweep.pc = "apply" /\ sweep'.pc = "apply" /\ l \in plan.backfill
          /\ sweep'.plan.backfill = plan.backfill \ {l} /\ sweep'.plan.clear = plan.clear
          /\ sweep'.plan.bump = plan.bump /\ sweep'.plan.delete = plan.delete
          /\ objects' = [objects EXCEPT ![l] = ReconciledRow] /\ tombstones' = tombstones
      BY <1>1, <1>5 DEF SweepBackfill, RecordObject, UpsertObject, Sweep, Plan
    <2>2. Registered' = Registered \cup {l}
      BY <1>1, <2>1 DEF Registered, ReconciledRow, NoRow
    <2>3. AloneShape'
      BY <1>1, <1>2, <2>1 DEF AloneShape
    <2>4. RegAhead' = RegAhead
      BY <2>1, <2>2 DEF RegAhead, UpForDelete
    <2>5. TombsAhead' = TombsAhead
      BY <2>1 DEF TombsAhead, UpForClear
    <2> QED BY <2>3, <2>4, <2>5
  <1>6. ASSUME NEW l \in Label, SweepClear(l) PROVE Goal
    <2>1. /\ sweep.pc = "apply" /\ sweep'.pc = "apply" /\ l \in plan.clear
          /\ sweep'.plan.backfill = plan.backfill /\ sweep'.plan.clear = plan.clear \ {l}
          /\ sweep'.plan.bump = plan.bump /\ sweep'.plan.delete = plan.delete
          /\ objects' = objects /\ tombstones' = [tombstones EXCEPT ![l] = 0]
      BY <1>1, <1>6 DEF SweepClear, ClearTombstone, Sweep, Plan
    <2>2. AloneShape'
      BY <1>1, <1>2, <2>1 DEF AloneShape
    <2>3. RegAhead' = RegAhead
      BY <2>1 DEF RegAhead, UpForDelete, Registered
    <2>4. ASSUME NEW k \in Label PROVE TombsAhead'[k] = TombsAhead[k]
      <3>1. k = l => k \notin plan.bump
        BY <2>1 DEF AloneShape
      <3> QED BY <1>1, <2>1, <3>1 DEF TombsAhead, UpForClear
    <2> QED BY <2>2, <2>3, <2>4, TombsAheadEqual
  <1>7. ASSUME NEW l \in Label, SweepBump(l) PROVE Goal
    <2>1. /\ sweep.pc = "apply" /\ sweep'.pc = "apply" /\ l \in plan.bump
          /\ sweep'.plan.backfill = plan.backfill /\ sweep'.plan.clear = plan.clear
          /\ sweep'.plan.bump = plan.bump \ {l} /\ sweep'.plan.delete = plan.delete
          /\ objects' = objects /\ tombstones' = [tombstones EXCEPT ![l] = tombstones[l] + 1]
      BY <1>1, <1>7 DEF SweepBump, BumpTombstone, Sweep, Plan
    <2>2. AloneShape'
      BY <1>1, <1>2, <2>1 DEF AloneShape
    <2>3. RegAhead' = RegAhead
      BY <2>1 DEF RegAhead, UpForDelete, Registered
    <2>4. \A k \in Label : TombsAhead'[k] = TombsAhead[k]
      BY <1>1, <2>1 DEF TombsAhead, UpForClear
    <2> QED BY <2>2, <2>3, <2>4, TombsAheadEqual
  <1>8. ASSUME NEW l \in Label, SweepRecheck(l) PROVE Goal
    <2>1. l \in plan.delete /\ l \notin Present
      BY <1>8 DEF SweepRecheck, AloneShape
    <2>2. /\ sweep.pc = "apply" /\ sweep'.pc = "delete" /\ sweep'.label = l
          /\ plan.backfill \cup plan.clear \cup plan.bump = {}
          /\ sweep'.plan.backfill = plan.backfill /\ sweep'.plan.clear = plan.clear
          /\ sweep'.plan.bump = plan.bump /\ sweep'.plan.delete = plan.delete \ {l}
          /\ UNCHANGED registryVars
      BY <1>1, <1>8, <2>1 DEF SweepRecheck, Sweep, Plan
    <2>3. AloneShape'
      BY <1>1, <1>2, <2>1, <2>2 DEF AloneShape
    <2>4. RegAhead' = RegAhead
      BY <2>1, <2>2 DEF RegAhead, UpForDelete, Registered, registryVars
    <2>5. TombsAhead' = TombsAhead
      BY <2>1, <2>2 DEF TombsAhead, UpForClear, registryVars
    <2> QED BY <2>3, <2>4, <2>5
  <1>9. CASE SweepDelete
    <2>1. /\ sweep.pc = "delete" /\ sweep'.pc = "untomb" /\ sweep'.label = sweep.label
          /\ plan.backfill \cup plan.clear \cup plan.bump = {} /\ sweep'.plan = plan
          /\ objects' = [objects EXCEPT ![sweep.label] = NoRow] /\ tombstones' = tombstones
          /\ sweep.label \in Label
      BY <1>1, <1>9 DEF SweepDelete, DeleteObject, Sweep, AloneShape, SweepsOK, SweepShape
    <2>2. Registered' = Registered \ {sweep.label}
      BY <1>1, <2>1 DEF Registered
    <2>3. AloneShape'
      BY <1>1, <1>2, <2>1 DEF AloneShape
    <2>4. RegAhead' = RegAhead
      BY <2>1, <2>2 DEF RegAhead, UpForDelete
    <2>5. TombsAhead' = TombsAhead
      BY <2>1 DEF TombsAhead, UpForClear
    <2> QED BY <1>2, <2>3, <2>4, <2>5
  <1>10. CASE SweepUntomb
    <2>1. /\ sweep.pc = "untomb" /\ sweep'.pc = "apply" /\ sweep'.plan = plan
          /\ plan.backfill \cup plan.clear \cup plan.bump = {}
          /\ objects' = objects /\ tombstones' = [tombstones EXCEPT ![sweep.label] = 0]
          /\ sweep.label \in Label
      BY <1>1, <1>10 DEF SweepUntomb, ClearTombstone, Sweep, AloneShape, SweepsOK, SweepShape
    <2>2. AloneShape'
      BY <1>1, <1>2, <2>1 DEF AloneShape
    <2>3. RegAhead' = RegAhead
      BY <2>1 DEF RegAhead, UpForDelete, Registered
    <2>4. \A k \in Label : TombsAhead'[k] = TombsAhead[k]
      BY <1>1, <2>1 DEF TombsAhead, UpForClear
    <2> QED BY <1>2, <2>2, <2>3, <2>4, TombsAheadEqual
  <1>11. CASE SweepEnd
    <2>1. /\ sweep.pc = "apply" /\ sweep'.pc = "idle" /\ WorkLeft(plan) = {}
          /\ sweep'.plan = NoPlan /\ UNCHANGED registryVars
      BY <1>11 DEF SweepEnd, IdleSweep
    <2>2. /\ plan.backfill = {} /\ plan.clear = {} /\ plan.bump = {} /\ plan.delete = {}
          /\ NoPlan.backfill = {} /\ NoPlan.clear = {} /\ NoPlan.bump = {} /\ NoPlan.delete = {}
      BY <2>1 DEF WorkLeft, NoPlan
    <2>3. AloneShape'
      BY <1>1, <1>2, <2>1, <2>2 DEF AloneShape, WorkLeft
    <2>4. RegAhead' = RegAhead /\ TombsAhead' = TombsAhead
      BY <2>1, <2>2 DEF RegAhead, TombsAhead, UpForDelete, UpForClear, registryVars, Registered
    <2> QED BY <1>2, <2>3, <2>4
  <1>12. ~SweepPlan
    BY DEF SweepPlan
  <1> QED BY <1>2, <1>3, <1>4, <1>5, <1>6, <1>7, <1>8, <1>9, <1>10, <1>11, <1>12 DEF SweepStep

\* The planning step moves them by a whole plan.
LEMMA PlanIsASweep ==
    ASSUME AloneShape, SweepStep, sweep.pc = "plan"
    PROVE  LET plan == PlanNamespace(Present, RegAhead, TombsAhead)
           IN  /\ AloneShape' /\ Present' = Present
               /\ RegAhead' = RegAfter(RegAhead, plan)
               /\ TombsAhead' = TombsAfter(TombsAhead, plan)
PROOF
  <1>1. SweepsOK' /\ sweep \in Sweep /\ tombstones \in [Label -> Nat]
    BY SweepStepType DEF AloneShape, SweepsOK, SweepTypeOK, Sweep, RegistryTypeOK
  <1>2. SweepPlan
    BY DEF SweepStep, SweepList, SweepListed, SweepLabels, SweepBackfill, SweepClear, SweepBump,
           SweepRecheck, SweepDelete, SweepUntomb, SweepEnd
  <1>3. /\ sweep.plan.backfill = {} /\ sweep.plan.clear = {} /\ sweep.plan.bump = {}
        /\ sweep.plan.delete = {}
    BY DEF AloneShape, WorkLeft
  <1>4. RegAhead = Registered
    BY <1>3 DEF RegAhead, UpForDelete
  <1>5. TombsAhead = tombstones
    <2>1. \A l \in Label : TombsAhead[l] = tombstones[l]
      BY <1>3 DEF TombsAhead, UpForClear
    <2>2. TombsAhead = [l \in Label |-> TombsAhead[l]]
      BY DEF TombsAhead
    <2> HIDE DEF TombsAhead
    <2> QED BY <1>1, <2>1, <2>2
  <1> DEFINE plan == PlanNamespace(Present, RegAhead, TombsAhead)
  <1>6. /\ sweep'.pc = "apply" /\ sweep'.plan = plan /\ UNCHANGED <<registryVars, tables>>
    <2>1. sweep.live = Present /\ sweep.reg = Registered
      BY DEF AloneShape
    <2> QED BY <1>1, <1>2, <1>4, <1>5, <2>1 DEF SweepPlan, Sweep
  <1>7. Present' = Present /\ Registered' = Registered /\ tombstones' = tombstones
    BY <1>6 DEF Present, Registered, registryVars
  <1>8. /\ Present \in SUBSET Label /\ RegAhead \in SUBSET Label /\ TombsAhead \in Tombstones
    BY <1>1, <1>4, <1>5 DEF Present, Registered, Tombstones
  <1>9. /\ plan.delete \subseteq RegAhead \ Present /\ plan.bump \subseteq RegAhead \ Present
    <2> HIDE DEF plan
    <2>1. /\ Blocked(Present, RegAhead) => plan.delete = {} /\ plan.bump = {}
          /\ ~Blocked(Present, RegAhead) =>
                /\ \A l : l \in plan.delete <=> l \in RegAhead \ Present /\ PastGrace(l, TombsAhead)
                /\ \A l : l \in plan.bump <=> l \in RegAhead \ Present /\ ~PastGrace(l, TombsAhead)
      BY ONLY <1>8, PlanSets, ZenonT(60) DEF plan
    <2> QED BY ONLY <2>1
  <1>10. plan.backfill \cap plan.delete = {} /\ plan.clear \cap plan.bump = {}
    BY <1>8 DEF PlanNamespace, NoPlan, Reappeared, Orphaned, Tombstoned, Tombstones
  <1> HIDE DEF plan
  <1>11. AloneShape'
    BY <1>1, <1>6, <1>7, <1>9, <1>10 DEF AloneShape
  <1>12. RegAhead' = RegAfter(RegAhead, plan)
    BY <1>4, <1>6, <1>7 DEF RegAhead, RegAfter, UpForDelete
  <1>13. TombsAhead' = TombsAfter(TombsAhead, plan)
    BY <1>5, <1>6, <1>7 DEF TombsAhead, TombsAfter, UpForClear
  <1> QED BY <1>7, <1>11, <1>12, <1>13 DEF plan
-----------------------------------------------------------------------------
\* Whatever state writers and crashes left is one the invariant covers.
LEMMA InitAlone == AloneInit => AloneInv
PROOF
  <1> SUFFICES ASSUME AloneInit PROVE AloneInv
    OBVIOUS
  <1>1. MinAbsentSweeps \in Nat /\ MinAbsentSweeps >= 1 /\ MaxCalls \in Nat
    BY GraceAssumption, MaxCallsAssumption
  <1>2. /\ sweep = IdleSweep /\ NoPlan \in Plan /\ sweep.plan = NoPlan /\ sweep.pc = "idle"
        /\ sweep.label = "none" /\ sweep.live = {} /\ sweep.reg = {}
        /\ NoPlan.backfill = {} /\ NoPlan.clear = {} /\ NoPlan.bump = {} /\ NoPlan.delete = {}
    BY DEF AloneInit, ReconcilerInit, IdleSweep, NoPlan, Plan
  <1>3. tombstones \in [Label -> 0 .. MinAbsentSweeps - 1]
    BY DEF AloneInit
  <1>4. RegistryTypeOK
    <2>1. ReconciledRow \in Row
      BY <1>1 DEF ReconciledRow, Row, SourceKind
    <2>2. objects \in [Label -> Row \cup {NoRow}]
      BY <2>1 DEF AloneInit
    <2>3. tombstones \in [Label -> Nat]
      BY <1>1, <1>3
    <2> QED BY <2>2, <2>3 DEF AloneInit, RegistryTypeOK
  <1>5. SweepsOK
    BY <1>2, <1>4 DEF SweepsOK, SweepTypeOK, SweepShape, Sweep, IdleSweep
  <1>6. AloneShape
    BY <1>2, <1>5 DEF AloneShape, WorkLeft
  <1>7. RegAhead = Registered
    BY <1>2 DEF RegAhead, UpForDelete
  <1>8. TombsAhead = tombstones
    <2>1. \A l \in Label : TombsAhead[l] = tombstones[l]
      BY <1>2 DEF TombsAhead, UpForClear
    <2>2. TombsAhead = [l \in Label |-> TombsAhead[l]]
      BY DEF TombsAhead
    <2> HIDE DEF TombsAhead
    <2> QED BY <1>3, <2>1, <2>2
  <1>9. HealInv(Present, RegAhead, TombsAhead, sweepsPlanned)
    <2>1. sweepsPlanned = 0
      BY DEF AloneInit
    <2> QED BY <1>1, <1>3, <1>7, <1>8, <2>1 DEF HealInv, Present, Registered
  <1> QED BY <1>6, <1>9 DEF AloneInv

\* A planning step is a sweep of the abstract specification.
PlanStep ==
    LET plan == PlanNamespace(Present, RegAhead, TombsAhead)
    IN  /\ Present' = Present
        /\ RegAhead' = RegAfter(RegAhead, plan)
        /\ TombsAhead' = TombsAfter(TombsAhead, plan)
        /\ sweepsPlanned' = IF sweepsPlanned < MinAbsentSweeps + 1
                            THEN sweepsPlanned + 1 ELSE sweepsPlanned

\* Every other step leaves it where it was.
SilentStep == UNCHANGED <<Present, RegAhead, TombsAhead, sweepsPlanned>>

LEMMA AloneSteps ==
    ASSUME AloneShape, [AloneNext]_aloneVars
    PROVE  AloneShape' /\ (PlanStep \/ SilentStep)
PROOF
  <1>1. CASE AloneNext /\ sweep.pc = "plan"
    <2>1. Quiet!Patience = MinAbsentSweeps + 1
      BY DEF Quiet!Patience
    <2>2. SweepStep /\ sweepsPlanned' = IF sweepsPlanned < MinAbsentSweeps + 1
                                        THEN sweepsPlanned + 1 ELSE sweepsPlanned
      BY <1>1, <2>1 DEF AloneNext
    <2> QED BY <1>1, <2>2, PlanIsASweep DEF PlanStep
  <1>2. CASE AloneNext /\ sweep.pc # "plan"
    <2>1. SweepStep /\ sweepsPlanned' = sweepsPlanned
      BY <1>2 DEF AloneNext
    <2> QED BY <1>2, <2>1, LoopsAreSilent DEF SilentStep
  <1>3. CASE UNCHANGED aloneVars
    <2>1. UNCHANGED <<objects, tags, lineage, tombstones, tables, sweep, sweepsPlanned>>
      BY <1>3 DEF aloneVars, registryVars
    <2>2. Present' = Present /\ Registered' = Registered
      BY <2>1 DEF Present, Registered
    <2>3. RegAhead' = RegAhead /\ TombsAhead' = TombsAhead
      BY <2>1, <2>2 DEF RegAhead, TombsAhead, UpForDelete, UpForClear
    <2>4. AloneShape'
      BY <2>1, <2>2 DEF AloneShape, SweepsOK, RegistryTypeOK, SweepTypeOK, SweepShape
    <2> QED BY <2>1, <2>2, <2>3, <2>4 DEF SilentStep
  <1> QED BY <1>1, <1>2, <1>3

\* Every reachable state satisfies the invariant.
LEMMA AloneAlways == AloneSpec => []AloneInv
PROOF
  <1>1. ASSUME AloneInv, [AloneNext]_aloneVars PROVE AloneInv'
    <2>1. AloneShape' /\ (PlanStep \/ SilentStep)
      BY <1>1, AloneSteps DEF AloneInv
    <2>2. HealInv(Present, RegAhead, TombsAhead, sweepsPlanned)
      BY <1>1 DEF AloneInv
    <2>3. CASE SilentStep
      BY <2>1, <2>2, <2>3 DEF SilentStep, AloneInv
    <2>4. CASE PlanStep
      <3>1. LET plan == PlanNamespace(Present, RegAhead, TombsAhead)
            IN  HealInv(Present, RegAfter(RegAhead, plan), TombsAfter(TombsAhead, plan),
                        IF sweepsPlanned < MinAbsentSweeps + 1
                        THEN sweepsPlanned + 1 ELSE sweepsPlanned)
        BY <2>2, SweepHeals
      <3> QED BY <2>1, <2>4, <3>1 DEF PlanStep, AloneInv
    <2> QED BY <2>1, <2>3, <2>4
  <1> QED BY <1>1, InitAlone, PTL DEF AloneSpec

\* A grace counter stays short of the sweep that would delete its row.
THEOREM CountersAreShort == AloneSpec => []CountersStayShort
PROOF
  <1>1. AloneInv => CountersStayShort
    BY DEF AloneInv, HealInv, CountersStayShort, Quiet!QuietTypeOK, Quiet!Patience
  <1> QED BY <1>1, AloneAlways, PTL

\* The instance counts as the rest of the project does.
LEMMA SameCardinality == ASSUME NEW S PROVE Quiet!Cardinality(S) = Cardinality(S)
PROOF
  BY DEF Quiet!Cardinality, Cardinality

\* The instance plans as the reconciler does.
LEMMA SamePlan ==
    ASSUME NEW live, NEW reg, NEW tombs
    PROVE  /\ Quiet!PlanNamespace(live, reg, tombs) = PlanNamespace(live, reg, tombs)
           /\ Quiet!ListingSuspect(live, reg) <=> ListingSuspect(live, reg)
           /\ Quiet!OverCap(live, reg) <=> OverCap(live, reg)
PROOF
  <1>1. Quiet!Tombstoned(tombs) = Tombstoned(tombs) /\ Quiet!NoPlan = NoPlan
    BY DEF Quiet!Tombstoned, Tombstoned, Quiet!NoPlan, NoPlan
  <1>2. /\ Quiet!Reappeared(live, reg, tombs) = Reappeared(live, reg, tombs)
        /\ Quiet!Orphaned(live, reg, tombs) = Orphaned(live, reg, tombs)
    BY <1>1 DEF Quiet!Reappeared, Reappeared, Quiet!Orphaned, Orphaned
  <1>3. /\ Quiet!ListingSuspect(live, reg) <=> ListingSuspect(live, reg)
        /\ Quiet!OverCap(live, reg) <=> OverCap(live, reg)
    BY SameCardinality DEF Quiet!ListingSuspect, ListingSuspect, Quiet!OverCap, OverCap
  <1>4. \A l : Quiet!PastGrace(l, tombs) <=> PastGrace(l, tombs)
    BY DEF Quiet!PastGrace, PastGrace
  <1>5. /\ {l \in reg \ live : Quiet!PastGrace(l, tombs)} = {l \in reg \ live : PastGrace(l, tombs)}
        /\ {l \in reg \ live : ~Quiet!PastGrace(l, tombs)} = {l \in reg \ live : ~PastGrace(l, tombs)}
    BY <1>4
  <1>6. Quiet!PlanNamespace(live, reg, tombs) = PlanNamespace(live, reg, tombs)
    BY <1>1, <1>2, <1>3, <1>5, Zenon DEF Quiet!PlanNamespace, PlanNamespace
  <1> QED BY <1>3, <1>6

\* After one sweep every table has its row; after MinAbsentSweeps + 1 the
\* stores are in step, whatever state they were in, unless the fail-safe or the
\* cap forbids it.
THEOREM HealedByThen == AloneSpec => []HealsInTime
PROOF
  <1>1. AloneInv => HealsInTime
    <2> SUFFICES ASSUME AloneInv PROVE HealsInTime
      OBVIOUS
    <2>1. HealInv(Present, RegAhead, TombsAhead, sweepsPlanned)
      BY DEF AloneInv
    <2>2. sweepsPlanned >= 1 => Present \subseteq RegAhead
      BY <2>1 DEF HealInv
    <2>3. sweepsPlanned = MinAbsentSweeps + 1 =>
             \/ RegAhead = Present /\ \A l \in Label : TombsAhead[l] = 0
             \/ ListingSuspect(Present, RegAhead) \/ OverCap(Present, RegAhead)
      BY <2>1, HealedInTime DEF Blocked
    <2> QED BY <2>2, <2>3, SamePlan
            DEF HealsInTime, Quiet!HealsInTime, Quiet!InStep, Quiet!Patience
  <1> QED BY <1>1, AloneAlways, PTL

\* The loops of apply_plan, taken together, are one step that carries out the
\* whole plan.
THEOREM LoopsAreSweeps == AloneSpec => ImplementsQuietSweeps
PROOF
  <1>1. AloneInit => Quiet!QuietInit
    <2>1. AloneInit => sweepsPlanned = 0
      BY DEF AloneInit
    <2> QED BY <2>1, InitAlone DEF AloneInv, HealInv, Quiet!QuietInit, Quiet!QuietTypeOK,
                                   Quiet!Patience
  <1>2. AloneInv /\ [AloneNext]_aloneVars => [Quiet!QuietSweep]_(Quiet!quietVars)
    <2> SUFFICES ASSUME AloneInv, [AloneNext]_aloneVars
                 PROVE  [Quiet!QuietSweep]_(Quiet!quietVars)
      OBVIOUS
    <2>1. PlanStep \/ SilentStep
      BY AloneSteps DEF AloneInv
    <2>2. CASE SilentStep
      BY <2>2 DEF SilentStep, Quiet!quietVars
    <2>3. CASE PlanStep
      BY <2>3, SamePlan DEF PlanStep, RegAfter, TombsAfter, Quiet!QuietSweep, Quiet!ApplyPlan,
                            Quiet!Patience
    <2> QED BY <2>1, <2>2, <2>3
  <1> QED BY <1>1, <1>2, AloneAlways, PTL DEF AloneSpec, ImplementsQuietSweeps, Quiet!QuietSpec

\* What a step of the loops may take away.
TimidStep ==
    LET lost == RegAhead \ RegAhead'
    IN  lost # {} => /\ lost \cap Present = {}
                     /\ Present # {}
                     /\ \/ Quiet!Cardinality(lost) <= CapMin
                        \/ Quiet!Cardinality(lost) * CapDen <= CapNum * Quiet!Cardinality(RegAhead)

\* A sweep deletes no row that has a table, nothing from an empty listing, and
\* no more than the cap allows.
THEOREM SweepsAreTimidAlone == AloneSpec => QuietSweepIsTimid
PROOF
  <1>1. AloneInv /\ [AloneNext]_aloneVars => [TimidStep]_(Quiet!quietVars)
    <2> SUFFICES ASSUME AloneInv, [AloneNext]_aloneVars PROVE [TimidStep]_(Quiet!quietVars)
      OBVIOUS
    <2>1. PlanStep \/ SilentStep
      BY AloneSteps DEF AloneInv
    <2>2. CASE SilentStep
      BY <2>2 DEF SilentStep, Quiet!quietVars
    <2>3. CASE PlanStep
      <3> DEFINE plan == PlanNamespace(Present, RegAhead, TombsAhead)
                 lost == RegAhead \ RegAhead'
      <3>1. Present \in SUBSET Label /\ RegAhead \in SUBSET Label /\ TombsAhead \in Tombstones
        BY DEF AloneInv, HealInv, Tombstones
      <3>2. plan.delete \subseteq RegAhead \ Present
            /\ (plan.delete # {} => /\ ~ListingSuspect(Present, RegAhead)
                                    /\ ~OverCap(Present, RegAhead))
        BY ONLY <3>1, PlanDeletes
      <3>3. lost \subseteq plan.delete
        BY <2>3 DEF PlanStep, RegAfter
      <3> HIDE DEF plan
      <3>4. lost \in SUBSET (RegAhead \ Present)
        BY <3>2, <3>3
      <3> HIDE DEF lost
      <3>5. lost # {} => Present # {} /\ ~OverCap(Present, RegAhead) /\ lost \cap Present = {}
        BY <3>2, <3>3, <3>4 DEF ListingSuspect
      <3>6. lost # {} => \/ Cardinality(lost) <= CapMin
                         \/ Cardinality(lost) * CapDen <= CapNum * Cardinality(RegAhead)
        BY <3>1, <3>4, <3>5, CapBoundsSubsets
      <3> QED BY <3>5, <3>6, SameCardinality DEF TimidStep, lost
    <2> QED BY <2>1, <2>2, <2>3
  <1>2. AloneSpec => [][TimidStep]_(Quiet!quietVars)
    BY <1>1, AloneAlways, PTL DEF AloneSpec
  <1> QED BY <1>2 DEF QuietSweepIsTimid, Quiet!QuietSweepIsTimid, TimidStep

\* The job's sweeps of its namespace are such sweeps, whatever happens to the
\* job and to its other namespaces.
THEOREM JobSweepsAlone == JobSpec => AloneSpec
PROOF
  <1>1. JobInit => AloneInit
    BY DEF JobInit
  <1>2. [JobNext]_jobVars => [AloneNext]_aloneVars
    BY DEF JobNext, JobStep, JobStart, JobList, JobListFails, JobPick, NeighbourSwept,
           NeighbourRaises, MineSweeps, JobEnd, jobVars
  <1> QED BY <1>1, <1>2, PTL DEF JobSpec, AloneSpec
=============================================================================
