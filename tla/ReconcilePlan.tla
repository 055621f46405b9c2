--------------------------- MODULE ReconcilePlan ---------------------------
(***************************************************************************)
(* The planning half of the registry <-> catalog reconciler                *)
(* (src/memcove/reconciler.py, plan_namespace): a pure function from one   *)
(* sweep's snapshot of a namespace to the work apply_plan then carries     *)
(* out.  A tombstone table is a function label -> Nat in which 0 means     *)
(* "no row in memcove_reconcile_tombstone".                                *)
(***************************************************************************)
EXTENDS Namespace

CONSTANTS
    MinAbsentSweeps,  \* settings.reconcile_min_absent_sweeps
    CapMin,           \* settings.reconcile_deletion_cap_min
    CapNum, CapDen    \* settings.reconcile_deletion_cap_ratio = CapNum / CapDen

ASSUME GraceAssumption == MinAbsentSweeps \in Nat \ {0}
ASSUME CapAssumption == CapMin \in Nat /\ CapNum \in Nat /\ CapDen \in Nat \ {0}

Tombstones == [Label -> Nat]

Plan == [backfill : SUBSET Label, delete : SUBSET Label, bump : SUBSET Label,
         clear : SUBSET Label, skipped : BOOLEAN, capped : BOOLEAN]

NoPlan == [backfill |-> {}, delete |-> {}, bump |-> {}, clear |-> {},
           skipped |-> FALSE, capped |-> FALSE]

Tombstoned(tombs) == {l \in Label : tombs[l] > 0}

\* Mutant: some of the counters to be forgotten are not.
NothingToClear(live, reg, tombs) == {}

\* Registered and listed again: the grace counter starts over.
Reappeared(live, reg, tombs) == (reg \cap live) \cap Tombstoned(tombs)

\* In neither store any more: the counter would leak.
Orphaned(live, reg, tombs) == (Tombstoned(tombs) \ reg) \ live

\* "Fail-safe": rows but an empty listing reads as an unavailable listing.
ListingSuspect(live, reg) == reg # {} /\ live = {}

\* Mutant: the absolute floor of the cap is off by one.
OverCapByTwo(live, reg) ==
    LET absent == Cardinality(reg \ live)
    IN  absent > CapMin + 1 /\ absent * CapDen > CapNum * Cardinality(reg)

\* Mutant: the ratio is taken of everything there is.
OverCapOfAll(live, reg) ==
    LET absent == Cardinality(reg \ live)
    IN  absent > CapMin /\ absent * CapDen > CapNum * Cardinality(reg \cup live)

OverCap(live, reg) ==
    LET absent == Cardinality(reg \ live)
    IN  absent > CapMin /\ absent * CapDen > CapNum * Cardinality(reg)

\* Mutant: the grace period is a sweep long.
PastLongGrace(l, tombs) == tombs[l] + 1 > MinAbsentSweeps

PastGrace(l, tombs) == tombs[l] + 1 >= MinAbsentSweeps

PlanNamespace(live, reg, tombs) ==
    LET absent == reg \ live
        base   == [NoPlan EXCEPT !.backfill = live \ reg,
                                 !.clear = Reappeared(live, reg, tombs)]
        full   == [base EXCEPT !.clear = @ \cup Orphaned(live, reg, tombs)]
    IN  IF ListingSuspect(live, reg) THEN [base EXCEPT !.skipped = TRUE]
        ELSE IF OverCap(live, reg)   THEN [full EXCEPT !.capped = TRUE]
        ELSE [full EXCEPT !.delete = {l \in absent : PastGrace(l, tombs)},
                          !.bump   = {l \in absent : ~PastGrace(l, tombs)}]
=============================================================================
