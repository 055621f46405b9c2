------------------------------ MODULE Registry ------------------------------
(***************************************************************************)
(* The registry database of one tenant (core/registry.py): four tables,    *)
(* and one operator per function that writes them.  Every function runs    *)
(* in one transaction of the backend, so each operator is one step.        *)
(* Postgres, MySQL and SQLite share the SQL and differ in upsert syntax.   *)
(***************************************************************************)
EXTENDS Calls

VARIABLES
  \* memcove_objects: the metadata row of a label, or NoRow.
  objects,
  \* memcove_object_tags: a call's tags are known by the call's number.
  tags,
  \* memcove_lineage: the parent labels recorded for a child label.
  lineage,
  \* memcove_reconcile_tombstone: absent_sweeps, 0 when there is no row.
  tombstones

registryVars == <<objects, tags, lineage, tombstones>>

(***************************************************************************)
(* A row keeps what the properties tell apart: its source, the call that   *)
(* wrote it (0: a repair, which is nobody's call) and producing_sql, known *)
(* by the labels the SELECT references ({} when it is NULL).               *)
(***************************************************************************)
Row == [source : SourceKind, by : 0 .. MaxCalls, sql : SUBSET Label]

NoRow == [source |-> "none", by |-> 0, sql |-> {}]

\* Mutant: the repair files its row under a source_kind nobody knows.
RepairedRow == [source |-> "repaired", by |-> 0, sql |-> {}]

ReconciledRow == [source |-> "reconciled", by |-> 0, sql |-> {}]

Registered == {l \in Label : objects[l] # NoRow}

RegistryInit ==
    /\ objects = [l \in Label |-> NoRow]
    /\ tags = [l \in Label |-> {}]
    /\ lineage = [l \in Label |-> {}]
    /\ tombstones = [l \in Label |-> 0]

\* INSERT .. ON CONFLICT DO UPDATE of the row; its tags are replaced with it.
UpsertObject(l, row, rowTags) ==
    /\ objects' = [objects EXCEPT ![l] = row]
    /\ tags' = [tags EXCEPT ![l] = rowTags]

SetLineage(l, parents) == lineage' = [lineage EXCEPT ![l] = parents \ {l}]

RecordObject(l, row, rowTags) ==
    UpsertObject(l, row, rowTags) /\ UNCHANGED <<lineage, tombstones>>

\* Row, tags and (when the caller passes lineage_parents) edges commit together.
RecordObjectGuarded(l, row, rowTags, withLineage, parents) ==
    /\ UpsertObject(l, row, rowTags)
    /\ IF withLineage THEN SetLineage(l, parents) ELSE UNCHANGED lineage
    /\ UNCHANGED tombstones

\* Mutant: the edges of a deleted row stay.
DeleteKeepingEdges(l) ==
    /\ objects' = [objects EXCEPT ![l] = NoRow]
    /\ tags' = [tags EXCEPT ![l] = {}]
    /\ UNCHANGED <<lineage, tombstones>>

\* The row, its tags and the edges it is the child of; tombstones stay.
DeleteObject(l) ==
    /\ objects' = [objects EXCEPT ![l] = NoRow]
    /\ tags' = [tags EXCEPT ![l] = {}]
    /\ lineage' = [lineage EXCEPT ![l] = {}]
    /\ UNCHANGED tombstones

BumpTombstone(l) ==
    /\ tombstones' = [tombstones EXCEPT ![l] = @ + 1]
    /\ UNCHANGED <<objects, tags, lineage>>

ClearTombstone(l) ==
    /\ tombstones' = [tombstones EXCEPT ![l] = 0]
    /\ UNCHANGED <<objects, tags, lineage>>

RegistryTypeOK ==
    /\ objects \in [Label -> Row \cup {NoRow}]
    /\ tags \in [Label -> SUBSET Call]
    /\ lineage \in [Label -> SUBSET Label]
    /\ tombstones \in [Label -> Nat]
=============================================================================
