--------------------------- MODULE RegistryAtomic ---------------------------
(***************************************************************************)
(* What the callers of core/registry.py rely on, for one label: each       *)
(* function that reads or writes the registry is a single step.  This is   *)
(* the view of the database that module Registry takes.                    *)
(***************************************************************************)
EXTENDS Integers

CONSTANT MaxTxs   \* bound: transactions of the label

VARIABLES
  row,      \* number of the transaction that wrote the object row, or 0
  tags,     \* numbers of the transactions whose tags are on file
  edges,    \* and of those whose lineage edges are
  answer    \* row and tags of the last get_object that found a row

atomicVars == <<row, tags, edges, answer>>

AtomicInit == row = 0 /\ tags = {} /\ edges = {} /\ answer = [row |-> 0, tags |-> {}]

AtomicRecord(n, withTags, withLineage) ==
    /\ row' = n
    /\ tags' = IF withTags THEN {n} ELSE {}
    /\ edges' = IF withLineage THEN {n} ELSE edges
    /\ UNCHANGED answer

AtomicDelete == row' = 0 /\ tags' = {} /\ edges' = {} /\ UNCHANGED answer

AtomicGet == answer' = [row |-> row, tags |-> tags] /\ UNCHANGED <<row, tags, edges>>

AtomicNext ==
    \/ \E n \in 1 .. MaxTxs, withTags, withLineage \in BOOLEAN :
           AtomicRecord(n, withTags, withLineage)
    \/ AtomicDelete
    \/ AtomicGet

AtomicSpec == AtomicInit /\ [][AtomicNext]_atomicVars
=============================================================================
