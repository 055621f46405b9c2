------------------------------ MODULE Catalog ------------------------------
(***************************************************************************)
(* The Iceberg catalog as memcove uses it: through PyIceberg               *)
(* (core/catalog.py) and through Trino (core/trino_client.py, the CTAS of  *)
(* tools/derive.py).  Each operator is one catalog commit.                 *)
(***************************************************************************)
EXTENDS Calls

CONSTANT MaxCommits   \* bound: commits one call makes

ASSUME MaxCommitsAssumption == MaxCommits \in Nat /\ MaxCommits >= 2

VARIABLE
  \* The current version of each table.  A version is named by the call that
  \* committed it and the how-manieth commit of that call it was, so no two
  \* commits share a name, across drops and recreations too.  A table that was
  \* created but not yet written to is not filled.
  tables

Version == [by : Call, n : 1 .. MaxCommits, filled : BOOLEAN]

NoTable == [by |-> 0, n |-> 0, filled |-> FALSE]

Present == {l \in Label : tables[l] # NoTable}

\* create_table: exclusive.
CreateTable(l, new) ==
    /\ l \notin Present
    /\ tables' = [tables EXCEPT ![l] = new]

\* append and overwrite: the commit asserts the version it was built on.
CommitSnapshot(l, base, new) ==
    /\ tables[l] = base
    /\ tables' = [tables EXCEPT ![l] = new]

\* Trino's CREATE [OR REPLACE] TABLE AS: one commit, whatever was there.
SwapTable(l, new) == tables' = [tables EXCEPT ![l] = new]

DropTable(l) ==
    /\ l \in Present
    /\ tables' = [tables EXCEPT ![l] = NoTable]
=============================================================================
