------------------------------ MODULE Scratch ------------------------------
(***************************************************************************)
(* Writing a scratch dataset: _ingest_to_scratch (tools/ingest.py) and     *)
(* _derive_to_scratch (tools/derive.py) over core/scratch.py, statement by *)
(* statement, since Trino commits each by itself.  The module follows one  *)
(* tenant and one label, which is what calls contend for; the scratchpad   *)
(* has no registry row and nothing repairs it.                             *)
(***************************************************************************)
EXTENDS Integers, FiniteSets

CONSTANTS
    Call,        \* calls that write the label, each on a replica of its own
    MaxFaults    \* bound: calls that are cut off

ASSUME MaxFaultsAssumption == MaxFaults \in Nat

VARIABLES
  catalogMode,   \* settings.scratch_catalog_mode
  hasCatalog,    \* Trino knows the tenant's scratch catalog
  hasSchema,     \* and the catalog has the tenant's schema
  table,         \* the number of the CTAS that made the table, 0 if there is none
  made,          \* CREATE TABLEs that succeeded so far
  calls          \* each call: where it is, what it made and what it described; alone
                 \* remembers that no other call was under way at any of its steps

scratchVars == <<catalogMode, hasCatalog, hasSchema, table, made, calls>>

NotCalled == [pc |-> "new", tool |-> "none", mode |-> "none", alone |-> TRUE, made |-> 0,
              described |-> 0, counted |-> 0]

\* The shared catalog is configured in Trino; a tenant's own is not there yet.
ScratchInit ==
    /\ catalogMode \in {"shared", "per_tenant"}
    /\ hasCatalog = (catalogMode = "shared") /\ hasSchema = FALSE
    /\ table = 0 /\ made = 0
    /\ calls = [c \in Call |-> NotCalled]

Goto(c, pc) == calls' = [calls EXCEPT ![c].pc = pc]

\* A derive looks whether the table exists, an ingest only if it must not.
Looks(tool, mode) == tool = "derive" \/ mode = "create"

\* ensure: the catalog, for a tenant of its own, and the schema.
FirstEnsured == IF catalogMode = "per_tenant" THEN "catalog" ELSE "schema"

Over == {"done", "refused", "failed", "cut off", "cut off between drop and create"}

UnderWay == {c \in Call : calls[c].pc \notin Over \cup {"new"}}

BeginScratch(c) ==
    \E tool \in {"ingest", "derive"}, mode \in {"create", "replace"} :
        /\ calls[c].pc = "new"
        /\ calls' = [o \in Call |->
               CASE o = c -> [NotCalled EXCEPT
                                  !.pc = IF Looks(tool, mode) THEN "look" ELSE FirstEnsured,
                                  !.tool = tool, !.mode = mode, !.alone = UnderWay = {}]
                 [] OTHER -> [calls[o] EXCEPT !.alone = @ /\ o \notin UnderWay]]
        /\ UNCHANGED <<catalogMode, hasCatalog, hasSchema, table, made>>

\* table_exists asks the catalog's information_schema: Trino fails without the
\* catalog, and finds nothing without the schema.
LookScratch(c) ==
    /\ calls[c].pc = "look"
    /\ Goto(c, IF ~hasCatalog THEN "failed"
               ELSE IF calls[c].mode = "create" /\ table # 0 THEN "refused"
               ELSE FirstEnsured)
    /\ UNCHANGED <<catalogMode, hasCatalog, hasSchema, table, made>>

\* CREATE CATALOG IF NOT EXISTS
EnsureCatalog(c) ==
    /\ calls[c].pc = "catalog"
    /\ hasCatalog' = TRUE
    /\ Goto(c, "schema")
    /\ UNCHANGED <<catalogMode, hasSchema, table, made>>

\* Mutant: a replace does not drop first.
AfterSchemaAlwaysCreate(mode) == "create"

AfterSchema(mode) == IF mode = "replace" THEN "drop" ELSE "create"

\* CREATE SCHEMA IF NOT EXISTS
EnsureSchema(c) ==
    /\ calls[c].pc = "schema"
    /\ hasSchema' = TRUE
    /\ Goto(c, AfterSchema(calls[c].mode))
    /\ UNCHANGED <<catalogMode, hasCatalog, table, made>>

\* DROP TABLE IF EXISTS
DropScratch(c) ==
    /\ calls[c].pc = "drop"
    /\ table' = 0
    /\ Goto(c, "create")
    /\ UNCHANGED <<catalogMode, hasCatalog, hasSchema, made>>

\* Mutants: CREATE TABLE IF NOT EXISTS; a create that fails cleans up.
CreateIfNotExists(c) ==
    /\ calls[c].pc = "create"
    /\ IF table = 0 /\ hasSchema
       THEN /\ made' = made + 1 /\ table' = made + 1
            /\ calls' = [calls EXCEPT ![c].pc = "describe", ![c].made = made + 1]
       ELSE Goto(c, "describe") /\ UNCHANGED <<table, made>>
    /\ UNCHANGED <<catalogMode, hasCatalog, hasSchema>>
CreateOrCleanUp(c) ==
    /\ calls[c].pc = "create"
    /\ IF table = 0 /\ hasSchema
       THEN /\ made' = made + 1 /\ table' = made + 1
            /\ calls' = [calls EXCEPT ![c].pc = "describe", ![c].made = made + 1]
       ELSE Goto(c, "failed") /\ table' = 0 /\ UNCHANGED made
    /\ UNCHANGED <<catalogMode, hasCatalog, hasSchema>>

\* CREATE TABLE AS, all or nothing, fails if the table exists.
CreateScratch(c) ==
    /\ calls[c].pc = "create"
    /\ IF table = 0 /\ hasSchema
       THEN /\ made' = made + 1 /\ table' = made + 1
            /\ calls' = [calls EXCEPT ![c].pc = "describe", ![c].made = made + 1]
       ELSE Goto(c, "failed") /\ UNCHANGED <<table, made>>
    /\ UNCHANGED <<catalogMode, hasCatalog, hasSchema>>

\* describe: DESCRIBE the columns, then count the rows.
DescribeScratch(c) ==
    /\ calls[c].pc = "describe"
    /\ calls' = [calls EXCEPT ![c].pc = IF table = 0 THEN "failed" ELSE "count",
                              ![c].described = table]
    /\ UNCHANGED <<catalogMode, hasCatalog, hasSchema, table, made>>

CountScratch(c) ==
    /\ calls[c].pc = "count"
    /\ calls' = [calls EXCEPT ![c].pc = IF table = 0 THEN "failed" ELSE "done",
                              ![c].counted = table]
    /\ UNCHANGED <<catalogMode, hasCatalog, hasSchema, table, made>>

\* A statement raises (the SELECT of a derive may), its answer is lost, or the
\* replica dies.
CutOff(c) ==
    /\ c \in UnderWay
    /\ Cardinality({o \in Call : calls[o].pc \in {"cut off", "cut off between drop and create"}})
           < MaxFaults
    /\ Goto(c, IF calls[c].pc = "create" /\ calls[c].mode = "replace"
               THEN "cut off between drop and create" ELSE "cut off")
    /\ UNCHANGED <<catalogMode, hasCatalog, hasSchema, table, made>>

ScratchNext ==
    \E c \in Call :
        \/ BeginScratch(c) \/ LookScratch(c) \/ EnsureCatalog(c) \/ EnsureSchema(c)
        \/ DropScratch(c) \/ CreateScratch(c) \/ DescribeScratch(c) \/ CountScratch(c)
        \/ CutOff(c)

ScratchSpec == ScratchInit /\ [][ScratchNext]_scratchVars
-----------------------------------------------------------------------------
\* "The (small) non-atomic window" is all that loses a scratch table: one that
\* was ever made is missing only while a replace stands between its drop and
\* its create, or was cut off there.  A call that loses a race leaves what the
\* winner made.
OnlyTheWindowLoses ==
    made > 0 /\ table = 0 =>
        \E c \in Call : /\ calls[c].mode = "replace"
                        /\ calls[c].pc \in {"create", "cut off between drop and create"}

\* A call that returns has made a table, and describes that one or a later
\* one; its row count may be of a later one than its columns, never the
\* reverse.
ReturnedIsNotStale ==
    \A c \in Call :
        calls[c].pc = "done" =>
            0 < calls[c].made /\ calls[c].made <= calls[c].described
                              /\ calls[c].described <= calls[c].counted

\* Calls that race may fail, yet once all are over, if none was cut off and any
\* made a table, then a table is left, and the call that made it has returned
\* and described it.
SomebodyWins ==
    made > 0 /\ (\A c \in Call : calls[c].pc \in {"new", "done", "refused", "failed"}) =>
        \E c \in Call : /\ calls[c].pc = "done"
                        /\ calls[c].made = table /\ calls[c].counted = table

\* A call that no other overlaps does what it was asked, in the shared catalog
\* and wherever nothing is looked up first: a replace replaces, whatever there
\* was, and a create is refused only over a table.
AloneSucceeds ==
    \A c \in Call :
        calls[c].alone /\ (catalogMode = "shared" \/ ~Looks(calls[c].tool, calls[c].mode)) =>
            /\ calls[c].pc # "failed"
            /\ calls[c].pc = "refused" => calls[c].mode = "create"

\* "A `scratch_<tenant>` catalog created on demand": a call that no other
\* overlaps does not fail for want of a catalog.
CreatedOnDemand == \A c \in Call : calls[c].alone => calls[c].pc # "failed"
=============================================================================
