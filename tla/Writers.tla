------------------------------ MODULE Writers ------------------------------
(***************************************************************************)
(* The code that changes a dataset: the ingest, derive, describe and       *)
(* forget tools of the MCP server (tools/ingest.py, derive.py, objects.py) *)
(* and the Flight server's do_put (data_plane/flight_server.py).           *)
(*                                                                         *)
(* A server replica runs one synchronous tool at a time; the Flight server *)
(* runs each upload in a thread of its own.  Every call to the catalog, to *)
(* Trino or to the registry is a step, and steps of different processes    *)
(* interleave.  Calls that only read, or are refused before they write,    *)
(* change no state and are left out; so is ensure_namespace, which is      *)
(* idempotent.                                                             *)
(***************************************************************************)
EXTENDS Registry, Catalog

CONSTANTS
    Server,     \* MCP server replicas
    Stream,     \* do_put handler threads of the Flight server
    Requests    \* bound: the <<tool, mode>> pairs clients use

Process == Server \cup Stream

Mode == {"create", "replace", "append"}

ASSUME ServersAndStreams == Server \cap Stream = {}
ASSUME RequestsAssumption ==
    Requests \subseteq ({"ingest", "put"} \X Mode)
                       \cup ({"derive"} \X {"create", "replace"})
                       \cup ({"describe", "forget"} \X {"none"})

VARIABLES
  \* The call each process is in: its program counter, arguments and locals.
  op,
  \* Number of the last call that writes data.
  calls

writerVars == <<op, calls>>

IdleOp == [pc |-> "idle", tool |-> "none", mode |-> "none", label |-> "none",
           call |-> 0, n |-> 0, base |-> NoTable, sql |-> {}, todo |-> {}, parents |-> {}]

WritersInit == op = [p \in Process |-> IdleOp] /\ calls = 0

At(p, pc) == op[p].pc = pc

Become(p, o) == op' = [op EXCEPT ![p] = o]

Goto(p, pc) == Become(p, [op[p] EXCEPT !.pc = pc])

\* The call returned or raised: nothing of it is left.
Finish(p) == Become(p, IdleOp)

\* MCP tools run on server replicas, uploads on Flight threads.
MayBegin(p, tool, mode) ==
    /\ At(p, "idle")
    /\ <<tool, mode>> \in Requests
    /\ (p \in Stream) <=> (tool = "put")

\* A call that writes data gets the next number.
BeginNumbered(p, start) ==
    /\ calls < MaxCalls
    /\ calls' = calls + 1
    /\ Become(p, [start EXCEPT !.call = calls + 1])

\* The version the call's next commit makes.
NextVersion(p, filled) == [by |-> op[p].call, n |-> op[p].n + 1, filled |-> filled]
-----------------------------------------------------------------------------
(***************************************************************************)
(* catalog.write_arrow: the write of ingest and of every do_put flush.     *)
(***************************************************************************)

\* Where the exists check leads.
WriteBranch(l) == IF l \in Present THEN "load" ELSE "create"

BeginWrite(p, tool) ==
    \E mode \in Mode, l \in Label :
        /\ MayBegin(p, tool, mode)
        /\ mode = "create" => l \notin Present        \* ObjectExistsError
        /\ BeginNumbered(p, [IdleOp EXCEPT !.pc = WriteBranch(l), !.tool = tool,
                                           !.mode = mode, !.label = l])
        /\ UNCHANGED <<registryVars, tables>>

BeginIngest(p) == BeginWrite(p, "ingest")

BeginPut(p) == BeginWrite(p, "put")

\* Mutant: a table just created is loaded and checked like one that was there.
CreateThenLoad(p) ==
    /\ At(p, "create")
    /\ LET l == op[p].label
       IN  IF l \in Present
           THEN Finish(p) /\ UNCHANGED tables
           ELSE /\ CreateTable(l, NextVersion(p, FALSE))
                /\ Become(p, [op[p] EXCEPT !.pc = "load", !.n = @ + 1])
    /\ UNCHANGED <<registryVars, calls>>

\* create_table; it raises when another writer created the table first.
WriteCreate(p) ==
    /\ At(p, "create")
    /\ LET l == op[p].label
       IN  IF l \in Present
           THEN Finish(p) /\ UNCHANGED tables
           ELSE /\ CreateTable(l, NextVersion(p, FALSE))
                /\ Become(p, [op[p] EXCEPT !.pc = "commit", !.n = @ + 1,
                                           !.base = NextVersion(p, FALSE)])
    /\ UNCHANGED <<registryVars, calls>>

\* load_table and the schema check, which may reject the batch.
WriteLoad(p) ==
    /\ At(p, "load")
    /\ \/ Finish(p)
       \/ /\ op[p].label \in Present
          /\ Become(p, [op[p] EXCEPT !.pc = "commit", !.base = tables[op[p].label]])
    /\ UNCHANGED <<registryVars, tables, calls>>

\* append or overwrite.  A commit built on a replaced, changed or dropped
\* version is refused.  A large upload goes on to flush in append mode.
WriteCommit(p) ==
    /\ At(p, "commit")
    /\ LET l == op[p].label
       IN  IF tables[l] # op[p].base
           THEN Finish(p) /\ UNCHANGED tables
           ELSE /\ CommitSnapshot(l, op[p].base, NextVersion(p, TRUE))
                /\ \/ Become(p, [op[p] EXCEPT !.pc = "record", !.n = @ + 1])
                   \/ /\ op[p].tool = "put"
                      /\ op[p].n + 3 <= MaxCommits
                      /\ Become(p, [op[p] EXCEPT !.pc = "flush", !.n = @ + 1, !.mode = "append"])
    /\ UNCHANGED <<registryVars, calls>>

\* The next flush calls write_arrow again, which looks again.
PutFlush(p) ==
    /\ At(p, "flush")
    /\ Goto(p, WriteBranch(op[p].label))
    /\ UNCHANGED <<registryVars, tables, calls>>
-----------------------------------------------------------------------------
(***************************************************************************)
(* derive_object.                                                          *)
(***************************************************************************)

BeginDerive(p) ==
    \E mode \in Mode, l \in Label, refs \in SUBSET Label :
        /\ MayBegin(p, "derive", mode)
        /\ mode = "create" => l \notin Present        \* ObjectExistsError
        /\ BeginNumbered(p, [IdleOp EXCEPT
               !.pc = IF mode = "replace" /\ l \in Present THEN "probe" ELSE "ctas",
               !.tool = "derive", !.mode = mode, !.label = l, !.sql = refs])
        /\ UNCHANGED <<registryVars, tables>>

\* _assert_replace_keeps_shape: load_schema, then the SELECT with no rows.
DeriveProbe(p) ==
    /\ At(p, "probe")
    /\ \/ Finish(p)
       \/ op[p].sql \cup {op[p].label} \subseteq Present /\ Goto(p, "ctas")
    /\ UNCHANGED <<registryVars, tables, calls>>

\* Trino runs the SELECT, so every table it names is there, and swaps or
\* creates the table.
CtasAccepted(p) ==
    /\ op[p].sql \subseteq Present
    /\ op[p].mode = "create" => op[p].label \notin Present

DeriveCtas(p) ==
    /\ At(p, "ctas")
    /\ IF CtasAccepted(p)
       THEN /\ SwapTable(op[p].label, NextVersion(p, TRUE))
            /\ Become(p, [op[p] EXCEPT !.pc = "parents", !.todo = op[p].sql])
       ELSE Finish(p) /\ UNCHANGED tables
    /\ UNCHANGED <<registryVars, calls>>

\* One table_exists for each referenced label.
DeriveParent(p) ==
    /\ At(p, "parents")
    /\ \E l \in op[p].todo :
           Become(p, [op[p] EXCEPT !.todo = @ \ {l},
                                   !.parents = @ \cup ({l} \cap Present)])
    /\ UNCHANGED <<registryVars, tables, calls>>
-----------------------------------------------------------------------------
(***************************************************************************)
(* The registry half of a write: record_object_guarded, then describe.     *)
(***************************************************************************)

SourceOf(tool) == CASE tool = "ingest" -> "inline"
                    [] tool = "derive" -> "derived"
                    [] tool = "put"    -> "stream"

RowOf(p) == [source |-> SourceOf(op[p].tool), by |-> op[p].call, sql |-> op[p].sql]

\* do_put passes no tags; a call's tags are known by its number.
TagsOf(p) == IF op[p].tool = "put" THEN {} ELSE {op[p].call}

\* Mutant: the row is recorded before the data is committed.
ReadyBeforeData(p) == At(p, "commit") \/ At(p, "record") \/ (At(p, "parents") /\ op[p].todo = {})

ReadyToRecord(p) == At(p, "record") \/ (At(p, "parents") /\ op[p].todo = {})

Record(p) ==
    /\ ReadyToRecord(p)
    /\ RecordObjectGuarded(op[p].label, RowOf(p), TagsOf(p),
                           op[p].tool = "derive", op[p].parents)
    /\ IF op[p].tool = "put" THEN Finish(p) ELSE Goto(p, "get")
    /\ UNCHANGED <<tables, calls>>

\* The registry is unreachable: False, and a metadata_pending response.
RecordPending(p) ==
    /\ ReadyToRecord(p)
    /\ Finish(p)
    /\ UNCHANGED <<registryVars, tables, calls>>

\* describe_object, alone or as the end of a write.  With a row in hand the
\* rest of it only reads.
BeginDescribe(p) ==
    \E l \in Label :
        /\ MayBegin(p, "describe", "none")
        /\ l \notin Registered
        /\ Become(p, [IdleOp EXCEPT !.pc = "exists", !.tool = "describe", !.label = l])
        /\ UNCHANGED <<registryVars, tables, calls>>

DescribeGet(p) ==
    /\ At(p, "get")
    /\ IF op[p].label \in Registered THEN Finish(p) ELSE Goto(p, "exists")
    /\ UNCHANGED <<registryVars, tables, calls>>

\* _read_repair: the table is looked up ...
RepairExists(p) ==
    /\ At(p, "exists")
    /\ IF op[p].label \in Present THEN Goto(p, "repair") ELSE Finish(p)
    /\ UNCHANGED <<registryVars, tables, calls>>

\* ... and a row is upserted for it.
RepairRecord(p) ==
    /\ At(p, "repair")
    /\ RecordObject(op[p].label, ReconciledRow, {})
    /\ Finish(p)
    /\ UNCHANGED <<tables, calls>>
-----------------------------------------------------------------------------
(***************************************************************************)
(* drop_object.  A label without a table is refused, so the first step is  *)
(* the drop itself.                                                        *)
(***************************************************************************)

BeginForget(p) ==
    \E l \in Label :
        /\ MayBegin(p, "forget", "none")
        /\ DropTable(l)
        /\ Become(p, [IdleOp EXCEPT !.pc = "unregister", !.tool = "forget", !.label = l])
        /\ UNCHANGED <<registryVars, calls>>

ForgetUnregister(p) ==
    /\ At(p, "unregister")
    /\ DeleteObject(op[p].label)
    /\ Finish(p)
    /\ UNCHANGED <<tables, calls>>
-----------------------------------------------------------------------------
\* An exception or the death of the process between two steps of a call.
Die(p) ==
    /\ ~At(p, "idle")
    /\ Finish(p)
    /\ UNCHANGED <<registryVars, tables, calls>>

BeginStep(p) == BeginIngest(p) \/ BeginPut(p) \/ BeginDerive(p)
                  \/ BeginDescribe(p) \/ BeginForget(p)

\* A step of a call under way: the steps a running process takes.
CallStep(p) ==
    \/ WriteCreate(p) \/ WriteLoad(p) \/ WriteCommit(p) \/ PutFlush(p)
    \/ DeriveProbe(p) \/ DeriveCtas(p) \/ DeriveParent(p)
    \/ Record(p)
    \/ DescribeGet(p) \/ RepairExists(p) \/ RepairRecord(p)
    \/ ForgetUnregister(p)

WriterFault(p) == RecordPending(p) \/ Die(p)

Pc == {"idle", "create", "load", "commit", "flush", "probe", "ctas", "parents", "record",
       "get", "exists", "repair", "unregister"}

Op == [pc : Pc,
       tool : {"none", "ingest", "put", "derive", "describe", "forget"},
       mode : Mode \cup {"none"},
       label : Label \cup {"none"},
       call : 0 .. MaxCalls,
       n : 0 .. MaxCommits,
       base : Version \cup {NoTable},
       sql : SUBSET Label,
       todo : SUBSET Label,
       parents : SUBSET Label]

WriterTypeOK ==
    /\ tables \in [Label -> Version \cup {NoTable}]
    /\ calls \in 0 .. MaxCalls
    /\ op \in [Process -> Op]
=============================================================================
