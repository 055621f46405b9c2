---------------------------- MODULE DriftProofs ----------------------------
(***************************************************************************)
(* Type correctness of Drift, and the shape of a call under way that the   *)
(* other proofs about Drift need.                                          *)
(***************************************************************************)
EXTENDS Drift, TLAPS

WritePc == {"create", "load", "commit", "flush", "probe", "ctas", "parents", "record"}

\* A call under way has a label; one that writes has a number, a tool that
\* writes, and room for the commits it has yet to make.
CallShape(o) ==
    /\ o.pc # "idle" => o.label \in Label
    /\ o.pc \in WritePc => o.call \in Call /\ o.tool \in {"ingest", "put", "derive"}
    /\ o.pc \in {"create", "load", "flush"} => o.n + 2 <= MaxCommits
    /\ o.pc = "commit" => o.n + 1 <= MaxCommits
    /\ o.pc \in {"probe", "ctas"} => o.n = 0

OpShape == \A p \in Process : CallShape(op[p])

USE DEF MaxCallsAssumption, MaxCommitsAssumption, GraceAssumption, FaultsAssumption

\* A process that becomes a well-shaped call leaves every call well shaped.
LEMMA BecomeShapes ==
    ASSUME WriterTypeOK, OpShape, NEW p \in Process, NEW o \in Op, CallShape(o), Become(p, o)
    PROVE  op' \in [Process -> Op] /\ OpShape'
PROOF
  BY DEF WriterTypeOK, OpShape, Become, CallShape

\* A process between calls is a well-shaped call.
LEMMA IdleShape == IdleOp \in Op /\ CallShape(IdleOp)
PROOF
  BY MaxCallsAssumption, MaxCommitsAssumption
  DEF IdleOp, Op, Pc, Mode, CallShape, WritePc, NoTable, Version

\* A call that returns or raises leaves every call well shaped.
LEMMA FinishShapes ==
    ASSUME WriterTypeOK, OpShape, NEW p \in Process, Finish(p)
    PROVE  op' \in [Process -> Op] /\ OpShape'
PROOF
  BY BecomeShapes, IdleShape DEF Finish

\* So does a call that only moves on, if the place it moves to has no
\* needs of its own beyond those it met already.
LEMMA GotoShapes ==
    ASSUME WriterTypeOK, OpShape, NEW p \in Process, NEW pc \in Pc, Goto(p, pc),
           CallShape([op[p] EXCEPT !.pc = pc])
    PROVE  op' \in [Process -> Op] /\ OpShape'
PROOF
  <1>1. [op[p] EXCEPT !.pc = pc] \in Op
    BY DEF WriterTypeOK, Op
  <1> QED BY <1>1, BecomeShapes DEF Goto
-----------------------------------------------------------------------------
(***************************************************************************)
(* Every registry function keeps the types of the registry.                *)
(***************************************************************************)

\* _upsert_object keeps the types of the rows and the tags.
LEMMA UpsertType ==
    ASSUME RegistryTypeOK, NEW l, NEW row \in Row, NEW ts \in SUBSET Call,
           UpsertObject(l, row, ts)
    PROVE  /\ objects' \in [Label -> Row \cup {NoRow}]
           /\ tags' \in [Label -> SUBSET Call]
PROOF
  BY DEF RegistryTypeOK, UpsertObject

\* So does record_object, as the repairs call it.
LEMMA RecordObjectType ==
    ASSUME RegistryTypeOK, NEW l, RecordObject(l, ReconciledRow, {})
    PROVE  RegistryTypeOK'
PROOF
  <1>1. ReconciledRow \in Row
    BY MaxCallsAssumption DEF ReconciledRow, Row, SourceKind
  <1> QED BY <1>1, UpsertType DEF RecordObject, RegistryTypeOK

\* delete_object keeps the types of the registry.
LEMMA DeleteObjectType ==
    ASSUME RegistryTypeOK, NEW l, DeleteObject(l)
    PROVE  RegistryTypeOK'
PROOF
  BY DEF RegistryTypeOK, DeleteObject

\* So do bump_tombstone and clear_tombstone.
LEMMA TombstoneType ==
    ASSUME RegistryTypeOK, NEW l \in Label, BumpTombstone(l) \/ ClearTombstone(l)
    PROVE  RegistryTypeOK'
PROOF
  <1>1. tombstones' \in [Label -> Nat]
    BY DEF RegistryTypeOK, BumpTombstone, ClearTombstone
  <1> QED BY <1>1 DEF RegistryTypeOK, BumpTombstone, ClearTombstone
-----------------------------------------------------------------------------
(***************************************************************************)
(* Every step of a call keeps the types of the stores and of the calls.    *)
(***************************************************************************)

StoresOK == RegistryTypeOK /\ WriterTypeOK /\ OpShape

\* Ingest and upload begin well shaped.
LEMMA BeginWriteType ==
    ASSUME StoresOK, NEW p \in Process, NEW tool \in {"ingest", "put"}, BeginWrite(p, tool)
    PROVE  StoresOK'
PROOF
  <1>1. PICK mode \in Mode, l \in Label :
           BeginNumbered(p, [IdleOp EXCEPT !.pc = WriteBranch(l), !.tool = tool,
                                           !.mode = mode, !.label = l])
    BY DEF BeginWrite
  <1> DEFINE o == [[IdleOp EXCEPT !.pc = WriteBranch(l), !.tool = tool,
                                  !.mode = mode, !.label = l] EXCEPT !.call = calls + 1]
  <1>2. calls + 1 \in Call /\ calls' \in 0 .. MaxCalls
    BY <1>1, MaxCallsAssumption DEF StoresOK, WriterTypeOK, BeginNumbered, Call
  <1>3. o \in Op
    <2>1. calls + 1 \in 0 .. MaxCalls /\ WriteBranch(l) \in Pc
      BY <1>2, MaxCallsAssumption DEF Call, Pc, WriteBranch
    <2> QED BY <2>1, IdleShape DEF Op
  <1>4. CallShape(o)
    <2>1. /\ o.pc \in {"load", "create"} /\ o.n = 0
          /\ o.call = calls + 1 /\ o.tool = tool /\ o.label = l
      BY DEF IdleOp, WriteBranch
    <2> QED BY <1>2, <2>1, MaxCommitsAssumption DEF CallShape, WritePc
  <1>5. Become(p, o)
    BY <1>1 DEF BeginNumbered
  <1>6. UNCHANGED <<registryVars, tables>>
    BY DEF BeginWrite
  <1> QED
    BY <1>2, <1>3, <1>4, <1>5, <1>6, BecomeShapes
    DEF StoresOK, WriterTypeOK, RegistryTypeOK, registryVars

\* write_arrow's create_table keeps types and shapes.
LEMMA WriteCreateType ==
    ASSUME StoresOK, NEW p \in Process, WriteCreate(p)
    PROVE  StoresOK'
PROOF
  <1> USE DEF StoresOK
  <1>0. RegistryTypeOK' /\ calls' = calls
    BY DEF WriteCreate, RegistryTypeOK, registryVars
  <1>1. CASE op[p].label \in Present
    BY <1>0, <1>1, FinishShapes DEF WriteCreate, WriterTypeOK
  <1>2. CASE op[p].label \notin Present
    <2> DEFINE new == NextVersion(p, FALSE)
               o == [op[p] EXCEPT !.pc = "commit", !.n = @ + 1, !.base = new]
    <2>1. op[p] \in Op /\ CallShape(op[p]) /\ op[p].pc = "create"
      BY DEF WriterTypeOK, OpShape, WriteCreate, At
    <2>2. new \in Version
      BY <2>1, MaxCommitsAssumption DEF NextVersion, Version, Op, CallShape, WritePc
    <2>3. o.n \in 0 .. MaxCommits /\ o.n + 1 <= MaxCommits
      BY <2>1, MaxCommitsAssumption DEF Op, CallShape
    <2>4. o \in Op
      BY <2>1, <2>2, <2>3 DEF Op, Pc
    <2>5. CallShape(o)
      BY <2>1, <2>3 DEF Op, Pc, CallShape, WritePc
    <2>6. Become(p, o)
      BY <1>2 DEF WriteCreate
    <2>7. tables' \in [Label -> Version \cup {NoTable}]
      BY <1>2, <2>2 DEF WriteCreate, CreateTable, WriterTypeOK
    <2> QED BY <1>0, <2>4, <2>5, <2>6, <2>7, BecomeShapes DEF WriterTypeOK
  <1> QED BY <1>1, <1>2

\* write_arrow's load and schema check keep types and shapes.
LEMMA WriteLoadType ==
    ASSUME StoresOK, NEW p \in Process, WriteLoad(p)
    PROVE  StoresOK'
PROOF
  <1> USE DEF StoresOK
  <1>0. RegistryTypeOK' /\ tables' = tables /\ calls' = calls
    BY DEF WriteLoad, RegistryTypeOK, registryVars
  <1>1. CASE Finish(p)
    BY <1>0, <1>1, FinishShapes DEF WriterTypeOK
  <1>2. CASE ~Finish(p)
    <2> DEFINE o == [op[p] EXCEPT !.pc = "commit", !.base = tables[op[p].label]]
    <2>1. op[p] \in Op /\ CallShape(op[p]) /\ op[p].pc = "load"
      BY DEF WriterTypeOK, OpShape, WriteLoad, At
    <2>2. op[p].label \in Present /\ Become(p, o)
      BY <1>2 DEF WriteLoad
    <2>3. tables[op[p].label] \in Version \cup {NoTable}
      BY <2>2 DEF WriterTypeOK, Present
    <2>4. o \in Op
      BY <2>1, <2>3 DEF Op, Pc
    <2>5. CallShape(o)
      BY <2>1, MaxCommitsAssumption DEF Op, Pc, CallShape, WritePc
    <2> QED BY <1>0, <2>2, <2>4, <2>5, BecomeShapes DEF WriterTypeOK
  <1> QED BY <1>1, <1>2

\* write_arrow's append or overwrite keeps types and shapes: the
\* numbers of a call's commits stay within MaxCommits.
LEMMA WriteCommitType ==
    ASSUME StoresOK, NEW p \in Process, WriteCommit(p)
    PROVE  StoresOK'
PROOF
  <1> USE DEF StoresOK
  <1> DEFINE l == op[p].label
             new == NextVersion(p, TRUE)
             last == [op[p] EXCEPT !.pc = "record", !.n = @ + 1]
             more == [op[p] EXCEPT !.pc = "flush", !.n = @ + 1, !.mode = "append"]
  <1>0. RegistryTypeOK' /\ calls' = calls
    BY DEF WriteCommit, RegistryTypeOK, registryVars
  <1>1. op[p] \in Op /\ CallShape(op[p]) /\ op[p].pc = "commit"
    BY DEF WriterTypeOK, OpShape, WriteCommit, At
  <1>2. CASE tables[l] # op[p].base
    BY <1>0, <1>2, FinishShapes DEF WriteCommit, WriterTypeOK
  <1>3. CASE tables[l] = op[p].base
    <2>1. new \in Version
      BY <1>1, MaxCommitsAssumption DEF NextVersion, Version, Op, CallShape, WritePc
    <2>2. tables' \in [Label -> Version \cup {NoTable}]
      BY <1>3, <2>1 DEF WriteCommit, CommitSnapshot, WriterTypeOK
    <2>3. op[p].n + 1 \in 0 .. MaxCommits
      BY <1>1, MaxCommitsAssumption DEF Op, CallShape
    <2>4. CASE Become(p, last)
      <3>1. last \in Op
        BY <1>1, <2>3 DEF Op, Pc
      <3>2. CallShape(last)
        BY <1>1 DEF Op, CallShape, WritePc
      <3> QED BY <1>0, <2>2, <2>4, <3>1, <3>2, BecomeShapes DEF WriterTypeOK
    <2>5. CASE Become(p, more) /\ op[p].n + 3 <= MaxCommits
      <3>1. more \in Op
        BY <1>1, <2>3 DEF Op, Pc, Mode
      <3>2. more.n + 2 <= MaxCommits
        BY <1>1, <2>5, MaxCommitsAssumption DEF Op
      <3>3. CallShape(more)
        BY <1>1, <3>2 DEF Op, CallShape, WritePc
      <3> QED BY <1>0, <2>2, <2>5, <3>1, <3>3, BecomeShapes DEF WriterTypeOK
    <2> QED BY <1>3, <2>4, <2>5 DEF WriteCommit
  <1> QED BY <1>2, <1>3

\* Another flush of an upload starts with room for its commits.
LEMMA PutFlushType ==
    ASSUME StoresOK, NEW p \in Process, PutFlush(p)
    PROVE  StoresOK'
PROOF
  <1> USE DEF StoresOK
  <1> DEFINE pc == WriteBranch(op[p].label)
  <1>1. RegistryTypeOK' /\ tables' = tables /\ calls' = calls /\ Goto(p, pc)
    BY DEF PutFlush, RegistryTypeOK, registryVars
  <1>2. op[p] \in Op /\ CallShape(op[p]) /\ op[p].pc = "flush"
    BY DEF WriterTypeOK, OpShape, PutFlush, At
  <1>3. pc \in {"load", "create"}
    BY DEF WriteBranch
  <1>4. CallShape([op[p] EXCEPT !.pc = pc])
    BY <1>2, <1>3 DEF CallShape, Op, WritePc
  <1>5. pc \in Pc
    BY <1>3 DEF Pc
  <1> QED BY <1>1, <1>4, <1>5, GotoShapes DEF WriterTypeOK

\* A derive begins well shaped.
LEMMA BeginDeriveType ==
    ASSUME StoresOK, NEW p \in Process, BeginDerive(p)
    PROVE  StoresOK'
PROOF
  <1>1. PICK mode \in Mode, l \in Label, refs \in SUBSET Label :
           BeginNumbered(p, [IdleOp EXCEPT
               !.pc = IF mode = "replace" /\ l \in Present THEN "probe" ELSE "ctas",
               !.tool = "derive", !.mode = mode, !.label = l, !.sql = refs])
    BY DEF BeginDerive
  <1> DEFINE o == [[IdleOp EXCEPT
               !.pc = IF mode = "replace" /\ l \in Present THEN "probe" ELSE "ctas",
               !.tool = "derive", !.mode = mode, !.label = l, !.sql = refs]
                     EXCEPT !.call = calls + 1]
  <1>2. calls + 1 \in Call /\ calls' \in 0 .. MaxCalls
    BY <1>1, MaxCallsAssumption DEF StoresOK, WriterTypeOK, BeginNumbered, Call
  <1>3. o \in Op
    <2>1. calls + 1 \in 0 .. MaxCalls /\ {"probe", "ctas"} \subseteq Pc
      BY <1>2, MaxCallsAssumption DEF Call, Pc
    <2> QED BY <2>1, IdleShape DEF Op
  <1>4. CallShape(o)
    <2>1. /\ o.pc \in {"probe", "ctas"} /\ o.n = 0
          /\ o.call = calls + 1 /\ o.tool = "derive" /\ o.label = l
      BY DEF IdleOp
    <2> QED BY <1>2, <2>1 DEF CallShape, WritePc
  <1>5. Become(p, o)
    BY <1>1 DEF BeginNumbered
  <1>6. UNCHANGED <<registryVars, tables>>
    BY DEF BeginDerive
  <1> QED
    BY <1>2, <1>3, <1>4, <1>5, <1>6, BecomeShapes
    DEF StoresOK, WriterTypeOK, RegistryTypeOK, registryVars

\* The shape probe of a derive keeps types and shapes.
LEMMA DeriveProbeType ==
    ASSUME StoresOK, NEW p \in Process, DeriveProbe(p)
    PROVE  StoresOK'
PROOF
  <1> USE DEF StoresOK
  <1>0. RegistryTypeOK' /\ tables' = tables /\ calls' = calls
    BY DEF DeriveProbe, RegistryTypeOK, registryVars
  <1>1. CASE Finish(p)
    BY <1>0, <1>1, FinishShapes DEF WriterTypeOK
  <1>2. CASE Goto(p, "ctas")
    <2>1. op[p] \in Op /\ CallShape(op[p]) /\ op[p].pc = "probe"
      BY DEF WriterTypeOK, OpShape, DeriveProbe, At
    <2>2. CallShape([op[p] EXCEPT !.pc = "ctas"])
      BY <2>1 DEF CallShape, Op, WritePc
    <2>3. "ctas" \in Pc
      BY DEF Pc
    <2> QED BY <1>0, <1>2, <2>2, <2>3, GotoShapes DEF WriterTypeOK
  <1> QED BY <1>1, <1>2 DEF DeriveProbe

\* The CTAS of a derive keeps types and shapes.
LEMMA DeriveCtasType ==
    ASSUME StoresOK, NEW p \in Process, DeriveCtas(p)
    PROVE  StoresOK'
PROOF
  <1> USE DEF StoresOK
  <1> DEFINE new == NextVersion(p, TRUE)
             o == [op[p] EXCEPT !.pc = "parents", !.todo = op[p].sql]
  <1>0. RegistryTypeOK' /\ calls' = calls
    BY DEF DeriveCtas, RegistryTypeOK, registryVars
  <1>1. op[p] \in Op /\ CallShape(op[p]) /\ op[p].pc = "ctas"
    BY DEF WriterTypeOK, OpShape, DeriveCtas, At
  <1>2. CASE ~CtasAccepted(p)
    BY <1>0, <1>2, FinishShapes DEF DeriveCtas, WriterTypeOK
  <1>3. CASE CtasAccepted(p)
    <2>1. new \in Version
      BY <1>1, MaxCommitsAssumption DEF NextVersion, Version, Op, CallShape, WritePc
    <2>2. tables' \in [Label -> Version \cup {NoTable}]
      BY <1>3, <2>1 DEF DeriveCtas, SwapTable, WriterTypeOK
    <2>3. o \in Op
      BY <1>1 DEF Op, Pc
    <2>4. CallShape(o)
      BY <1>1 DEF Op, CallShape, WritePc
    <2>5. Become(p, o)
      BY <1>3 DEF DeriveCtas
    <2> QED BY <1>0, <2>2, <2>3, <2>4, <2>5, BecomeShapes DEF WriterTypeOK
  <1> QED BY <1>2, <1>3

\* Resolving a parent keeps types and shapes.
LEMMA DeriveParentType ==
    ASSUME StoresOK, NEW p \in Process, DeriveParent(p)
    PROVE  StoresOK'
PROOF
  <1> USE DEF StoresOK
  <1>0. RegistryTypeOK' /\ tables' = tables /\ calls' = calls
    BY DEF DeriveParent, RegistryTypeOK, registryVars
  <1>1. op[p] \in Op /\ CallShape(op[p]) /\ op[p].pc = "parents"
    BY DEF WriterTypeOK, OpShape, DeriveParent, At
  <1>2. PICK l \in op[p].todo :
           Become(p, [op[p] EXCEPT !.todo = @ \ {l},
                                   !.parents = @ \cup ({l} \cap Present)])
    BY DEF DeriveParent
  <1> DEFINE o == [op[p] EXCEPT !.todo = @ \ {l}, !.parents = @ \cup ({l} \cap Present)]
  <1>3. o \in Op
    BY <1>1 DEF Op, Pc, Present
  <1>4. CallShape(o)
    BY <1>1 DEF Op, CallShape, WritePc
  <1> QED BY <1>0, <1>2, <1>3, <1>4, BecomeShapes DEF WriterTypeOK

\* Recording a write puts a row of a known source in the registry.
LEMMA RecordType ==
    ASSUME StoresOK, NEW p \in Process, Record(p)
    PROVE  StoresOK'
PROOF
  <1> USE DEF StoresOK
  <1>0. tables' = tables /\ calls' = calls
    BY DEF Record
  <1>1. op[p] \in Op /\ CallShape(op[p]) /\ op[p].pc \in {"parents", "record"}
    BY DEF WriterTypeOK, OpShape, Record, ReadyToRecord, At
  <1>2. op[p].call \in Call /\ op[p].tool \in {"ingest", "put", "derive"}
    BY <1>1 DEF CallShape, WritePc
  <1>3. RowOf(p) \in Row
    <2>1. SourceOf(op[p].tool) \in SourceKind
      BY <1>2 DEF SourceOf, SourceKind
    <2>2. op[p].call \in 0 .. MaxCalls /\ op[p].sql \in SUBSET Label
      BY <1>1 DEF Op
    <2> QED BY <2>1, <2>2 DEF RowOf, Row
  <1>4. TagsOf(p) \in SUBSET Call /\ op[p].parents \in SUBSET Label
    BY <1>1, <1>2 DEF TagsOf, Op
  <1>5. RegistryTypeOK'
    <2>1. /\ UpsertObject(op[p].label, RowOf(p), TagsOf(p))
          /\ tombstones' = tombstones
          /\ SetLineage(op[p].label, op[p].parents) \/ lineage' = lineage
      BY DEF Record, RecordObjectGuarded
    <2>2. lineage' \in [Label -> SUBSET Label]
      BY <1>4, <2>1 DEF SetLineage, RegistryTypeOK
    <2> QED BY <1>3, <1>4, <2>1, <2>2, UpsertType DEF RegistryTypeOK
  <1>6. CASE Finish(p)
    BY <1>0, <1>5, <1>6, FinishShapes DEF WriterTypeOK
  <1>7. CASE Goto(p, "get")
    <2>1. CallShape([op[p] EXCEPT !.pc = "get"])
      BY <1>1 DEF CallShape, Op, WritePc
    <2>2. "get" \in Pc
      BY DEF Pc
    <2> QED BY <1>0, <1>5, <1>7, <2>1, <2>2, GotoShapes DEF WriterTypeOK
  <1> QED BY <1>6, <1>7 DEF Record

\* The lookups of describe keep types and shapes.
LEMMA DescribeType ==
    ASSUME StoresOK, NEW p \in Process, DescribeGet(p) \/ RepairExists(p)
    PROVE  StoresOK'
PROOF
  <1> USE DEF StoresOK
  <1>0. RegistryTypeOK' /\ tables' = tables /\ calls' = calls
    BY DEF DescribeGet, RepairExists, RegistryTypeOK, registryVars
  <1>1. op[p] \in Op /\ CallShape(op[p]) /\ op[p].pc \in {"get", "exists"}
    BY DEF WriterTypeOK, OpShape, DescribeGet, RepairExists, At
  <1>2. CASE Finish(p)
    BY <1>0, <1>2, FinishShapes DEF WriterTypeOK
  <1>3. ASSUME NEW pc \in {"exists", "repair"}, Goto(p, pc)
        PROVE  StoresOK'
    <2>1. CallShape([op[p] EXCEPT !.pc = pc])
      BY <1>1 DEF CallShape, Op, WritePc
    <2>2. pc \in Pc
      BY DEF Pc
    <2> QED BY <1>0, <1>3, <2>1, <2>2, GotoShapes DEF WriterTypeOK
  <1> QED BY <1>2, <1>3 DEF DescribeGet, RepairExists

\* The steps that end a call keep types and shapes.
LEMMA EndingType ==
    ASSUME StoresOK, NEW p \in Process,
           RepairRecord(p) \/ ForgetUnregister(p) \/ WriterFault(p)
    PROVE  StoresOK'
PROOF
  <1> USE DEF StoresOK
  <1>1. Finish(p) /\ tables' = tables /\ calls' = calls
    BY DEF RepairRecord, ForgetUnregister, WriterFault, RecordPending, Die
  <1>2. RegistryTypeOK'
    <2>1. CASE RepairRecord(p)
      BY <2>1, RecordObjectType DEF RepairRecord
    <2>2. CASE ForgetUnregister(p)
      BY <2>2, DeleteObjectType DEF ForgetUnregister
    <2>3. CASE WriterFault(p)
      BY <2>3 DEF WriterFault, RecordPending, Die, RegistryTypeOK, registryVars
    <2> QED BY <2>1, <2>2, <2>3
  <1> QED BY <1>1, <1>2, FinishShapes DEF WriterTypeOK

\* Describe and forget begin well shaped.
LEMMA BeginReadType ==
    ASSUME StoresOK, NEW p \in Process, BeginDescribe(p) \/ BeginForget(p)
    PROVE  StoresOK'
PROOF
  <1> USE DEF StoresOK
  <1>1. PICK pc \in {"exists", "unregister"}, tool \in {"describe", "forget"}, l \in Label :
           /\ Become(p, [IdleOp EXCEPT !.pc = pc, !.tool = tool, !.label = l])
           /\ tables' = tables \/ DropTable(l)
    BY DEF BeginDescribe, BeginForget
  <1>2. RegistryTypeOK' /\ calls' = calls
    BY DEF BeginDescribe, BeginForget, RegistryTypeOK, registryVars
  <1>3. tables' \in [Label -> Version \cup {NoTable}]
    BY <1>1 DEF DropTable, WriterTypeOK
  <1> DEFINE o == [IdleOp EXCEPT !.pc = pc, !.tool = tool, !.label = l]
  <1>4. o \in Op
    BY IdleShape DEF Op, Pc
  <1>5. CallShape(o)
    <2>1. o.pc = pc /\ o.label = l
      BY DEF IdleOp
    <2> QED BY <2>1 DEF CallShape, WritePc
  <1> QED BY <1>1, <1>2, <1>3, <1>4, <1>5, BecomeShapes DEF WriterTypeOK

\* Every step of every call, faults included, keeps types and shapes.
LEMMA WriterStepType ==
    ASSUME StoresOK, NEW p \in Process, BeginStep(p) \/ CallStep(p) \/ WriterFault(p)
    PROVE  StoresOK'
PROOF
  <1>1. CASE BeginStep(p)
    BY <1>1, BeginWriteType, BeginDeriveType, BeginReadType
    DEF BeginStep, BeginIngest, BeginPut
  <1>2. CASE CallStep(p)
    BY <1>2, WriteCreateType, WriteLoadType, WriteCommitType, PutFlushType,
       DeriveProbeType, DeriveCtasType, DeriveParentType, RecordType, DescribeType,
       EndingType
    DEF CallStep
  <1>3. CASE WriterFault(p)
    BY <1>3, EndingType
  <1> QED BY <1>1, <1>2, <1>3
-----------------------------------------------------------------------------
(***************************************************************************)
(* The sweep.                                                              *)
(***************************************************************************)

\* plan_namespace returns a plan of labels of the namespace.
LEMMA PlanType ==
    ASSUME NEW live \in SUBSET Label, NEW reg \in SUBSET Label, NEW tombs \in Tombstones
    PROVE  PlanNamespace(live, reg, tombs) \in Plan
PROOF
  <1>1. NoPlan \in Plan
    BY DEF NoPlan, Plan
  <1>2. Reappeared(live, reg, tombs) \in SUBSET Label /\ Orphaned(live, reg, tombs) \in SUBSET Label
    BY DEF Reappeared, Orphaned, Tombstoned
  <1> DEFINE base == [NoPlan EXCEPT !.backfill = live \ reg,
                                    !.clear = Reappeared(live, reg, tombs)]
             full == [base EXCEPT !.clear = @ \cup Orphaned(live, reg, tombs)]
  <1>3. base \in Plan /\ full \in Plan
    BY <1>1, <1>2 DEF Plan
  <1>4. [base EXCEPT !.skipped = TRUE] \in Plan /\ [full EXCEPT !.capped = TRUE] \in Plan
    BY <1>3 DEF Plan
  <1>5. [full EXCEPT !.delete = {l \in reg \ live : PastGrace(l, tombs)},
                     !.bump   = {l \in reg \ live : ~PastGrace(l, tombs)}] \in Plan
    BY <1>3 DEF Plan
  <1> QED BY <1>4, <1>5 DEF PlanNamespace

\* The delete loop works on a label.
SweepShape == sweep.pc \in {"delete", "untomb"} => sweep.label \in Label

SweepsOK == RegistryTypeOK /\ SweepTypeOK /\ SweepShape

\* Every step of a sweep, faults included, keeps types and shapes.
LEMMA SweepStepType ==
    ASSUME SweepsOK, SweepStep \/ SweepFault
    PROVE  SweepsOK'
PROOF
  <1> USE DEF SweepsOK, SweepShape
  <1>1. ASSUME NEW live \in SUBSET Label, SweepListed(live)
        PROVE  SweepsOK'
    BY <1>1 DEF SweepListed, RegistryTypeOK, registryVars, SweepTypeOK, Sweep
  <1>2. CASE SweepLabels
    BY <1>2 DEF SweepLabels, RegistryTypeOK, registryVars, SweepTypeOK, Sweep, Registered
  <1>3. CASE SweepPlan
    <2>1. PlanNamespace(sweep.live, sweep.reg, tombstones) \in Plan
      BY PlanType DEF SweepTypeOK, Sweep, RegistryTypeOK, Tombstones
    <2> QED
      BY <1>3, <2>1 DEF SweepPlan, RegistryTypeOK, registryVars, SweepTypeOK, Sweep
  <1>4. ASSUME NEW l \in Label, SweepBackfill(l)
        PROVE  SweepsOK'
    <2>1. RegistryTypeOK'
      BY <1>4, RecordObjectType DEF SweepBackfill
    <2>2. SweepTypeOK' /\ SweepShape'
      BY <1>4 DEF SweepBackfill, SweepTypeOK, Sweep, Plan
    <2> QED BY <2>1, <2>2
  <1>5. ASSUME NEW l \in Label, SweepClear(l) \/ SweepBump(l)
        PROVE  SweepsOK'
    <2>1. RegistryTypeOK'
      BY <1>5, TombstoneType DEF SweepClear, SweepBump
    <2>2. SweepTypeOK' /\ SweepShape'
      BY <1>5 DEF SweepClear, SweepBump, SweepTypeOK, Sweep, Plan
    <2> QED BY <2>1, <2>2
  <1>6. ASSUME NEW l \in Label, SweepRecheck(l)
        PROVE  SweepsOK'
    <2>1. RegistryTypeOK'
      BY <1>6 DEF SweepRecheck, RegistryTypeOK, registryVars
    <2>2. SweepTypeOK' /\ SweepShape'
      BY <1>6 DEF SweepRecheck, SweepTypeOK, Sweep, Plan
    <2> QED BY <2>1, <2>2
  <1>7. CASE SweepDelete
    BY <1>7, DeleteObjectType DEF SweepDelete, SweepTypeOK, Sweep
  <1>8. CASE SweepUntomb
    <2>1. RegistryTypeOK'
      BY <1>8 DEF SweepUntomb, ClearTombstone, RegistryTypeOK
    <2>2. SweepTypeOK' /\ SweepShape'
      BY <1>8 DEF SweepUntomb, SweepTypeOK, Sweep
    <2> QED BY <2>1, <2>2
  <1>9. CASE SweepEnd \/ SweepStop
    <2>1. RegistryTypeOK' /\ sweep' = IdleSweep
      BY <1>9 DEF SweepEnd, SweepStop, RegistryTypeOK, registryVars
    <2>2. NoPlan \in Plan
      BY DEF NoPlan, Plan
    <2> QED BY <2>1, <2>2 DEF IdleSweep, SweepTypeOK, Sweep
  <1> QED
    BY <1>1, <1>2, <1>3, <1>4, <1>5, <1>6, <1>7, <1>8, <1>9
    DEF SweepStep, SweepFault, SweepList, SweepListShort, Present
-----------------------------------------------------------------------------
\* The history variables keep their types.
LEMMA HistoryType ==
    ASSUME TypeOK, SweepShape, History, tables' \in [Label -> Version \cup {NoTable}]
    PROVE  /\ gone' \in SUBSET Label /\ deleted' \in SUBSET Label
           /\ wrote' \in SUBSET Call
           /\ sightings' \in [Label -> 0 .. MinAbsentSweeps]
PROOF
  <1>1. gone' \in SUBSET Label
    BY DEF TypeOK, History
  <1>2. wrote' \in SUBSET Call
    BY DEF TypeOK, History, Present, Version, NoTable
  <1>3. sightings' \in [Label -> 0 .. MinAbsentSweeps]
    BY GraceAssumption DEF TypeOK, History
  <1>4. deleted' \in SUBSET Label
    BY DEF TypeOK, SweepShape, History, SweptAway
  <1> QED BY <1>1, <1>2, <1>3, <1>4

TypeInv == TypeOK /\ OpShape /\ SweepShape

\* Empty stores and idle processes are well typed and well shaped.
LEMMA InitType == Init => TypeInv
PROOF
  <1> SUFFICES ASSUME Init PROVE TypeInv
    OBVIOUS
  <1>1. RegistryTypeOK
    BY DEF Init, RegistryInit, RegistryTypeOK
  <1>2. WriterTypeOK /\ OpShape
    BY IdleShape, MaxCallsAssumption DEF Init, WritersInit, WriterTypeOK, OpShape
  <1>3. SweepTypeOK /\ SweepShape
    <2>1. NoPlan \in Plan
      BY DEF NoPlan, Plan
    <2> QED BY <2>1 DEF Init, ReconcilerInit, IdleSweep, SweepTypeOK, Sweep, SweepShape
  <1>4. sightings \in [Label -> 0 .. MinAbsentSweeps]
    BY GraceAssumption DEF Init
  <1>5. faults \in [writer : 0 .. MaxWriterFaults, sweep : 0 .. MaxSweepFaults]
    BY FaultsAssumption DEF Init
  <1> QED BY <1>1, <1>2, <1>3, <1>4, <1>5 DEF Init, TypeInv, TypeOK

\* Every step keeps types and shapes: the inductive invariant of Drift.
LEMMA NextType == TypeInv /\ [Next]_vars => TypeInv'
PROOF
  <1> SUFFICES ASSUME TypeInv, [Next]_vars PROVE TypeInv'
    OBVIOUS
  <1> USE DEF TypeInv
  <1>1. ASSUME NEW p \in Process, BeginSomeCall(p) \/ RunCall(p) \/ FailCall(p)
        PROVE  TypeInv'
    <2>1. StoresOK' /\ sweep' = sweep /\ History
      BY <1>1, WriterStepType DEF StoresOK, TypeOK, BeginSomeCall, RunCall, FailCall
    <2>2. faults' \in [writer : 0 .. MaxWriterFaults, sweep : 0 .. MaxSweepFaults]
      BY <1>1, FaultsAssumption DEF TypeOK, BeginSomeCall, RunCall, FailCall
    <2>3. SweepTypeOK' /\ SweepShape'
      BY <2>1 DEF TypeOK, SweepTypeOK, SweepShape
    <2> QED BY <2>1, <2>2, <2>3, HistoryType DEF TypeOK, StoresOK, WriterTypeOK
  <1>2. CASE RunSweep \/ FailSweep
    <2>1. SweepsOK' /\ UNCHANGED writerVars /\ tables' = tables /\ History
      <3>1. tables' = tables
        BY <1>2 DEF RunSweep, FailSweep, SweepStep, SweepFault, SweepList, SweepListShort,
                    SweepListed, SweepLabels, SweepPlan, SweepBackfill, SweepClear,
                    SweepBump, SweepRecheck, SweepDelete, SweepUntomb, SweepEnd, SweepStop
      <3> QED BY <1>2, <3>1, SweepStepType, SMTT(30) DEF SweepsOK, TypeOK, RunSweep, FailSweep
    <2>2. faults' \in [writer : 0 .. MaxWriterFaults, sweep : 0 .. MaxSweepFaults]
      BY <1>2, FaultsAssumption DEF TypeOK, RunSweep, FailSweep
    <2>3. WriterTypeOK' /\ OpShape'
      BY <2>1 DEF TypeOK, WriterTypeOK, OpShape, writerVars
    <2> QED BY <2>1, <2>2, <2>3, HistoryType DEF TypeOK, SweepsOK, WriterTypeOK
  <1>3. CASE UNCHANGED vars
    BY <1>3 DEF vars, storeVars, registryVars, writerVars, historyVars, TypeOK,
                RegistryTypeOK, WriterTypeOK, SweepTypeOK, OpShape, SweepShape
  <1> QED BY <1>1, <1>2, <1>3 DEF Next

\* The stores, the calls under way, the sweep and the history keep their
\* types, and every call keeps its shape, in every behaviour of Drift.
THEOREM TypeCorrect == Spec => []TypeInv
PROOF
  BY InitType, NextType, PTL DEF Spec

\* Type correctness of every variable of Drift, whatever calls, sweeps and
\* faults do to the two stores.
THEOREM TypesHold == Spec => []TypeOK
PROOF
  BY TypeCorrect, PTL DEF TypeInv
=============================================================================
