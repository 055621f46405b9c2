--------------------------- MODULE MetadataProofs ---------------------------
(***************************************************************************)
(* Why the registry's metadata belongs to the row it hangs on, and why a   *)
(* row never precedes the data it describes, for every value of the        *)
(* constants.                                                              *)
(***************************************************************************)
EXTENDS DriftProofs

\* The parents a derive has resolved or still has to resolve are labels its
\* own SELECT names.
SqlInv == \A p \in Process : op[p].todo \cup op[p].parents \subseteq op[p].sql

MetadataInv == MetadataWhole /\ SqlInv

\* A call about to record has committed its data.
CommittedInv == \A p \in Process : op[p].pc \in {"parents", "record"} => op[p].call \in wrote

DataInv == RowsFollowData /\ CommittedInv
-----------------------------------------------------------------------------
\* An empty registry has no stray metadata and no row before its data.
LEMMA InitMetadataInv == Init => MetadataInv /\ DataInv
PROOF
  BY DEF Init, RegistryInit, WritersInit, IdleOp, NoRow, Registered,
         MetadataInv, MetadataWhole, SqlInv, DataInv, RowsFollowData, CommittedInv

\* All the ways a step can change a row, its tags or its edges.
LEMMA RegistryMoves ==
    ASSUME TypeInv, Next
    PROVE  \/ UNCHANGED <<objects, tags, lineage>>
           \/ \E l \in Label : DeleteObject(l)
           \/ \E l \in Label : RecordObject(l, ReconciledRow, {})
           \/ \E p \in Process : Record(p)
PROOF
  <1> USE DEF registryVars
  <1>1. ASSUME NEW p \in Process, BeginStep(p)
        PROVE  UNCHANGED <<objects, tags, lineage>>
    BY <1>1 DEF BeginStep, BeginIngest, BeginPut, BeginWrite, BeginDerive, BeginDescribe,
                BeginForget
  <1>2. ASSUME NEW p \in Process, CallStep(p)
        PROVE  \/ UNCHANGED <<objects, tags, lineage>>
               \/ \E l \in Label : DeleteObject(l)
               \/ \E l \in Label : RecordObject(l, ReconciledRow, {})
               \/ Record(p)
    <2>1. op[p].pc # "idle" => op[p].label \in Label
      BY DEF TypeInv, OpShape, CallShape
    <2>2. CASE RepairRecord(p)
      BY <2>1, <2>2 DEF RepairRecord, At
    <2>3. CASE ForgetUnregister(p)
      BY <2>1, <2>3 DEF ForgetUnregister, At
    <2>4. CASE Record(p)
      BY <2>4
    <2>5. CASE ~RepairRecord(p) /\ ~ForgetUnregister(p) /\ ~Record(p)
      BY <1>2, <2>5 DEF CallStep, WriteCreate, WriteLoad, WriteCommit, PutFlush, DeriveProbe,
                        DeriveCtas, DeriveParent, DescribeGet, RepairExists
    <2> QED BY <2>2, <2>3, <2>4, <2>5
  <1>3. ASSUME NEW p \in Process, WriterFault(p)
        PROVE  UNCHANGED <<objects, tags, lineage>>
    BY <1>3 DEF WriterFault, RecordPending, Die
  <1>4. ASSUME SweepStep
        PROVE  \/ UNCHANGED <<objects, tags, lineage>>
               \/ \E l \in Label : DeleteObject(l)
               \/ \E l \in Label : RecordObject(l, ReconciledRow, {})
    <2>1. CASE SweepDelete
      <3>1. sweep.label \in Label
        BY <2>1 DEF TypeInv, SweepShape, SweepDelete
      <3> QED BY <2>1, <3>1 DEF SweepDelete
    <2>2. ASSUME NEW l \in Label, SweepBackfill(l)
          PROVE  RecordObject(l, ReconciledRow, {})
      BY <2>2 DEF SweepBackfill
    <2>3. ASSUME NEW l \in Label, SweepClear(l) \/ SweepBump(l) \/ SweepRecheck(l)
          PROVE  UNCHANGED <<objects, tags, lineage>>
      BY <2>3 DEF SweepClear, SweepBump, SweepRecheck, ClearTombstone, BumpTombstone
    <2>4. CASE SweepList \/ SweepLabels \/ SweepPlan \/ SweepUntomb \/ SweepEnd
      BY <2>4 DEF SweepList, SweepListed, SweepLabels, SweepPlan, SweepUntomb, SweepEnd,
                  ClearTombstone
    <2> QED BY <1>4, <2>1, <2>2, <2>3, <2>4 DEF SweepStep
  <1>5. ASSUME SweepFault
        PROVE  UNCHANGED <<objects, tags, lineage>>
    BY <1>5 DEF SweepFault, SweepListShort, SweepListed, SweepStop
  <1> QED
    BY <1>1, <1>2, <1>3, <1>4, <1>5
    DEF Next, BeginSomeCall, RunCall, FailCall, RunSweep, FailSweep

\* The row a call records is a row, derived only if the call is a derive.
LEMMA RecordedRow ==
    ASSUME TypeInv, NEW p \in Process, ReadyToRecord(p)
    PROVE  /\ op[p].label \in Label
           /\ RowOf(p) # NoRow
           /\ RowOf(p).source = "derived" => op[p].tool = "derive"
PROOF
  <1>1. op[p].label \in Label /\ op[p].tool \in {"ingest", "put", "derive"}
    BY DEF TypeInv, OpShape, CallShape, WritePc, ReadyToRecord, At
  <1> QED BY <1>1 DEF RowOf, SourceOf, NoRow
-----------------------------------------------------------------------------
(***************************************************************************)
(* Tags and edges.                                                         *)
(***************************************************************************)

\* Whatever a step does to the registry leaves no stray tags or edges.
LEMMA MovesKeepMetadata ==
    ASSUME TypeInv, MetadataInv, Next
    PROVE  MetadataWhole'
PROOF
  <1>1. /\ objects \in [Label -> Row \cup {NoRow}] /\ tags \in [Label -> SUBSET Call]
        /\ lineage \in [Label -> SUBSET Label]
    BY DEF TypeInv, TypeOK, RegistryTypeOK
  <1>2. ASSUME NEW l \in Label, DeleteObject(l)
        PROVE  MetadataWhole'
    BY <1>1, <1>2 DEF DeleteObject, MetadataInv, MetadataWhole, Registered, NoRow
  <1>3. ASSUME NEW l \in Label, RecordObject(l, ReconciledRow, {})
        PROVE  MetadataWhole'
    BY <1>1, <1>3 DEF RecordObject, UpsertObject, ReconciledRow, MetadataInv, MetadataWhole,
                      Registered, NoRow
  <1>4. ASSUME NEW p \in Process, Record(p)
        PROVE  MetadataWhole'
    <2> DEFINE l == op[p].label
    <2>1. /\ l \in Label /\ RowOf(p) # NoRow /\ RowOf(p).sql = op[p].sql
          /\ RowOf(p).source = "derived" => op[p].tool = "derive"
      BY <1>4, RecordedRow DEF Record, RowOf
    <2>2. /\ objects' = [objects EXCEPT ![l] = RowOf(p)]
          /\ tags' = [tags EXCEPT ![l] = TagsOf(p)]
          /\ IF op[p].tool = "derive" THEN lineage' = [lineage EXCEPT ![l] = op[p].parents \ {l}]
             ELSE lineage' = lineage
      BY <1>4 DEF Record, RecordObjectGuarded, UpsertObject, SetLineage
    <2>3. op[p].parents \subseteq op[p].sql
      BY DEF MetadataInv, SqlInv
    <2>4. ASSUME NEW k \in Label, k # l
          PROVE  objects'[k] = objects[k] /\ tags'[k] = tags[k] /\ lineage'[k] = lineage[k]
      BY <1>1, <2>1, <2>2, <2>4
    <2>5. objects'[l] = RowOf(p)
      BY <1>1, <2>1, <2>2
    <2>6. RowOf(p).source = "derived" => lineage'[l] \subseteq RowOf(p).sql \ {l}
      BY <1>1, <2>1, <2>2, <2>3
    <2> HIDE DEF l
    <2> QED BY <2>1, <2>4, <2>5, <2>6 DEF MetadataInv, MetadataWhole, Registered
  <1>5. CASE UNCHANGED <<objects, tags, lineage>>
    BY <1>5 DEF MetadataInv, MetadataWhole, Registered
  <1> QED BY <1>2, <1>3, <1>4, <1>5, RegistryMoves
-----------------------------------------------------------------------------
(***************************************************************************)
(* What a step of a call leaves in its own record.                         *)
(***************************************************************************)

\* A commit that fills a table puts its call among those that wrote.
LEMMA CommitReaches ==
    ASSUME TypeInv, History, NEW p \in Process, NEW l \in Label,
           tables' = [tables EXCEPT ![l] = NextVersion(p, TRUE)]
    PROVE  op[p].call \in wrote'
PROOF
  <1>1. tables'[l] = NextVersion(p, TRUE)
    BY DEF TypeInv, TypeOK, WriterTypeOK
  <1>2. tables'[l].filled /\ tables'[l].by = op[p].call
    BY <1>1 DEF NextVersion
  <1>3. l \in Present'
    <2>1. tables'[l] # NoTable
      BY <1>1 DEF NoTable, NextVersion
    <2> QED BY <2>1 DEF Present
  <1> QED BY <1>2, <1>3 DEF History

\* A step of a call keeps its own parents and its own commit in order.
LEMMA CallMoves ==
    ASSUME TypeInv, SqlInv, CommittedInv, History, NEW p \in Process,
           BeginStep(p) \/ CallStep(p) \/ WriterFault(p)
    PROVE  \E o : /\ Become(p, o)
                  /\ o.todo \cup o.parents \subseteq o.sql
                  /\ o.pc \in {"parents", "record"} => o.call \in wrote'
PROOF
  <1> DEFINE Good(o) == /\ o.todo \cup o.parents \subseteq o.sql
                        /\ o.pc \in {"parents", "record"} => o.call \in wrote'
  <1>1. /\ op[p] \in Op /\ op[p].todo \cup op[p].parents \subseteq op[p].sql
        /\ op[p].pc # "idle" => op[p].label \in Label
    BY DEF TypeInv, TypeOK, WriterTypeOK, OpShape, CallShape, SqlInv
  <1>2. wrote \subseteq wrote'
    BY DEF History
  <1>3. Finish(p) => \E o : Become(p, o) /\ Good(o)
    <2>1. Good(IdleOp)
      BY DEF IdleOp
    <2> QED BY <2>1 DEF Finish
  <1>4. ASSUME NEW pc, Goto(p, pc), pc \notin {"parents", "record"}
        PROVE  \E o : Become(p, o) /\ Good(o)
    <2>1. Good([op[p] EXCEPT !.pc = pc])
      BY <1>1, <1>4 DEF Op
    <2> QED BY <1>4, <2>1 DEF Goto
  <1>5. ASSUME NEW start, BeginNumbered(p, start), start \in Op,
               start.todo \cup start.parents \subseteq start.sql,
               start.pc \notin {"parents", "record"}
        PROVE  \E o : Become(p, o) /\ Good(o)
    <2>1. Good([start EXCEPT !.call = calls + 1])
      BY <1>5 DEF Op
    <2> QED BY <1>5, <2>1 DEF BeginNumbered
  <1>6. CASE BeginIngest(p) \/ BeginPut(p)
    <2>1. PICK tool \in {"ingest", "put"}, mode \in Mode, l \in Label :
             BeginNumbered(p, [IdleOp EXCEPT !.pc = WriteBranch(l), !.tool = tool,
                                             !.mode = mode, !.label = l])
      BY <1>6 DEF BeginIngest, BeginPut, BeginWrite
    <2> DEFINE start == [IdleOp EXCEPT !.pc = WriteBranch(l), !.tool = tool,
                                       !.mode = mode, !.label = l]
    <2>2. start \in Op
      <3>1. WriteBranch(l) \in Pc
        BY DEF WriteBranch, Pc
      <3> QED BY <3>1, IdleShape DEF Op
    <2>3. start.todo = {} /\ start.parents = {} /\ start.pc \in {"load", "create"}
      BY DEF IdleOp, WriteBranch
    <2> QED BY <1>5, <2>1, <2>2, <2>3
  <1>7. CASE BeginDerive(p)
    <2>1. PICK mode \in Mode, l \in Label, refs \in SUBSET Label :
             /\ MayBegin(p, "derive", mode)
             /\ BeginNumbered(p, [IdleOp EXCEPT
                  !.pc = IF mode = "replace" /\ l \in Present THEN "probe" ELSE "ctas",
                  !.tool = "derive", !.mode = mode, !.label = l, !.sql = refs])
      BY <1>7 DEF BeginDerive
    <2> DEFINE start == [IdleOp EXCEPT
                  !.pc = IF mode = "replace" /\ l \in Present THEN "probe" ELSE "ctas",
                  !.tool = "derive", !.mode = mode, !.label = l, !.sql = refs]
    <2>2. start \in Op
      BY IdleShape, ZenonT(60) DEF Op, Pc
    <2>3. start.todo = {} /\ start.parents = {} /\ start.pc \in {"probe", "ctas"}
      BY DEF IdleOp
    <2> QED BY <1>5, <2>1, <2>2, <2>3
  <1>8. CASE BeginDescribe(p) \/ BeginForget(p)
    <2>1. ASSUME NEW pc \in {"exists", "unregister"}, NEW tool, NEW l,
                 Become(p, [IdleOp EXCEPT !.pc = pc, !.tool = tool, !.label = l])
          PROVE  \E o : Become(p, o) /\ Good(o)
      <3>1. Good([IdleOp EXCEPT !.pc = pc, !.tool = tool, !.label = l])
        BY DEF IdleOp
      <3> QED BY <2>1, <3>1
    <2>2. CASE BeginDescribe(p)
      <3>1. PICK l \in Label :
              Become(p, [IdleOp EXCEPT !.pc = "exists", !.tool = "describe", !.label = l])
        BY <2>2 DEF BeginDescribe
      <3> QED BY <2>1, <3>1
    <2>3. CASE BeginForget(p)
      <3>1. PICK l \in Label :
              Become(p, [IdleOp EXCEPT !.pc = "unregister", !.tool = "forget", !.label = l])
        BY <2>3 DEF BeginForget
      <3> QED BY <2>1, <3>1
    <2> QED BY <1>8, <2>2, <2>3
  <1>9. CASE WriteCreate(p) \/ WriteLoad(p)
    <2>1. CASE Finish(p)
      BY <1>3, <2>1
    <2>2. ASSUME NEW n, NEW base,
                 Become(p, [op[p] EXCEPT !.pc = "commit", !.n = n, !.base = base])
          PROVE  \E o : Become(p, o) /\ Good(o)
      <3>1. Good([op[p] EXCEPT !.pc = "commit", !.n = n, !.base = base])
        BY <1>1 DEF Op
      <3> QED BY <2>2, <3>1
    <2>3. ASSUME NEW base, Become(p, [op[p] EXCEPT !.pc = "commit", !.base = base])
          PROVE  \E o : Become(p, o) /\ Good(o)
      <3>1. Good([op[p] EXCEPT !.pc = "commit", !.base = base])
        BY <1>1 DEF Op
      <3> QED BY <2>3, <3>1
    <2> QED BY <1>9, <2>1, <2>2, <2>3 DEF WriteCreate, WriteLoad
  <1>10. CASE WriteCommit(p)
    <2>1. CASE Finish(p)
      BY <1>3, <2>1
    <2>2. CASE ~Finish(p)
      <3>1. op[p].call \in wrote'
        BY <1>1, <1>10, <2>2, CommitReaches DEF WriteCommit, CommitSnapshot, At
      <3>2. ASSUME NEW n, Become(p, [op[p] EXCEPT !.pc = "record", !.n = n])
            PROVE  \E o : Become(p, o) /\ Good(o)
        <4>1. Good([op[p] EXCEPT !.pc = "record", !.n = n])
          BY <1>1, <3>1 DEF Op
        <4> QED BY <3>2, <4>1
      <3>3. ASSUME NEW n, Become(p, [op[p] EXCEPT !.pc = "flush", !.n = n, !.mode = "append"])
            PROVE  \E o : Become(p, o) /\ Good(o)
        <4>1. Good([op[p] EXCEPT !.pc = "flush", !.n = n, !.mode = "append"])
          BY <1>1 DEF Op
        <4> QED BY <3>3, <4>1
      <3> QED BY <1>10, <2>2, <3>2, <3>3 DEF WriteCommit
    <2> QED BY <2>1, <2>2
  <1>11. CASE DeriveCtas(p)
    <2>1. CASE Finish(p)
      BY <1>3, <2>1
    <2>2. CASE ~Finish(p)
      <3>1. op[p].call \in wrote'
        BY <1>1, <1>11, <2>2, CommitReaches DEF DeriveCtas, SwapTable, At
      <3>2. Good([op[p] EXCEPT !.pc = "parents", !.todo = op[p].sql])
        BY <1>1, <3>1 DEF Op
      <3> QED BY <1>11, <2>2, <3>2 DEF DeriveCtas
    <2> QED BY <2>1, <2>2
  <1>12. CASE DeriveParent(p)
    <2>1. PICK l \in op[p].todo :
             Become(p, [op[p] EXCEPT !.todo = @ \ {l}, !.parents = @ \cup ({l} \cap Present)])
      BY <1>12 DEF DeriveParent
    <2>2. op[p].call \in wrote'
      BY <1>2, <1>12 DEF DeriveParent, At, CommittedInv
    <2>3. Good([op[p] EXCEPT !.todo = @ \ {l}, !.parents = @ \cup ({l} \cap Present)])
      BY <1>1, <2>2 DEF Op
    <2> QED BY <2>1, <2>3
  <1>13. CASE PutFlush(p) \/ DeriveProbe(p) \/ Record(p) \/ DescribeGet(p) \/ RepairExists(p)
                \/ RepairRecord(p) \/ ForgetUnregister(p) \/ WriterFault(p)
    <2>1. Finish(p) \/ \E pc \in {"load", "create", "ctas", "get", "exists", "repair"} : Goto(p, pc)
      BY <1>13 DEF PutFlush, WriteBranch, DeriveProbe, Record, DescribeGet, RepairExists,
                   RepairRecord, ForgetUnregister, WriterFault, RecordPending, Die
    <2> QED BY <1>3, <1>4, <2>1
  <1> QED
    BY <1>6, <1>7, <1>8, <1>9, <1>10, <1>11, <1>12, <1>13 DEF BeginStep, CallStep

\* So every step keeps them for all calls.
LEMMA NextCallInvs ==
    ASSUME TypeInv, SqlInv, CommittedInv, Next
    PROVE  SqlInv' /\ CommittedInv'
PROOF
  <1>1. History /\ wrote \subseteq wrote' /\ op \in [Process -> Op]
    BY DEF Next, BeginSomeCall, RunCall, FailCall, RunSweep, FailSweep, History,
           TypeInv, TypeOK, WriterTypeOK
  <1>2. ASSUME NEW p \in Process, BeginSomeCall(p) \/ RunCall(p) \/ FailCall(p)
        PROVE  SqlInv' /\ CommittedInv'
    <2>1. PICK o : /\ Become(p, o)
                   /\ o.todo \cup o.parents \subseteq o.sql
                   /\ o.pc \in {"parents", "record"} => o.call \in wrote'
      BY <1>1, <1>2, CallMoves DEF BeginSomeCall, RunCall, FailCall
    <2>2. \A q \in Process : op'[q] = IF q = p THEN o ELSE op[q]
      BY <1>1, <2>1 DEF Become
    <2> QED BY <1>1, <2>1, <2>2 DEF SqlInv, CommittedInv
  <1>3. CASE RunSweep \/ FailSweep
    BY <1>1, <1>3 DEF RunSweep, FailSweep, writerVars, SqlInv, CommittedInv
  <1> QED BY <1>2, <1>3 DEF Next

\* Whatever a step does to the rows, each names a call that wrote.
LEMMA MovesKeepRows ==
    ASSUME TypeInv, DataInv, Next
    PROVE  RowsFollowData'
PROOF
  <1>1. objects \in [Label -> Row \cup {NoRow}]
    BY DEF TypeInv, TypeOK, RegistryTypeOK
  <1>2. wrote \subseteq wrote'
    BY DEF Next, BeginSomeCall, RunCall, FailCall, RunSweep, FailSweep, History
  <1>3. ASSUME NEW l \in Label, NEW row, objects' = [objects EXCEPT ![l] = row],
               row = NoRow \/ row.by \in wrote \cup {0}
        PROVE  RowsFollowData'
    <2>1. \A k \in Label : objects'[k] = IF k = l THEN row ELSE objects[k]
      BY <1>1, <1>3
    <2> QED BY <1>2, <1>3, <2>1 DEF DataInv, RowsFollowData, Registered
  <1>4. ASSUME NEW p \in Process, Record(p)
        PROVE  RowsFollowData'
    <2>1. op[p].label \in Label /\ op[p].call \in wrote
      BY <1>4, RecordedRow DEF Record, ReadyToRecord, At, DataInv, CommittedInv
    <2>2. RowOf(p).by \in wrote
      BY <2>1 DEF RowOf
    <2>3. objects' = [objects EXCEPT ![op[p].label] = RowOf(p)]
      BY <1>4 DEF Record, RecordObjectGuarded, UpsertObject
    <2> QED BY <1>3, <2>1, <2>2, <2>3
  <1>5. CASE UNCHANGED <<objects, tags, lineage>>
    BY <1>2, <1>5 DEF DataInv, RowsFollowData, Registered
  <1>6. ASSUME NEW l \in Label, DeleteObject(l) \/ RecordObject(l, ReconciledRow, {})
        PROVE  RowsFollowData'
    <2>1. ReconciledRow.by = 0
      BY DEF ReconciledRow
    <2> QED BY <1>3, <1>6, <2>1 DEF DeleteObject, RecordObject, UpsertObject
  <1> QED BY <1>4, <1>5, <1>6, RegistryMoves
-----------------------------------------------------------------------------
\* Every step keeps both invariants of this module.
LEMMA NextInvs == TypeInv /\ MetadataInv /\ DataInv /\ [Next]_vars => MetadataInv' /\ DataInv'
PROOF
  <1> SUFFICES ASSUME TypeInv, MetadataInv, DataInv, [Next]_vars
               PROVE  MetadataInv' /\ DataInv'
    OBVIOUS
  <1>1. CASE Next
    BY <1>1, MovesKeepMetadata, MovesKeepRows, NextCallInvs DEF MetadataInv, DataInv
  <1>2. CASE UNCHANGED vars
    BY <1>2 DEF vars, storeVars, registryVars, writerVars, historyVars, MetadataInv,
                MetadataWhole, SqlInv, DataInv, RowsFollowData, CommittedInv, Registered
  <1> QED BY <1>1, <1>2

\* Tags and lineage never outlive or mix across rows: in every behaviour, the
\* edges of a derived row are labels its own producing SQL names, and a label
\* without a row has neither tags nor edges.
THEOREM MetadataIsWhole == Spec => []MetadataWhole
PROOF
  BY TypeCorrect, InitMetadataInv, NextInvs, PTL DEF Spec, MetadataInv

\* In every behaviour a row names only a call whose data reached the catalog.
THEOREM RowsComeAfterData == Spec => []RowsFollowData
PROOF
  BY TypeCorrect, InitMetadataInv, NextInvs, PTL DEF Spec, DataInv
=============================================================================
