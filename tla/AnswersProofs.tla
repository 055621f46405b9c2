--------------------------- MODULE AnswersProofs ---------------------------
(***************************************************************************)
(* Proofs about Answers, for any labels, processes, calls and faults: what *)
(* empty tables there can be, when the stores agree about a dataset, and   *)
(* what a write is answered with.                                          *)
(***************************************************************************)
EXTENDS Answers, DriftProofs

\* p is between the create_table of l and the append that fills it.
Filling(p, l) ==
    /\ op[p].pc = "commit" /\ op[p].label = l
    /\ op[p].base = tables[l] /\ op[p].call = tables[l].by

\* EmptyOnlyWhileCreated, with the call that fills the table being the one
\* that created it: when a fault ends it, it is the creator that cut receives.
EmptyInv ==
    \A l \in Unfilled : tables[l].by \in cut \/ \E p \in Process : Filling(p, l)

\* The reads of an answer change nothing of Drift; every other step is Drift's.
LEMMA AnswersAreDrift == [AnswersNext]_answerVars => [Next]_vars
PROOF
  BY DEF AnswersNext, Next, answerVars, BeginLook, LookStep, LookAgain, LookSchema,
         LookParents, LookCount, Return

\* A table appears without data only by a create_table, whose call goes on to
\* fill it.
LEMMA CreatedIsFilling ==
    ASSUME TypeInv, [Next]_vars, NEW l \in Label, l \in Unfilled', tables'[l] # tables[l]
    PROVE  \E p \in Process : Filling(p, l)'
PROOF
  <1>1. /\ tables \in [Label -> Version \cup {NoTable}] /\ op \in [Process -> Op]
        /\ tables'[l] # NoTable /\ ~tables'[l].filled
    BY DEF TypeInv, TypeOK, WriterTypeOK, Unfilled, Present
  <1>2. ~UNCHANGED tables
    OBVIOUS
  <1>3. PICK p \in Process : BeginForget(p) \/ WriteCreate(p) \/ WriteCommit(p) \/ DeriveCtas(p)
    <2>1. ~UNCHANGED vars
      BY <1>2, SMTT(30) DEF vars, storeVars
    <2>2. ~RunSweep /\ ~FailSweep
      BY <1>2 DEF RunSweep, FailSweep, SweepStep, SweepFault, SweepList, SweepListShort,
                  SweepListed, SweepLabels, SweepPlan, SweepBackfill, SweepClear,
                  SweepBump, SweepRecheck, SweepDelete, SweepUntomb, SweepEnd, SweepStop
    <2>3. PICK p \in Process : BeginStep(p) \/ CallStep(p) \/ WriterFault(p)
      BY <2>1, <2>2 DEF Next, BeginSomeCall, RunCall, FailCall
    <2>4. ~WriterFault(p)
      BY <1>2 DEF WriterFault, RecordPending, Die
    <2>5. CASE BeginStep(p)
      BY <1>2, <2>5 DEF BeginStep, BeginIngest, BeginPut, BeginWrite, BeginDerive, BeginDescribe
    <2>6. CASE CallStep(p)
      BY <1>2, <2>6 DEF CallStep, WriteLoad, PutFlush, DeriveProbe, DeriveParent, Record,
                        DescribeGet, RepairExists, RepairRecord, ForgetUnregister
    <2> QED BY <2>3, <2>4, <2>5, <2>6
  <1>4. ~BeginForget(p)
    BY <1>1 DEF BeginForget, DropTable
  <1>5. ~WriteCommit(p)
    BY <1>1 DEF WriteCommit, CommitSnapshot, NextVersion
  <1>6. ~DeriveCtas(p)
    BY <1>1 DEF DeriveCtas, SwapTable, NextVersion
  <1>7. CASE WriteCreate(p)
    <2> DEFINE new == NextVersion(p, FALSE)
               o == [op[p] EXCEPT !.pc = "commit", !.n = @ + 1, !.base = new]
    <2>1. op[p].label \notin Present /\ CreateTable(op[p].label, new) /\ Become(p, o)
      BY <1>2, <1>7 DEF WriteCreate
    <2>2. op[p].label = l /\ tables'[l] = new
      BY <1>1, <2>1 DEF CreateTable
    <2>3. op[p] \in Op
      BY <1>1
    <2>4. o.pc = "commit" /\ o.label = op[p].label /\ o.base = new /\ o.call = op[p].call
      BY <2>3 DEF Op
    <2>5. op'[p] = o
      BY <1>1, <2>1 DEF Become
    <2>6. new.by = op[p].call
      BY DEF NextVersion
    <2> QED BY <2>2, <2>4, <2>5, <2>6 DEF Filling
  <1> QED BY <1>3, <1>4, <1>5, <1>6, <1>7

\* The call that is filling a table leaves it as it is only if it is not its
\* turn, or by a fault.
LEMMA FillingGoesOn ==
    ASSUME TypeInv, [Next]_vars, NEW l \in Label, NEW p \in Process, Filling(p, l),
           l \in Unfilled, tables'[l] = tables[l], op'[p] # op[p]
    PROVE  faults' # faults
PROOF
  <1>1. /\ tables \in [Label -> Version \cup {NoTable}] /\ op \in [Process -> Op]
        /\ ~tables[l].filled /\ op[p].pc = "commit" /\ op[p].label = l /\ op[p].base = tables[l]
        /\ faults \in [writer : 0 .. MaxWriterFaults, sweep : 0 .. MaxSweepFaults]
    BY DEF TypeInv, TypeOK, WriterTypeOK, Unfilled, Filling
  <1>2. ~UNCHANGED op
    OBVIOUS
  <1>3. ~UNCHANGED vars /\ ~RunSweep /\ ~FailSweep
    BY <1>2 DEF vars, writerVars, RunSweep, FailSweep
  <1>4. PICK q \in Process : BeginSomeCall(q) \/ RunCall(q) \/ FailCall(q)
    BY <1>3 DEF Next
  <1>5. CASE FailCall(q)
    <2>1. faults' = [faults EXCEPT !.writer = @ + 1] /\ faults.writer \in Nat
      BY <1>1, <1>5, FaultsAssumption DEF FailCall
    <2>2. faults'.writer # faults.writer
      BY <1>1, <2>1
    <2> QED BY <2>2
  <1>6. CASE BeginSomeCall(q) \/ RunCall(q)
    <2>1. PICK o : Become(q, o)
      BY <1>6 DEF BeginSomeCall, RunCall, BeginStep, CallStep, BeginIngest, BeginPut, BeginWrite,
                  BeginDerive, BeginDescribe, BeginForget, BeginNumbered, WriteCreate, WriteLoad,
                  WriteCommit, PutFlush, DeriveProbe, DeriveCtas, DeriveParent, Record,
                  DescribeGet, RepairExists, RepairRecord, ForgetUnregister, Finish, Goto
    <2>2. q = p
      BY <1>1, <2>1 DEF Become
    <2>3. WriteCommit(p)
      BY <1>1, <1>6, <2>2
      DEF At, BeginSomeCall, RunCall, BeginStep, CallStep, BeginIngest, BeginPut, BeginWrite,
          BeginDerive, BeginDescribe, BeginForget, MayBegin, WriteCreate, WriteLoad, PutFlush,
          DeriveProbe, DeriveCtas, DeriveParent, Record, ReadyToRecord, DescribeGet,
          RepairExists, RepairRecord, ForgetUnregister
    <2>4. tables'[l] = NextVersion(p, TRUE)
      BY <1>1, <2>3 DEF WriteCommit, CommitSnapshot
    <2> QED BY <1>1, <2>4, SMTT(30) DEF NextVersion
  <1> QED BY <1>4, <1>5, <1>6

\* Every step keeps the invariant.
LEMMA EmptyStep == TypeInv /\ EmptyInv /\ [AnswersNext]_answerVars => EmptyInv'
PROOF
  <1> SUFFICES ASSUME TypeInv, EmptyInv, [AnswersNext]_answerVars, NEW l \in Unfilled'
               PROVE  tables'[l].by \in cut' \/ \E p \in Process : Filling(p, l)'
    BY DEF EmptyInv
  <1>1. [Next]_vars /\ l \in Label
    BY AnswersAreDrift DEF Unfilled, Present
  <1>2. CASE tables'[l] # tables[l]
    BY <1>1, <1>2, CreatedIsFilling
  <1>3. CASE tables'[l] = tables[l]
    <2>1. l \in Unfilled
      BY <1>1, <1>3 DEF Unfilled, Present
    <2>2. tables'[l].by \in {tables'[k].by : k \in Unfilled'}
      OBVIOUS
    <2>3. CASE tables[l].by \in cut
      <3>1. CASE Track
        BY <1>3, <2>2, <2>3, <3>1 DEF Track
      <3>2. CASE UNCHANGED answerVars
        BY <1>3, <2>3, <3>2 DEF answerVars, tangleVars
      <3> QED BY <3>1, <3>2 DEF AnswersNext
    <2>4. ASSUME NEW p \in Process, Filling(p, l), op'[p] = op[p]
          PROVE  Filling(p, l)'
      BY <1>3, <2>4 DEF Filling
    <2>5. ASSUME NEW p \in Process, Filling(p, l), op'[p] # op[p]
          PROVE  tables'[l].by \in cut'
      <3>1. faults' # faults
        BY <1>1, <1>3, <2>1, <2>5, FillingGoesOn
      <3>2. Track
        BY <3>1 DEF AnswersNext, answerVars, vars
      <3>3. p \in {q \in Process : faults' # faults /\ op'[q] # op[q]}
        BY <2>5, <3>1
      <3>4. tables'[l].by = op[p].call
        BY <1>3, <2>5 DEF Filling
      <3> QED BY <2>2, <3>2, <3>3, <3>4 DEF Track
    <2> QED BY <2>1, <2>3, <2>4, <2>5 DEF EmptyInv
  <1> QED BY <1>2, <1>3

\* A table without data is one whose creator is about to fill it, or was cut
\* off there, in every behaviour of calls, sweeps, faults and answers.
THEOREM EmptyTablesExplained == AnswersSpec => []EmptyOnlyWhileCreated
PROOF
  <1>1. AnswersInit => TypeInv /\ EmptyInv
    <2>1. AnswersInit => TypeInv
      BY InitType DEF AnswersInit
    <2>2. AnswersInit => EmptyInv
      BY DEF AnswersInit, Init, EmptyInv, Unfilled, Present
    <2> QED BY <2>1, <2>2
  <1>2. TypeInv /\ EmptyInv /\ [AnswersNext]_answerVars => (TypeInv /\ EmptyInv)'
    BY AnswersAreDrift, NextType, EmptyStep
  <1>3. TypeInv /\ EmptyInv => EmptyOnlyWhileCreated
    BY DEF EmptyInv, EmptyOnlyWhileCreated, Filling, AtWork, At
  <1> QED BY <1>1, <1>2, <1>3, PTL DEF AnswersSpec
-----------------------------------------------------------------------------
(***************************************************************************)
(* When the stores agree, and what a write is answered with.  First what a *)
(* dataset's table t, row r and tags g are to a call o on it.              *)
(***************************************************************************)

Agreed(t, r) ==
    /\ t # NoTable <=> r # NoRow
    /\ t # NoTable => t.filled /\ r.by = t.by

Wrote(o, t) == t.filled /\ t.by = o.call

\* What a call may rely on while nobody disturbs it: the table is as it found
\* or left it, and so is the row.
Knows(o, t, r, g) ==
    /\ o.pc \in {"create", "unregister"} => t = NoTable
    /\ o.pc = "commit" => t = o.base
    /\ o.pc \in {"flush", "parents", "record", "get"} => Wrote(o, t)
    /\ o.pc = "get" => o.call \in Call /\ r.by = o.call /\ g = {o.call}
    /\ o.pc \in {"exists", "repair"} => o.call = 0 /\ r = NoRow
    /\ o.pc = "repair" => t # NoTable

\* It has changed one store, and still has to change the other.
Midway(o, t) ==
    \/ o.pc \in {"load", "commit", "flush", "parents", "record"} /\ Wrote(o, t)
    \/ o.pc = "commit" /\ ~t.filled
    \/ o.pc = "unregister"

\* Its next step may be its last write.
AtLast(o) ==
    o.pc \in {"record", "unregister"} \/ (o.pc = "parents" /\ o.todo = {})

\* The call goes on, or is over.
GoesOn(c, o) == o = IdleOp \/ (o.pc # "idle" /\ o.label = c.label /\ o.call = c.call)

\* What a step does that takes an undisturbed call from c to o, and its
\* dataset from t0 and r0 to t, r and g.  It may give up after a write that
\* has no row.
StepsTo(c, t0, r0, o, t, r, g) ==
    /\ o # IdleOp => Knows(o, t, r, g)
    /\ Agreed(t0, r0) \/ Midway(c, t0) =>
           \/ Agreed(t, r)
           \/ Midway(o, t)
           \/ o = IdleOp /\ Wrote(c, t0) /\ r.by # c.call
    /\ AtLast(c) => Agreed(t, r)

TableOf(p) == tables[op[p].label]

RowAt(p) == objects[op[p].label]

TagsAt(p) == tags[op[p].label]

\* A step of p that takes its dataset to t, r and g, and nothing else.
Leads(p, o, t, r, g) ==
    LET l == op[p].label
    IN  /\ Become(p, o) /\ GoesOn(op[p], o)
        /\ tables' = [tables EXCEPT ![l] = t]
        /\ objects' = [objects EXCEPT ![l] = r]
        /\ tags' = [tags EXCEPT ![l] = g]
        /\ (r = RowAt(p) /\ g = TagsAt(p)) \/ g \subseteq {r.by}
        /\ Knows(op[p], TableOf(p), RowAt(p), TagsAt(p)) =>
               StepsTo(op[p], TableOf(p), RowAt(p), o, t, r, g)

\* Where neither store changes, only the call does.
LEMMA CallLeads ==
    ASSUME TypeInv, NEW p \in Process, op[p].label \in Label, NEW o, Become(p, o),
           GoesOn(op[p], o), UNCHANGED <<tables, objects, tags>>, ~AtLast(op[p]),
           Knows(op[p], TableOf(p), RowAt(p), TagsAt(p)) =>
               /\ o # IdleOp => Knows(o, TableOf(p), RowAt(p), TagsAt(p))
               /\ Midway(op[p], TableOf(p)) =>
                      \/ Midway(o, TableOf(p))
                      \/ o = IdleOp /\ Wrote(op[p], TableOf(p)) /\ op[p].call \in Call
    PROVE  Leads(p, o, TableOf(p), RowAt(p), TagsAt(p))
PROOF
  <1> DEFINE l == op[p].label
             t == TableOf(p)
             r == RowAt(p)
  <1>1. /\ tables' = [tables EXCEPT ![l] = tables[l]]
        /\ objects' = [objects EXCEPT ![l] = objects[l]]
        /\ tags' = [tags EXCEPT ![l] = tags[l]]
    BY DEF TypeInv, TypeOK, WriterTypeOK, RegistryTypeOK
  <1>2. ASSUME Wrote(op[p], t), op[p].call \in Call, r.by = op[p].call
        PROVE  Agreed(t, r)
    <2>1. op[p].call # 0
      BY <1>2 DEF Call
    <2>2. t # NoTable /\ r # NoRow
      BY <1>2, <2>1 DEF Wrote, NoTable, NoRow
    <2> QED BY <1>2, <2>2 DEF Agreed, Wrote
  <1>3. ASSUME Knows(op[p], t, r, TagsAt(p))
        PROVE  StepsTo(op[p], t, r, o, t, r, TagsAt(p))
    BY <1>2, <1>3 DEF StepsTo
  <1> QED BY <1>1, <1>3 DEF Leads, TableOf, RowAt, TagsAt

\* The steps up to the last commit.
LEMMA WriteLeads ==
    ASSUME TypeInv, NEW p \in Process,
           WriteCreate(p) \/ WriteLoad(p) \/ WriteCommit(p) \/ PutFlush(p)
    PROVE  \E o, t, r, g : Leads(p, o, t, r, g)
PROOF
  <1> DEFINE c == op[p]
             l == op[p].label
             t0 == TableOf(p)
             r0 == RowAt(p)
             g0 == TagsAt(p)
  <1>1. /\ c \in Op /\ c.pc # "idle" /\ l \in Label /\ ~AtLast(c) /\ c.call \in Call
        /\ tables \in [Label -> Version \cup {NoTable}]
        /\ objects' = objects /\ tags' = tags
    BY DEF TypeInv, TypeOK, WriterTypeOK, OpShape, CallShape, WritePc, AtLast, At,
           WriteCreate, WriteLoad, WriteCommit, PutFlush, registryVars
  <1>2. ASSUME Finish(p), UNCHANGED tables, c.pc \in {"load", "commit", "create"},
               c.pc = "commit" => t0 # c.base
        PROVE  \E o, t, r, g : Leads(p, o, t, r, g)
    <2>1. Become(p, IdleOp) /\ GoesOn(c, IdleOp)
      BY <1>2 DEF Finish, GoesOn
    <2>2. Knows(c, t0, r0, g0) /\ Midway(c, t0) => Wrote(c, t0) /\ c.call \in Call
      BY <1>1, <1>2 DEF Knows, Midway
    <2>3. Leads(p, IdleOp, t0, r0, g0)
      BY <1>1, <1>2, <2>1, <2>2, CallLeads
    <2> QED BY <2>3
  <1>3. CASE WriteCreate(p)
    <2> DEFINE new == NextVersion(p, FALSE)
               o == [c EXCEPT !.pc = "commit", !.n = @ + 1, !.base = new]
    <2>1. CASE l \in Present
      <3>1. Finish(p) /\ UNCHANGED tables /\ c.pc = "create"
        BY <1>3, <2>1 DEF WriteCreate, At
      <3> QED BY <1>2, <3>1
    <2>2. CASE l \notin Present
      <3>1. Become(p, o) /\ tables' = [tables EXCEPT ![l] = new]
        BY <1>3, <2>2 DEF WriteCreate, CreateTable
      <3>2. o.pc = "commit" /\ o.label = l /\ o.call = c.call /\ o.base = new /\ ~new.filled
        BY <1>1 DEF Op, NextVersion
      <3>3. GoesOn(c, o) /\ Knows(o, new, r0, g0) /\ Midway(o, new)
        BY <3>2 DEF GoesOn, Knows, Midway
      <3>4. objects' = [objects EXCEPT ![l] = r0] /\ tags' = [tags EXCEPT ![l] = g0]
        BY <1>1 DEF RowAt, TagsAt, TypeInv, TypeOK, RegistryTypeOK
      <3>5. StepsTo(c, t0, r0, o, new, r0, g0)
        BY <1>1, <3>3 DEF StepsTo
      <3>6. Leads(p, o, new, r0, g0)
        BY <3>1, <3>3, <3>4, <3>5 DEF Leads
      <3> QED BY <3>6
    <2> QED BY <2>1, <2>2
  <1>4. CASE WriteLoad(p)
    <2> DEFINE o == [c EXCEPT !.pc = "commit", !.base = t0]
    <2>1. c.pc = "load" /\ UNCHANGED tables
      BY <1>4 DEF WriteLoad, At
    <2>2. CASE Finish(p)
      BY <1>2, <2>1, <2>2
    <2>3. CASE Become(p, o)
      <3>1. o.pc = "commit" /\ o.label = l /\ o.call = c.call /\ o.base = t0
        BY <1>1 DEF Op
      <3>2. GoesOn(c, o) /\ Knows(o, t0, r0, g0) /\ (Midway(c, t0) => Midway(o, t0))
        BY <2>1, <3>1 DEF GoesOn, Knows, Midway, Wrote
      <3>3. Leads(p, o, t0, r0, g0)
        BY <1>1, <2>1, <2>3, <3>2, CallLeads
      <3> QED BY <3>3
    <2> QED BY <1>4, <2>2, <2>3 DEF WriteLoad, TableOf
  <1>5. CASE WriteCommit(p)
    <2> DEFINE new == NextVersion(p, TRUE)
    <2>1. CASE t0 # c.base
      <3>1. Finish(p) /\ UNCHANGED tables /\ c.pc = "commit"
        BY <1>5, <2>1 DEF WriteCommit, At, TableOf
      <3> QED BY <1>2, <2>1, <3>1
    <2>2. CASE t0 = c.base
      <3>1. /\ tables' = [tables EXCEPT ![l] = new]
            /\ \/ Become(p, [c EXCEPT !.pc = "record", !.n = @ + 1])
               \/ Become(p, [c EXCEPT !.pc = "flush", !.n = @ + 1, !.mode = "append"])
        BY <1>5, <2>2 DEF WriteCommit, CommitSnapshot, TableOf
      <3>2. PICK o : /\ Become(p, o) /\ o.pc \in {"record", "flush"}
                     /\ o.label = l /\ o.call = c.call
        <4>1. /\ [c EXCEPT !.pc = "record", !.n = @ + 1].pc = "record"
              /\ [c EXCEPT !.pc = "record", !.n = @ + 1].label = l
              /\ [c EXCEPT !.pc = "record", !.n = @ + 1].call = c.call
          BY <1>1 DEF Op
        <4>2. /\ [c EXCEPT !.pc = "flush", !.n = @ + 1, !.mode = "append"].pc = "flush"
              /\ [c EXCEPT !.pc = "flush", !.n = @ + 1, !.mode = "append"].label = l
              /\ [c EXCEPT !.pc = "flush", !.n = @ + 1, !.mode = "append"].call = c.call
          BY <1>1 DEF Op
        <4> QED BY <3>1, <4>1, <4>2
      <3>3. new.filled /\ new.by = c.call
        BY DEF NextVersion
      <3>4. GoesOn(c, o) /\ Knows(o, new, r0, g0) /\ Midway(o, new)
        BY <3>2, <3>3 DEF GoesOn, Knows, Midway, Wrote
      <3>5. objects' = [objects EXCEPT ![l] = r0] /\ tags' = [tags EXCEPT ![l] = g0]
        BY <1>1 DEF RowAt, TagsAt, TypeInv, TypeOK, RegistryTypeOK
      <3>6. StepsTo(c, t0, r0, o, new, r0, g0)
        BY <1>1, <3>4 DEF StepsTo
      <3>7. Leads(p, o, new, r0, g0)
        BY <3>1, <3>2, <3>4, <3>5, <3>6 DEF Leads
      <3> QED BY <3>7
    <2> QED BY <2>1, <2>2
  <1>6. CASE PutFlush(p)
    <2> DEFINE o == [c EXCEPT !.pc = WriteBranch(l)]
    <2>1. c.pc = "flush" /\ Become(p, o) /\ UNCHANGED tables
      BY <1>6 DEF PutFlush, Goto, At
    <2>2. o.pc = WriteBranch(l) /\ o.label = l /\ o.call = c.call
      BY <1>1 DEF Op
    <2>3. GoesOn(c, o) /\ o.pc \in {"load", "create"}
      BY <2>2 DEF GoesOn, WriteBranch
    <2>4. ASSUME Knows(c, t0, r0, g0)
          PROVE  Knows(o, t0, r0, g0) /\ Midway(o, t0)
      <3>1. Wrote(c, t0)
        BY <2>1, <2>4 DEF Knows
      <3>2. l \in Present
        BY <1>1, <3>1 DEF Present, Wrote, TableOf, NoTable
      <3>3. o.pc = "load"
        BY <2>2, <3>2 DEF WriteBranch
      <3> QED BY <2>2, <3>1, <3>3 DEF Knows, Midway, Wrote
    <2>5. Leads(p, o, t0, r0, g0)
      BY <1>1, <2>1, <2>3, <2>4, CallLeads
    <2> QED BY <2>5
  <1> QED BY <1>3, <1>4, <1>5, <1>6

\* The steps of a derive up to its record.
LEMMA DeriveLeads ==
    ASSUME TypeInv, NEW p \in Process, DeriveProbe(p) \/ DeriveCtas(p) \/ DeriveParent(p)
    PROVE  \E o, t, r, g : Leads(p, o, t, r, g)
PROOF
  <1> DEFINE c == op[p]
             l == op[p].label
             t0 == TableOf(p)
             r0 == RowAt(p)
             g0 == TagsAt(p)
  <1>1. /\ c \in Op /\ c.pc # "idle" /\ l \in Label /\ ~AtLast(c) /\ c.call \in Call
        /\ tables \in [Label -> Version \cup {NoTable}]
        /\ objects' = objects /\ tags' = tags
    BY DEF TypeInv, TypeOK, WriterTypeOK, OpShape, CallShape, WritePc, AtLast, At,
           DeriveProbe, DeriveCtas, DeriveParent, registryVars
  <1>2. ASSUME Finish(p), UNCHANGED tables, c.pc \in {"probe", "ctas"}
        PROVE  \E o, t, r, g : Leads(p, o, t, r, g)
    <2>1. Become(p, IdleOp) /\ GoesOn(c, IdleOp)
      BY <1>2 DEF Finish, GoesOn
    <2>2. ~Midway(c, t0)
      BY <1>2 DEF Midway
    <2>3. Leads(p, IdleOp, t0, r0, g0)
      BY <1>1, <1>2, <2>1, <2>2, CallLeads
    <2> QED BY <2>3
  <1>3. CASE DeriveProbe(p)
    <2> DEFINE o == [c EXCEPT !.pc = "ctas"]
    <2>1. c.pc = "probe" /\ UNCHANGED tables
      BY <1>3 DEF DeriveProbe, At
    <2>2. CASE Finish(p)
      BY <1>2, <2>1, <2>2
    <2>3. CASE Goto(p, "ctas")
      <3>1. o.pc = "ctas" /\ o.label = l /\ o.call = c.call /\ Become(p, o)
        BY <1>1, <2>3 DEF Op, Goto
      <3>2. GoesOn(c, o) /\ Knows(o, t0, r0, g0) /\ ~Midway(c, t0)
        BY <2>1, <3>1 DEF GoesOn, Knows, Midway
      <3>3. Leads(p, o, t0, r0, g0)
        BY <1>1, <2>1, <3>1, <3>2, CallLeads
      <3> QED BY <3>3
    <2> QED BY <1>3, <2>2, <2>3 DEF DeriveProbe
  <1>4. CASE DeriveCtas(p)
    <2> DEFINE new == NextVersion(p, TRUE)
               o == [c EXCEPT !.pc = "parents", !.todo = c.sql]
    <2>1. CASE Finish(p) /\ UNCHANGED tables
      BY <1>2, <1>4, <2>1 DEF DeriveCtas, At
    <2>2. CASE SwapTable(l, new) /\ Become(p, o)
      <3>1. o.pc = "parents" /\ o.label = l /\ o.call = c.call
        BY <1>1 DEF Op
      <3>2. new.filled /\ new.by = c.call
        BY DEF NextVersion
      <3>3. GoesOn(c, o) /\ Knows(o, new, r0, g0) /\ Midway(o, new)
        BY <3>1, <3>2 DEF GoesOn, Knows, Midway, Wrote
      <3>4. objects' = [objects EXCEPT ![l] = r0] /\ tags' = [tags EXCEPT ![l] = g0]
        BY <1>1 DEF RowAt, TagsAt, TypeInv, TypeOK, RegistryTypeOK
      <3>5. StepsTo(c, t0, r0, o, new, r0, g0)
        BY <1>1, <3>3 DEF StepsTo
      <3>6. Leads(p, o, new, r0, g0)
        BY <2>2, <3>3, <3>4, <3>5 DEF Leads, SwapTable
      <3> QED BY <3>6
    <2> QED BY <1>4, <2>1, <2>2 DEF DeriveCtas
  <1>5. CASE DeriveParent(p)
    <2>1. PICK k \in c.todo : Become(p, [c EXCEPT !.todo = @ \ {k},
                                                  !.parents = @ \cup ({k} \cap Present)])
      BY <1>5 DEF DeriveParent
    <2> DEFINE o == [c EXCEPT !.todo = @ \ {k}, !.parents = @ \cup ({k} \cap Present)]
    <2>2. c.pc = "parents" /\ UNCHANGED tables
      BY <1>5 DEF DeriveParent, At
    <2>3. o.pc = "parents" /\ o.label = l /\ o.call = c.call
      BY <1>1, <2>2 DEF Op
    <2>4. GoesOn(c, o)
      BY <2>3 DEF GoesOn
    <2>5. ASSUME Knows(c, t0, r0, g0)
          PROVE  Knows(o, t0, r0, g0) /\ (Midway(c, t0) => Midway(o, t0))
      BY <2>2, <2>3, <2>5 DEF Knows, Midway, Wrote
    <2>6. Leads(p, o, t0, r0, g0)
      BY <1>1, <2>1, <2>2, <2>4, <2>5, CallLeads
    <2> QED BY <2>6
  <1> QED BY <1>3, <1>4, <1>5

\* The steps that a call ends with, and those of a describe.
LEMMA EndingLeads ==
    ASSUME TypeInv, NEW p \in Process,
           Record(p) \/ DescribeGet(p) \/ RepairExists(p) \/ RepairRecord(p)
              \/ ForgetUnregister(p)
    PROVE  \E o, t, r, g : Leads(p, o, t, r, g)
PROOF
  <1> DEFINE c == op[p]
             l == op[p].label
             t0 == TableOf(p)
             r0 == RowAt(p)
             g0 == TagsAt(p)
  <1>1. /\ c \in Op /\ c.pc # "idle" /\ l \in Label
        /\ tables \in [Label -> Version \cup {NoTable}]
        /\ tables' = tables /\ tables' = [tables EXCEPT ![l] = t0]
    BY DEF TypeInv, TypeOK, WriterTypeOK, OpShape, CallShape, At, TableOf, ReadyToRecord,
           Record, DescribeGet, RepairExists, RepairRecord, ForgetUnregister
  <1>2. ASSUME Finish(p) PROVE Become(p, IdleOp) /\ GoesOn(c, IdleOp)
    BY <1>2 DEF Finish, GoesOn
  <1>3. ASSUME NEW pc \in {"get", "exists", "repair"}, Goto(p, pc)
        PROVE  \E o : /\ Become(p, o) /\ GoesOn(c, o)
                      /\ o.pc = pc /\ o.call = c.call /\ o # IdleOp
    <2> DEFINE o == [c EXCEPT !.pc = pc]
    <2>1. o.pc = pc /\ o.label = l /\ o.call = c.call
      BY <1>1 DEF Op
    <2>2. o # IdleOp
      BY <2>1 DEF IdleOp
    <2> QED BY <1>3, <2>1, <2>2 DEF Goto, GoesOn
  <1>4. CASE Record(p)
    <2> DEFINE r == RowOf(p)
               g == TagsOf(p)
    <2>1. /\ ReadyToRecord(p)
          /\ objects' = [objects EXCEPT ![l] = r] /\ tags' = [tags EXCEPT ![l] = g]
          /\ IF c.tool = "put" THEN Finish(p) ELSE Goto(p, "get")
      BY <1>4 DEF Record, RecordObjectGuarded, UpsertObject
    <2>2. c.pc \in {"record", "parents"} /\ c.call \in Call
      BY <2>1 DEF ReadyToRecord, At, TypeInv, OpShape, CallShape, WritePc
    <2>3. r.by = c.call /\ g \subseteq {c.call} /\ (c.tool # "put" => g = {c.call})
      BY DEF RowOf, TagsOf
    <2>4. ASSUME Wrote(c, t0) PROVE Agreed(t0, r)
      <3>1. c.call # 0
        BY <2>2 DEF Call
      <3>2. t0 # NoTable /\ r # NoRow
        BY <2>3, <2>4, <3>1 DEF Wrote, NoTable, NoRow
      <3> QED BY <2>3, <2>4, <3>2 DEF Agreed, Wrote
    <2>5. PICK o : /\ Become(p, o) /\ GoesOn(c, o)
                   /\ o # IdleOp => o.pc = "get" /\ o.call = c.call /\ c.tool # "put"
      <3>1. CASE c.tool = "put"
        BY <1>2, <2>1, <3>1
      <3>2. CASE c.tool # "put"
        <4>1. Goto(p, "get")
          BY <2>1, <3>2
        <4> QED BY <1>3, <3>2, <4>1
      <3> QED BY <3>1, <3>2
    <2> HIDE DEF r, g
    <2>6. ASSUME Knows(c, t0, r0, g0)
          PROVE  StepsTo(c, t0, r0, o, t0, r, g)
      <3>1. Wrote(c, t0)
        BY <2>2, <2>6 DEF Knows
      <3>2. o # IdleOp => Knows(o, t0, r, g)
        BY <2>2, <2>3, <2>5, <3>1 DEF Knows, Wrote
      <3> QED BY <2>4, <3>1, <3>2 DEF StepsTo
    <2>7. Leads(p, o, t0, r, g)
      BY <1>1, <2>1, <2>3, <2>5, <2>6 DEF Leads
    <2> QED BY <2>7
  <1>5. CASE DescribeGet(p)
    <2>1. /\ c.pc = "get" /\ UNCHANGED <<tables, objects, tags>>
          /\ IF l \in Registered THEN Finish(p) ELSE Goto(p, "exists")
      BY <1>5 DEF DescribeGet, At, registryVars
    <2>2. ~AtLast(c) /\ ~Midway(c, t0)
      BY <2>1 DEF AtLast, Midway
    <2>3. PICK o : /\ Become(p, o) /\ GoesOn(c, o) /\ (o # IdleOp => l \notin Registered)
      <3>1. CASE l \in Registered
        BY <1>2, <2>1, <3>1
      <3>2. CASE l \notin Registered
        <4>1. Goto(p, "exists")
          BY <2>1, <3>2
        <4> QED BY <1>3, <3>2, <4>1
      <3> QED BY <3>1, <3>2
    <2>4. ASSUME Knows(c, t0, r0, g0) PROVE o = IdleOp
      <3>1. r0.by \in Call
        BY <2>1, <2>4 DEF Knows
      <3>2. r0 # NoRow
        BY <3>1 DEF NoRow, Call
      <3> QED BY <1>1, <2>3, <3>2 DEF Registered, RowAt
    <2>5. Leads(p, o, t0, r0, g0)
      BY <1>1, <2>1, <2>2, <2>3, <2>4, CallLeads
    <2> QED BY <2>5
  <1>6. CASE RepairExists(p)
    <2>1. /\ c.pc = "exists" /\ UNCHANGED <<tables, objects, tags>>
          /\ IF l \in Present THEN Goto(p, "repair") ELSE Finish(p)
      BY <1>6 DEF RepairExists, At, registryVars
    <2>2. ~AtLast(c) /\ ~Midway(c, t0)
      BY <2>1 DEF AtLast, Midway
    <2>3. PICK o : /\ Become(p, o) /\ GoesOn(c, o)
                   /\ o # IdleOp => l \in Present /\ o.pc = "repair" /\ o.call = c.call
      <3>1. CASE l \notin Present
        BY <1>2, <2>1, <3>1
      <3>2. CASE l \in Present
        <4>1. Goto(p, "repair")
          BY <2>1, <3>2
        <4> QED BY <1>3, <3>2, <4>1
      <3> QED BY <3>1, <3>2
    <2>4. ASSUME Knows(c, t0, r0, g0), o # IdleOp PROVE Knows(o, t0, r0, g0)
      <3>1. t0 # NoTable
        BY <2>3, <2>4 DEF Present, TableOf
      <3> QED BY <2>1, <2>3, <2>4, <3>1 DEF Knows
    <2>5. Leads(p, o, t0, r0, g0)
      BY <1>1, <2>1, <2>2, <2>3, <2>4, CallLeads
    <2> QED BY <2>5
  <1>7. CASE RepairRecord(p)
    <2>1. /\ c.pc = "repair" /\ Become(p, IdleOp) /\ GoesOn(c, IdleOp)
          /\ objects' = [objects EXCEPT ![l] = ReconciledRow] /\ tags' = [tags EXCEPT ![l] = {}]
      BY <1>2, <1>7 DEF RepairRecord, At, RecordObject, UpsertObject
    <2>2. ASSUME Knows(c, t0, r0, g0)
          PROVE  StepsTo(c, t0, r0, IdleOp, t0, ReconciledRow, {})
      BY <2>1, <2>2 DEF StepsTo, Knows, Midway, AtLast, Agreed
    <2>3. Leads(p, IdleOp, t0, ReconciledRow, {})
      BY <1>1, <2>1, <2>2 DEF Leads
    <2> QED BY <2>3
  <1>8. CASE ForgetUnregister(p)
    <2>1. /\ c.pc = "unregister" /\ Become(p, IdleOp) /\ GoesOn(c, IdleOp)
          /\ objects' = [objects EXCEPT ![l] = NoRow] /\ tags' = [tags EXCEPT ![l] = {}]
      BY <1>2, <1>8 DEF ForgetUnregister, At, DeleteObject
    <2>2. ASSUME Knows(c, t0, r0, g0)
          PROVE  StepsTo(c, t0, r0, IdleOp, t0, NoRow, {})
      BY <2>1, <2>2 DEF StepsTo, Knows, Agreed
    <2>3. Leads(p, IdleOp, t0, NoRow, {})
      BY <1>1, <2>1, <2>2 DEF Leads
    <2> QED BY <2>3
  <1> QED BY <1>4, <1>5, <1>6, <1>7, <1>8

\* Whatever a call does next, it does to its own dataset, and if nobody
\* disturbed it, as it should.
LEMMA StepLeads ==
    ASSUME TypeInv, NEW p \in Process, CallStep(p)
    PROVE  \E o, t, r, g : Leads(p, o, t, r, g)
PROOF
  BY WriteLeads, DeriveLeads, EndingLeads DEF CallStep

(***************************************************************************)
(* The invariant.                                                          *)
(***************************************************************************)

\* A process between calls holds nothing of the last one.
IdleInv == \A p \in Process : op[p].pc = "idle" => op[p] = IdleOp

\* Tags are those of the call that wrote the row.
TagsInv == \A l \in Label : tags[l] \subseteq {objects[l].by}

WroteInv == \A l \in Present : tables[l].filled => tables[l].by \in wrote

\* No process but p, and no sweep, is at work on l.
Alone(p, l) == (\A r \in Process \ {p} : op[r].label # l) /\ ~SweepMinds(l)

\* A process that never shared its dataset shares it with nobody now, and
\* what a process that did share works on is tangled.
CompanyInv ==
    /\ crowded \subseteq Process
    /\ \A p \in crowded : /\ LabelOf(p) # "none"
                          /\ op[p].label \in Label => op[p].label \in tangled
    /\ \A p \in Process \ crowded : LabelOf(p) \in Label => Alone(p, LabelOf(p))

\* A call that never shared its dataset finds it as it left it.
HandInv ==
    \A p \in Process \ crowded :
        op[p].pc # "idle" => Knows(op[p], TableOf(p), RowAt(p), TagsAt(p))

\* The stores agree on a dataset, or one call is about to make them.
CalmInv ==
    \A l \in Label \ tangled :
        Agreed(tables[l], objects[l]) \/ \E p \in AtWork(l) : Midway(op[p], tables[l])

\* A sweep's snapshot is right about a dataset that nobody shared, so that it
\* has no row to write for it, and deletes its row only if it has no table.
SweepCalm ==
    \A l \in Label \ tangled :
        /\ sweep.pc \in {"labels", "plan"} /\ l \in sweep.live => l \in Present
        /\ sweep.pc = "plan" /\ l \in Registered => l \in sweep.reg
        /\ l \notin sweep.plan.backfill
        /\ sweep.pc = "delete" /\ sweep.label = l => l \notin Present

\* An answer is put together by an idle process.
ViewInv ==
    /\ view \in [Process -> View]
    /\ \A p \in Process : /\ ~Free(p) => At(p, "idle") /\ view[p].label \in Label
                          /\ view[p].pc = "none" => Free(p)

\* What an answer to a call holds, and the table the call wrote.
Tells(v, t) ==
    /\ v.pc # "again"
    /\ v.row.by = v.own /\ v.tags = {v.own}
    /\ t.by = v.own /\ t.filled
    /\ v.pc \in {"parents", "count", "answered"} => v.schema = t
    /\ v.pc = "answered" => v.count = t

ToldInv ==
    \A p \in Process \ crowded : view[p].own > 0 => Tells(view[p], tables[view[p].label])

\* A step of q that makes it o, and changes nothing but label l.
Touches(q, o, l) ==
    /\ Become(q, o) /\ UNCHANGED sweep
    /\ op[q].label = l \/ (op[q].pc = "idle" /\ o.label = l)
    /\ o = IdleOp \/ (o.pc # "idle" /\ o.label = l)
    /\ \A k \in Label \ {l} : /\ tables'[k] = tables[k] /\ objects'[k] = objects[k]
                              /\ tags'[k] = tags[k]

\* Where a call begins, the stores stay, except that a forget drops its table
\* at once.
Begins(q, o, l) ==
    /\ Touches(q, o, l) /\ op[q].pc = "idle" /\ o # IdleOp
    /\ objects' = objects /\ tags' = tags
    /\ o.pc # "unregister" => tables' = tables
    /\ Knows(o, tables'[l], objects[l], tags[l])

\* A call that begins is undisturbed.
LEMMA BeginBegins ==
    ASSUME TypeInv, NEW q \in Process, BeginSomeCall(q)
    PROVE  \E o : \E l \in Label : Begins(q, o, l)
PROOF
  <1>1. /\ op[q].pc = "idle" /\ UNCHANGED sweep
        /\ objects' = objects /\ tags' = tags
        /\ tables \in [Label -> Version \cup {NoTable}]
    BY DEF BeginSomeCall, BeginStep, BeginIngest, BeginPut, BeginWrite, BeginDerive, MayBegin, At,
           BeginDescribe, BeginForget, registryVars, TypeInv, TypeOK, WriterTypeOK
  <1>2. ASSUME NEW o, NEW l \in Label, Become(q, o), o.pc # "idle", o.label = l,
               o.pc # "unregister" => tables' = tables,
               \A k \in Label \ {l} : tables'[k] = tables[k],
               Knows(o, tables'[l], objects[l], tags[l])
        PROVE  \E oo : \E ll \in Label : Begins(q, oo, ll)
    <2>1. o # IdleOp
      BY <1>2 DEF IdleOp
    <2>2. Begins(q, o, l)
      BY <1>1, <1>2, <2>1 DEF Begins, Touches
    <2> QED BY <2>2
  <1>3. ASSUME NEW tool \in {"ingest", "put"}, BeginWrite(q, tool)
        PROVE  \E o : \E l \in Label : Begins(q, o, l)
    <2>1. PICK mode \in Mode, l \in Label :
              /\ Become(q, [IdleOp EXCEPT !.pc = WriteBranch(l), !.tool = tool, !.mode = mode,
                                          !.label = l, !.call = calls + 1])
              /\ UNCHANGED tables
      BY <1>3 DEF BeginWrite, BeginNumbered, IdleOp
    <2> DEFINE o == [IdleOp EXCEPT !.pc = WriteBranch(l), !.tool = tool, !.mode = mode,
                                   !.label = l, !.call = calls + 1]
    <2>2. o.pc = WriteBranch(l) /\ o.label = l
      BY DEF IdleOp
    <2>3. o.pc \in {"load", "create"} /\ (o.pc = "create" => tables[l] = NoTable)
      BY <2>2 DEF WriteBranch, Present
    <2>4. Knows(o, tables'[l], objects[l], tags[l])
      BY <2>1, <2>3 DEF Knows
    <2> HIDE DEF o
    <2> QED BY <1>2, <2>1, <2>2, <2>3, <2>4 DEF o
  <1>4. CASE BeginDerive(q)
    <2>1. PICK mode \in Mode, l \in Label, refs \in SUBSET Label :
              /\ Become(q, [IdleOp EXCEPT
                     !.pc = IF mode = "replace" /\ l \in Present THEN "probe" ELSE "ctas",
                     !.tool = "derive", !.mode = mode, !.label = l, !.sql = refs,
                     !.call = calls + 1])
              /\ UNCHANGED tables
      BY <1>4 DEF BeginDerive, BeginNumbered, IdleOp
    <2> DEFINE o == [IdleOp EXCEPT
                     !.pc = IF mode = "replace" /\ l \in Present THEN "probe" ELSE "ctas",
                     !.tool = "derive", !.mode = mode, !.label = l, !.sql = refs,
                     !.call = calls + 1]
    <2>2. o.pc \in {"probe", "ctas"} /\ o.label = l
      BY DEF IdleOp
    <2>4. Knows(o, tables'[l], objects[l], tags[l])
      BY <2>1, <2>2 DEF Knows
    <2> HIDE DEF o
    <2> QED BY <1>2, <2>1, <2>2, <2>4 DEF o
  <1>5. CASE BeginDescribe(q)
    <2>1. PICK l \in Label :
              /\ l \notin Registered
              /\ Become(q, [IdleOp EXCEPT !.pc = "exists", !.tool = "describe", !.label = l])
              /\ UNCHANGED tables
      BY <1>5 DEF BeginDescribe
    <2> DEFINE o == [IdleOp EXCEPT !.pc = "exists", !.tool = "describe", !.label = l]
    <2>2. o.pc = "exists" /\ o.label = l /\ o.call = 0
      BY DEF IdleOp
    <2>4. Knows(o, tables'[l], objects[l], tags[l])
      BY <2>1, <2>2 DEF Knows, Registered
    <2> HIDE DEF o
    <2> QED BY <1>2, <2>1, <2>2, <2>4 DEF o
  <1>6. CASE BeginForget(q)
    <2>1. PICK l \in Label :
              /\ tables' = [tables EXCEPT ![l] = NoTable]
              /\ Become(q, [IdleOp EXCEPT !.pc = "unregister", !.tool = "forget", !.label = l])
      BY <1>6 DEF BeginForget, DropTable
    <2> DEFINE o == [IdleOp EXCEPT !.pc = "unregister", !.tool = "forget", !.label = l]
    <2>2. o.pc = "unregister" /\ o.label = l
      BY DEF IdleOp
    <2>3. tables'[l] = NoTable /\ \A k \in Label \ {l} : tables'[k] = tables[k]
      BY <1>1, <2>1
    <2>4. Knows(o, tables'[l], objects[l], tags[l])
      BY <2>2, <2>3 DEF Knows
    <2> HIDE DEF o
    <2> QED BY <1>2, <2>1, <2>2, <2>3, <2>4 DEF o
  <1> QED BY <1>3, <1>4, <1>5, <1>6 DEF BeginSomeCall, BeginStep, BeginIngest, BeginPut

\* A step of q's call on l.
Runs(q, o, l) ==
    /\ Touches(q, o, l) /\ op[q].pc # "idle" /\ op[q].label = l
    /\ \/ objects'[l] = objects[l] /\ tags'[l] = tags[l]
       \/ tags'[l] \subseteq {objects'[l].by}
    /\ Knows(op[q], tables[l], objects[l], tags[l]) =>
           StepsTo(op[q], tables[l], objects[l], o, tables'[l], objects'[l], tags'[l])

\* A fault ends q's call on l.
Breaks(q, l) ==
    /\ Touches(q, IdleOp, l) /\ op[q].pc # "idle" /\ op[q].label = l
    /\ UNCHANGED <<tables, objects, tags>>

\* A call that goes on works on its own dataset, and as it should if undisturbed.
LEMMA RunRuns ==
    ASSUME TypeInv, NEW q \in Process, RunCall(q)
    PROVE  \E o : \E l \in Label : Runs(q, o, l)
PROOF
  <1> DEFINE l == op[q].label
  <1>1. PICK o, t, r, g : Leads(q, o, t, r, g)
    BY StepLeads DEF RunCall
  <1>2. l \in Label /\ op[q].pc # "idle" /\ UNCHANGED sweep
    BY DEF RunCall, CallStep, WriteCreate, WriteLoad, WriteCommit, PutFlush, DeriveProbe,
           DeriveCtas, DeriveParent, Record, ReadyToRecord, DescribeGet, RepairExists,
           RepairRecord, ForgetUnregister, At, TypeInv, OpShape, CallShape
  <1>3. /\ tables \in [Label -> Version \cup {NoTable}]
        /\ objects \in [Label -> Row \cup {NoRow}] /\ tags \in [Label -> SUBSET Call]
    BY DEF TypeInv, TypeOK, WriterTypeOK, RegistryTypeOK
  <1>4. /\ tables' = [tables EXCEPT ![l] = t] /\ objects' = [objects EXCEPT ![l] = r]
        /\ tags' = [tags EXCEPT ![l] = g]
    BY <1>1 DEF Leads
  <1>5. /\ tables'[l] = t /\ objects'[l] = r /\ tags'[l] = g
        /\ \A k \in Label \ {l} : /\ tables'[k] = tables[k] /\ objects'[k] = objects[k]
                                  /\ tags'[k] = tags[k]
    BY <1>2, <1>3, <1>4
  <1>6. Touches(q, o, l)
    BY <1>1, <1>2, <1>5 DEF Touches, Leads, GoesOn
  <1>7. Runs(q, o, l)
    BY <1>1, <1>2, <1>5, <1>6 DEF Runs, Leads, TableOf, RowAt, TagsAt
  <1> QED BY <1>2, <1>7

\* A fault leaves the stores as they are.
LEMMA FaultBreaks ==
    ASSUME TypeInv, NEW q \in Process, FailCall(q)
    PROVE  Breaks(q, op[q].label) /\ op[q].label \in Label
PROOF
  <1>1. /\ op[q].pc # "idle" /\ UNCHANGED <<tables, objects, tags, sweep>> /\ Finish(q)
    BY DEF FailCall, WriterFault, RecordPending, Die, ReadyToRecord, At, registryVars
  <1>2. op[q].label \in Label
    BY <1>1 DEF TypeInv, OpShape, CallShape
  <1> QED BY <1>1, <1>2 DEF Breaks, Touches, Finish

\* A call's turn: it begins, goes on or is broken off.
Turn(q) == BeginSomeCall(q) \/ RunCall(q) \/ FailCall(q)

\* A turn of any kind changes one process and one dataset.
LEMMA TurnTouches ==
    ASSUME TypeInv, NEW q \in Process, Turn(q)
    PROVE  \E o : \E l \in Label : Touches(q, o, l)
PROOF
  BY BeginBegins, RunRuns, FaultBreaks DEF Turn, Begins, Runs, Breaks

\* What any step of a sweep does to the stores, and what it keeps of them.
SweepMoves ==
    /\ op' = op /\ tables' = tables
    /\ \A l \in Label :
           \/ objects'[l] = objects[l] /\ tags'[l] = tags[l]
           \/ l \in sweep.plan.backfill /\ tags'[l] = {}
           \/ /\ sweep.pc = "delete" /\ sweep.label = l
              /\ objects'[l] = NoRow /\ tags'[l] = {}
    /\ sweep'.pc = "labels" => sweep'.live \subseteq Present
    /\ sweep'.pc = "plan" => /\ sweep.pc = "labels" /\ sweep'.live = sweep.live
                             /\ sweep'.reg = Registered /\ objects' = objects
    /\ \A l \in sweep'.plan.backfill :
           l \in sweep.plan.backfill \/ (sweep.pc = "plan" /\ l \in sweep.live \ sweep.reg)
    /\ sweep'.pc = "delete" => sweep'.label \notin Present

\* Every step of a sweep, faults included, is such a one.
LEMMA SweepStepMoves ==
    ASSUME TypeInv, RunSweep \/ FailSweep
    PROVE  SweepMoves
PROOF
  <1>1. /\ sweep \in Sweep /\ op' = op
        /\ objects \in [Label -> Row \cup {NoRow}] /\ tags \in [Label -> SUBSET Call]
    BY DEF TypeInv, TypeOK, SweepTypeOK, RegistryTypeOK, RunSweep, FailSweep, writerVars
  <1>2. SweepStep \/ SweepFault
    BY DEF RunSweep, FailSweep
  <1>3. CASE SweepList \/ SweepListShort
    <2>1. PICK live \in SUBSET Present : SweepListed(live)
      BY <1>3 DEF SweepList, SweepListShort
    <2> QED BY <1>1, <2>1 DEF SweepListed, SweepMoves, registryVars, Sweep
  <1>4. CASE SweepLabels
    BY <1>1, <1>4 DEF SweepLabels, SweepMoves, registryVars, Sweep
  <1>5. CASE SweepPlan
    <2>1. PlanNamespace(sweep.live, sweep.reg, tombstones).backfill = sweep.live \ sweep.reg
      BY DEF PlanNamespace, NoPlan
    <2>2. /\ sweep' = [sweep EXCEPT !.pc = "apply",
                              !.plan = PlanNamespace(sweep.live, sweep.reg, tombstones)]
          /\ sweep.pc = "plan" /\ UNCHANGED <<objects, tags, tables>>
      BY <1>5 DEF SweepPlan, registryVars
    <2>3. sweep'.pc = "apply" /\ sweep'.plan.backfill = sweep.live \ sweep.reg
      BY <1>1, <2>1, <2>2 DEF Sweep
    <2> QED BY <1>1, <2>2, <2>3 DEF SweepMoves
  <1>6. ASSUME NEW l \in Label, SweepBackfill(l) PROVE SweepMoves
    <2>1. /\ sweep.pc = "apply" /\ l \in sweep.plan.backfill /\ UNCHANGED tables
          /\ sweep' = [sweep EXCEPT !.plan.backfill = @ \ {l}]
          /\ objects' = [objects EXCEPT ![l] = ReconciledRow] /\ tags' = [tags EXCEPT ![l] = {}]
      BY <1>6 DEF SweepBackfill, RecordObject, UpsertObject
    <2>2. sweep'.pc = "apply" /\ sweep'.plan.backfill = sweep.plan.backfill \ {l}
      BY <1>1, <2>1 DEF Sweep, Plan
    <2> QED BY <1>1, <2>1, <2>2 DEF SweepMoves
  <1>7. ASSUME NEW l \in Label, SweepClear(l) \/ SweepBump(l) PROVE SweepMoves
    <2>1. /\ UNCHANGED <<tables, objects, tags>>
          /\ sweep'.pc = "apply" /\ sweep'.plan.backfill = sweep.plan.backfill
      BY <1>1, <1>7 DEF SweepClear, SweepBump, ClearTombstone, BumpTombstone, Sweep, Plan
    <2> QED BY <1>1, <2>1 DEF SweepMoves
  <1>8. ASSUME NEW l \in Label, SweepRecheck(l) PROVE SweepMoves
    <2>1. /\ UNCHANGED <<tables, objects, tags>> /\ sweep.pc = "apply"
          /\ sweep' = [sweep EXCEPT !.pc = IF l \in Present THEN "untomb" ELSE "delete",
                              !.plan.delete = @ \ {l}, !.label = l]
      BY <1>8 DEF SweepRecheck, registryVars
    <2>2. /\ sweep'.pc = IF l \in Present THEN "untomb" ELSE "delete"
          /\ sweep'.plan.backfill = sweep.plan.backfill /\ sweep'.label = l
      BY <1>1, <2>1 DEF Sweep, Plan
    <2> QED BY <1>1, <2>1, <2>2 DEF SweepMoves
  <1>9. CASE SweepDelete
    <2>1. /\ sweep.pc = "delete" /\ UNCHANGED tables
          /\ objects' = [objects EXCEPT ![sweep.label] = NoRow]
          /\ tags' = [tags EXCEPT ![sweep.label] = {}]
          /\ sweep'.pc = "untomb" /\ sweep'.plan = sweep.plan
      BY <1>1, <1>9 DEF SweepDelete, DeleteObject, Sweep
    <2> QED BY <1>1, <2>1 DEF SweepMoves
  <1>10. CASE SweepUntomb
    BY <1>1, <1>10 DEF SweepUntomb, ClearTombstone, SweepMoves, Sweep
  <1>11. CASE SweepEnd \/ SweepStop
    BY <1>1, <1>11 DEF SweepEnd, SweepStop, SweepMoves, registryVars, IdleSweep, NoPlan
  <1> QED
    BY <1>2, <1>3, <1>4, <1>5, <1>6, <1>7, <1>8, <1>9, <1>10, <1>11 DEF SweepStep, SweepFault

\* What Track makes of a step.  A process that is not crowded after it has its
\* dataset to itself, and had it.
LEMMA Uncrowded ==
    ASSUME Track, NEW p \in Process, p \notin crowded', NEW l \in Label, LabelOf(p)' = l
    PROVE  p \notin crowded /\ Alone(p, l)'
PROOF
  <1>1. p \notin crowded /\ ~HasCompany(p)'
    BY NoneAssumption DEF Track
  <1> QED BY <1>1 DEF HasCompany, AtWork, Alone

\* Nor does anybody share a dataset that is not tangled.
LEMMA Untangled ==
    ASSUME Track, IdleInv', NEW l \in Label \ tangled', NEW p \in Process, op'[p].label = l
    PROVE  LabelOf(p)' = l /\ Alone(p, l)'
PROOF
  <1>1. LabelOf(p)' = l
    BY NoneAssumption DEF LabelOf, At, IdleInv, IdleOp
  <1>2. ~HasCompany(p)'
    BY DEF Track
  <1> QED BY <1>1, <1>2 DEF HasCompany, AtWork, Alone

\* A dataset is untangled only by a call that ends its writing on it and had
\* it to itself.
LEMMA UntangledBy ==
    ASSUME Track, NEW l \in tangled, l \notin tangled', l \in Label
    PROVE  \E q \in Process \ crowded : /\ op'[q] # op[q] /\ WritesLast(q) /\ op[q].label = l
                                        /\ faults' = faults
PROOF
  BY DEF Track

\* It is not one that a call broke off on in this step.
LEMMA NotBroken ==
    ASSUME Track, NEW l \in Label \ tangled', NEW p \in Process, op[p].label = l
    PROVE  /\ op'[p] # op[p] => faults' = faults
           /\ faults' = faults /\ op[p].call > 0 => ~LeavesNoRow(p)
PROOF
  BY DEF Track

\* Only the process whose turn it is changes.
LEMMA OneMoves ==
    ASSUME TypeInv, NEW q \in Process, NEW o, NEW l, Touches(q, o, l)
    PROVE  op'[q] = o /\ \A p \in Process \ {q} : op'[p] = op[p]
PROOF
  BY DEF TypeInv, TypeOK, WriterTypeOK, Touches, Become

\* A call that ends leaves nothing behind.
LEMMA IdleStep ==
    ASSUME TypeInv, IdleInv, NEW q \in Process, NEW o, NEW l, Touches(q, o, l)
    PROVE  IdleInv'
PROOF
  BY OneMoves DEF IdleInv, Touches

\* Whoever has a dataset to himself before or after a step of another, has
\* it untouched.
LEMMA Untouched ==
    ASSUME TypeInv, NEW q \in Process, NEW o, NEW l \in Label, Touches(q, o, l),
           NEW p \in Process \ {q}, NEW k \in Label, Alone(p, k), Alone(p, k)'
    PROVE  k # l /\ tables'[k] = tables[k] /\ objects'[k] = objects[k] /\ tags'[k] = tags[k]
PROOF
  <1>1. op'[q] = o /\ (op[q].label = l \/ o.label = l)
    BY OneMoves DEF Touches
  <1>2. k # l
    BY <1>1 DEF Alone
  <1> QED BY <1>2 DEF Touches

\* So does a sweep leave it.
LEMMA Unswept ==
    ASSUME SweepMoves, NEW p, NEW k \in Label, Alone(p, k)
    PROVE  tables'[k] = tables[k] /\ objects'[k] = objects[k] /\ tags'[k] = tags[k]
PROOF
  <1>1. k \notin sweep.plan.backfill /\ sweep.label # k
    BY DEF Alone, SweepMinds, WorkLeft
  <1> QED BY <1>1 DEF SweepMoves

\* Rows and their tags are written and deleted together.
LEMMA TagsStep ==
    ASSUME TypeInv, TagsInv,
           \/ \E q \in Process : Turn(q)
           \/ SweepMoves
    PROVE  TagsInv'
PROOF
  <1> SUFFICES ASSUME NEW l \in Label PROVE tags'[l] \subseteq {objects'[l].by}
    BY DEF TagsInv
  <1>1. tags[l] \subseteq {objects[l].by}
    BY DEF TagsInv
  <1>2. CASE SweepMoves
    BY <1>1, <1>2 DEF SweepMoves
  <1>3. ASSUME NEW q \in Process, BeginSomeCall(q) \/ FailCall(q)
        PROVE  tags'[l] \subseteq {objects'[l].by}
    <2>1. objects' = objects /\ tags' = tags
      BY <1>3, BeginBegins, FaultBreaks DEF Begins, Breaks
    <2> QED BY <1>1, <2>1
  <1>4. ASSUME NEW q \in Process, RunCall(q)
        PROVE  tags'[l] \subseteq {objects'[l].by}
    <2>1. PICK o : \E k \in Label : Runs(q, o, k)
      BY <1>4, RunRuns
    <2>2. PICK k \in Label : Runs(q, o, k)
      BY <2>1
    <2>3. CASE l = k
      BY <1>1, <2>2, <2>3 DEF Runs
    <2>4. CASE l # k
      BY <1>1, <2>2, <2>4 DEF Runs, Touches
    <2> QED BY <2>3, <2>4
  <1> QED BY <1>2, <1>3, <1>4 DEF Turn

\* The invariant, but for the answers.
DataInv ==
    /\ TypeInv /\ IdleInv /\ TagsInv /\ WroteInv
    /\ CompanyInv /\ HandInv /\ CalmInv /\ SweepCalm /\ ViewInv

\* A call that ends its writing alone on its dataset leaves the stores agreed.
LEMMA EndsAgreed ==
    ASSUME DataInv, NEW q \in Process \ crowded, Turn(q), faults' = faults,
           op'[q] # op[q], WritesLast(q), NEW l \in Label, op[q].label = l
    PROVE  Agreed(tables'[l], objects'[l])
PROOF
  <1>1. TypeInv /\ AtLast(op[q]) /\ op[q].pc # "idle"
    BY DEF DataInv, WritesLast, ReadyToRecord, At, AtLast
  <1>2. ~FailCall(q)
    <2>1. /\ faults.writer \in Nat
          /\ faults \in [writer : 0 .. MaxWriterFaults, sweep : 0 .. MaxSweepFaults]
      BY <1>1, FaultsAssumption DEF TypeInv, TypeOK
    <2> QED BY <2>1 DEF FailCall
  <1>3. ~BeginSomeCall(q)
    BY <1>1, BeginBegins DEF Begins
  <1>4. PICK o : \E k \in Label : Runs(q, o, k)
    BY <1>1, <1>2, <1>3, RunRuns DEF Turn
  <1>5. Runs(q, o, l)
    BY <1>4 DEF Runs
  <1>6. Knows(op[q], tables[l], objects[l], tags[l])
    BY <1>1 DEF DataInv, HandInv, TableOf, RowAt, TagsAt
  <1> QED BY <1>1, <1>5, <1>6 DEF Runs, StepsTo

\* A call that works on a dataset that is not tangled afterwards either was
\* there alone, before or after.
LEMMA CalmTurn ==
    ASSUME DataInv, Track, IdleInv', NEW q \in Process, NEW o, NEW l \in Label, Touches(q, o, l),
           l \notin tangled, l \notin tangled'
    PROVE  /\ op[q].pc # "idle" => q \notin crowded /\ Alone(q, l)
           /\ o # IdleOp => Alone(q, l)'
PROOF
  <1>1. op'[q] = o
    BY OneMoves DEF DataInv
  <1>2. ASSUME op[q].pc # "idle" PROVE q \notin crowded /\ Alone(q, l)
    <2>1. op[q].label = l /\ LabelOf(q) = l
      BY <1>2 DEF Touches, LabelOf, At
    <2>2. q \notin crowded
      BY <2>1 DEF DataInv, CompanyInv
    <2> QED BY <2>1, <2>2 DEF DataInv, CompanyInv
  <1>3. ASSUME o # IdleOp PROVE Alone(q, l)'
    <2>1. op'[q].label = l
      BY <1>1, <1>3 DEF Touches
    <2> QED BY <2>1, Untangled
  <1> QED BY <1>2, <1>3

\* A dataset that stays untangled: calls keep it calm.
LEMMA CalmStays ==
    ASSUME DataInv, Track, IdleInv', NEW q \in Process, Turn(q),
           NEW l \in Label, l \notin tangled, l \notin tangled'
    PROVE  Agreed(tables'[l], objects'[l]) \/ \E p \in AtWork(l)' : Midway(op'[p], tables'[l])
PROOF
  <1>1. /\ TypeInv /\ IdleInv
        /\ Agreed(tables[l], objects[l]) \/ \E p \in AtWork(l) : Midway(op[p], tables[l])
    BY DEF DataInv, CalmInv
  <1>2. ASSUME NEW p \in AtWork(l), p # q, Midway(op[p], tables[l]), tables'[l] = tables[l]
        PROVE  \E r \in AtWork(l)' : Midway(op'[r], tables'[l])
    <2>1. op'[p] = op[p]
      BY <1>1, <1>2, TurnTouches, OneMoves DEF AtWork
    <2> QED BY <1>2, <2>1 DEF AtWork
  <1>3. ASSUME NEW o, NEW k \in Label \ {l}, Touches(q, o, k)
        PROVE  Agreed(tables'[l], objects'[l]) \/ \E p \in AtWork(l)' : Midway(op'[p], tables'[l])
    <2>1. tables'[l] = tables[l] /\ objects'[l] = objects[l]
      BY <1>3 DEF Touches
    <2>2. op[q].label # l
      BY <1>1, <1>3, NoneAssumption DEF Touches, IdleInv, IdleOp
    <2> QED BY <1>1, <1>2, <2>1, <2>2 DEF AtWork
  <1>4. CASE BeginSomeCall(q)
    <2>1. PICK o : \E k \in Label : Begins(q, o, k)
      BY <1>1, <1>4, BeginBegins
    <2>2. PICK k \in Label : Begins(q, o, k)
      BY <2>1
    <2>3. CASE k = l /\ o.pc = "unregister"
      <3>1. op'[q] = o /\ o.label = l
        BY <1>1, <2>2, <2>3, OneMoves DEF Begins, Touches
      <3> QED BY <2>3, <3>1 DEF AtWork, Midway
    <2>4. CASE k = l /\ o.pc # "unregister"
      <3>1. tables' = tables /\ objects' = objects
        BY <2>2, <2>4 DEF Begins
      <3>2. op[q].label # l
        BY <1>1, <2>2, NoneAssumption DEF Begins, IdleInv, IdleOp
      <3> QED BY <1>1, <1>2, <3>1, <3>2 DEF AtWork
    <2>5. CASE k # l
      BY <1>3, <2>2, <2>5 DEF Begins
    <2> QED BY <2>3, <2>4, <2>5
  <1>5. CASE FailCall(q)
    <2>1. Breaks(q, op[q].label) /\ op[q].label \in Label
      BY <1>1, <1>5, FaultBreaks
    <2>2. op'[q] # op[q]
      BY <1>1, <2>1, OneMoves DEF Breaks, IdleOp
    <2>3. faults' # faults
      <3>1. /\ faults.writer \in Nat
            /\ faults \in [writer : 0 .. MaxWriterFaults, sweep : 0 .. MaxSweepFaults]
        BY <1>1, FaultsAssumption DEF TypeInv, TypeOK
      <3> QED BY <1>5, <3>1 DEF FailCall
    <2>4. op[q].label # l
      BY <2>2, <2>3, NotBroken
    <2> QED BY <1>3, <2>1, <2>4 DEF Breaks
  <1>6. CASE RunCall(q)
    <2>1. PICK o : \E k \in Label : Runs(q, o, k)
      BY <1>1, <1>6, RunRuns
    <2>2. PICK k \in Label : Runs(q, o, k)
      BY <2>1
    <2>3. CASE k # l
      BY <1>3, <2>2, <2>3 DEF Runs
    <2>4. CASE k = l
      <3>1. Runs(q, o, l) /\ op'[q] = o
        BY <1>1, <2>2, <2>4, OneMoves DEF Runs
      <3>2. q \notin crowded /\ Alone(q, l)
        BY <3>1, CalmTurn DEF Runs
      <3>3. Knows(op[q], tables[l], objects[l], tags[l])
        BY <3>1, <3>2 DEF DataInv, HandInv, Runs, TableOf, RowAt, TagsAt
      <3>4. Agreed(tables[l], objects[l]) \/ Midway(op[q], tables[l])
        BY <1>1, <3>2 DEF Alone, AtWork
      <3>5. \/ Agreed(tables'[l], objects'[l])
            \/ Midway(o, tables'[l])
            \/ o = IdleOp /\ Wrote(op[q], tables[l]) /\ objects'[l].by # op[q].call
        BY <3>1, <3>3, <3>4 DEF Runs, StepsTo
      <3>6. CASE Midway(o, tables'[l])
        <4>1. o # IdleOp
          BY <3>6 DEF Midway, IdleOp
        <4>2. o.label = l
          BY <3>1, <4>1 DEF Runs, Touches
        <4> QED BY <3>1, <3>6, <4>2 DEF AtWork
      <3>7. ~(o = IdleOp /\ Wrote(op[q], tables[l]) /\ objects'[l].by # op[q].call)
        <4> SUFFICES ASSUME o = IdleOp, Wrote(op[q], tables[l]), objects'[l].by # op[q].call
                     PROVE  FALSE
          OBVIOUS
        <4>1. l \in Present
          BY DEF Wrote, Present, NoTable
        <4>2. tables[l] \in Version
          BY <1>1, <4>1 DEF TypeInv, TypeOK, WriterTypeOK, Present
        <4>3. op[q].call > 0 /\ op[q].call \in wrote
          BY <4>1, <4>2 DEF DataInv, WroteInv, Wrote, Version, Call
        <4>4. op[q].call \in wrote'
          BY <1>6, <4>3 DEF RunCall, History
        <4>5. LeavesNoRow(q) /\ op[q].label = l
          BY <3>1, <4>4 DEF LeavesNoRow, Runs
        <4>6. faults' = faults
          BY <1>6 DEF RunCall
        <4> QED BY <4>3, <4>5, <4>6, NotBroken
      <3> QED BY <3>5, <3>6, <3>7
    <2> QED BY <2>3, <2>4
  <1> QED BY <1>4, <1>5, <1>6 DEF Turn

\* Steps that leave the calls and the stores alone, and those of a sweep.
Rests == op' = op /\ UNCHANGED <<tables, objects, tags, sweep>>

\* A call that shares its dataset is noted, with the dataset, and its note
\* goes only with the call.
LEMMA CompanyStep ==
    ASSUME DataInv, Track, IdleInv',
           \/ \E q \in Process : Turn(q) /\ (BeginSomeCall(q) => Free(q))
           \/ op' = op
    PROVE  CompanyInv'
PROOF
  <1>1. crowded' \subseteq Process
    BY DEF Track
  <1>2. ASSUME NEW p \in Process, p \notin crowded', LabelOf(p)' \in Label
        PROVE  Alone(p, LabelOf(p))'
    BY <1>2, Uncrowded
  <1>3. ASSUME NEW p \in crowded' PROVE LabelOf(p)' # "none"
    BY DEF Track
  <1>4. ASSUME NEW p \in crowded', NEW l \in Label \ tangled', op'[p].label = l
        PROVE  FALSE
    <2>1. p \in Process /\ LabelOf(p)' = l /\ Alone(p, l)'
      <3>1. p \in Process
        BY <1>1
      <3> QED BY <1>4, <3>1, Untangled
    <2>2. ~HasCompany(p)'
      BY <1>4, <2>1 DEF Track
    <2>3. p \in crowded
      BY <2>2 DEF Track
    <2>4. LabelOf(p) # "none"
      BY <2>3 DEF DataInv, CompanyInv
    <2>5. op[p].label = l
      <3>1. CASE op'[p] = op[p]
        BY <1>4, <3>1
      <3>2. CASE op'[p] # op[p]
        <4>1. PICK q \in Process : Turn(q) /\ (BeginSomeCall(q) => Free(q))
          BY <3>2
        <4>2. TypeInv
          BY DEF DataInv
        <4>3. PICK o : \E k \in Label : Touches(q, o, k)
          BY <4>1, <4>2, TurnTouches
        <4>4. PICK k \in Label : Touches(q, o, k)
          BY <4>3
        <4>5. q = p /\ o = op'[p]
          BY <2>1, <3>2, <4>2, <4>4, OneMoves
        <4>6. ~BeginSomeCall(p)
          <5>1. Free(p) => view[p].label = "none"
            BY DEF Free, NoView
          <5>2. BeginSomeCall(p) => op[p].pc = "idle"
            BY <2>1, <4>2, BeginBegins DEF Begins
          <5> QED BY <2>4, <4>1, <4>5, <5>1, <5>2 DEF LabelOf, At
        <4>7. op[p].pc # "idle"
          BY <2>1, <4>1, <4>2, <4>5, <4>6, RunRuns, FaultBreaks DEF Turn, Runs, Breaks
        <4>8. o # IdleOp
          BY <1>4, <4>5, NoneAssumption DEF IdleOp
        <4> QED BY <1>4, <4>4, <4>5, <4>7, <4>8 DEF Touches
      <3> QED BY <3>1, <3>2
    <2>6. l \in tangled
      BY <1>4, <2>3, <2>5 DEF DataInv, CompanyInv
    <2>7. PICK r \in Process \ crowded : op'[r] # op[r] /\ WritesLast(r) /\ op[r].label = l
      BY <1>4, <2>6, UntangledBy
    <2>8. LabelOf(r) = l
      BY <2>7 DEF LabelOf, At, WritesLast, ReadyToRecord
    <2>9. Alone(r, l)
      BY <1>4, <2>7, <2>8 DEF DataInv, CompanyInv
    <2> QED BY <2>1, <2>3, <2>5, <2>7, <2>9 DEF Alone
  <1> QED BY <1>1, <1>2, <1>3, <1>4 DEF CompanyInv

\* What an undisturbed call knows, stays: others would have shared its dataset.
LEMMA HandStep ==
    ASSUME DataInv, Track, TypeInv', IdleInv',
           (\E q \in Process : Turn(q)) \/ SweepMoves \/ Rests
    PROVE  HandInv'
PROOF
  <1> SUFFICES ASSUME NEW p \in Process, p \notin crowded', op'[p].pc # "idle",
                      NEW l \in Label, l = op'[p].label
               PROVE  Knows(op'[p], tables'[l], objects'[l], tags'[l])
    BY DEF HandInv, TableOf, RowAt, TagsAt, TypeInv, OpShape, CallShape
  <1>1. LabelOf(p)' = l
    BY DEF LabelOf, At
  <1>2. p \notin crowded /\ Alone(p, l)'
    BY <1>1, Uncrowded
  <1>3. ASSUME op'[p] = op[p]
        PROVE  Alone(p, l) /\ Knows(op[p], tables[l], objects[l], tags[l])
    <2>1. LabelOf(p) = l
      BY <1>3 DEF LabelOf, At
    <2> QED BY <1>2, <1>3, <2>1 DEF DataInv, CompanyInv, HandInv, TableOf, RowAt, TagsAt
  <1>4. CASE SweepMoves
    BY <1>3, <1>4, Unswept DEF SweepMoves
  <1>5. CASE Rests
    BY <1>3, <1>5 DEF Rests
  <1>6. ASSUME NEW q \in Process, Turn(q)
        PROVE  Knows(op'[p], tables'[l], objects'[l], tags'[l])
    <2>1. TypeInv
      BY DEF DataInv
    <2>2. PICK o : \E k \in Label : Touches(q, o, k)
      BY <1>6, <2>1, TurnTouches
    <2>3. PICK k \in Label : Touches(q, o, k)
      BY <2>2
    <2>4. CASE p # q
      <3>1. op'[p] = op[p]
        BY <2>1, <2>3, <2>4, OneMoves
      <3>2. tables'[l] = tables[l] /\ objects'[l] = objects[l] /\ tags'[l] = tags[l]
        BY <1>2, <1>3, <2>1, <2>3, <2>4, <3>1, Untouched
      <3> QED BY <1>3, <3>1, <3>2
    <2>5. CASE p = q /\ BeginSomeCall(q)
      <3>1. PICK b : \E m \in Label : Begins(q, b, m)
        BY <2>1, <2>5, BeginBegins
      <3>2. PICK m \in Label : Begins(q, b, m)
        BY <3>1
      <3>3. op'[p] = b /\ m = l
        BY <2>1, <2>5, <3>2, OneMoves DEF Begins, Touches
      <3> QED BY <3>2, <3>3 DEF Begins
    <2>6. CASE p = q /\ RunCall(q)
      <3>1. PICK b : \E m \in Label : Runs(q, b, m)
        BY <2>1, <2>6, RunRuns
      <3>2. PICK m \in Label : Runs(q, b, m)
        BY <3>1
      <3>3. op'[p] = b /\ b # IdleOp
        BY <2>1, <2>6, <3>2, OneMoves DEF Runs, IdleOp
      <3>4. m = l
        BY <3>2, <3>3 DEF Runs, Touches
      <3>5. Knows(op[p], tables[l], objects[l], tags[l])
        BY <1>2, <2>6, <3>2, <3>4 DEF DataInv, HandInv, Runs, TableOf, RowAt, TagsAt
      <3> QED BY <2>6, <3>2, <3>3, <3>4, <3>5 DEF Runs, StepsTo
    <2>7. CASE p = q /\ FailCall(q)
      BY <2>1, <2>7, FaultBreaks, OneMoves DEF Breaks, IdleOp
    <2> QED BY <1>6, <2>4, <2>5, <2>6, <2>7 DEF Turn
  <1> QED BY <1>4, <1>5, <1>6

\* An untangled dataset stays calm, and a tangled one gets calm with a call
\* that has it to itself.
LEMMA CalmStep ==
    ASSUME DataInv, Track, IdleInv',
           (\E q \in Process : Turn(q)) \/ SweepMoves \/ Rests
    PROVE  CalmInv'
PROOF
  <1> SUFFICES ASSUME NEW l \in Label, l \notin tangled'
               PROVE  \/ Agreed(tables'[l], objects'[l])
                      \/ \E p \in AtWork(l)' : Midway(op'[p], tables'[l])
    BY DEF CalmInv
  <1>1. CASE l \in tangled
    <2>1. PICK q \in Process \ crowded :
              op'[q] # op[q] /\ WritesLast(q) /\ op[q].label = l /\ faults' = faults
      BY <1>1, UntangledBy
    <2>2. PICK r \in Process : Turn(r)
      BY <2>1 DEF SweepMoves, Rests
    <2>3. q = r
      BY <2>1, <2>2, TurnTouches, OneMoves DEF DataInv
    <2> QED BY <2>1, <2>2, <2>3, EndsAgreed
  <1>2. CASE l \notin tangled
    <2>1. Agreed(tables[l], objects[l]) \/ \E p \in AtWork(l) : Midway(op[p], tables[l])
      BY <1>2 DEF DataInv, CalmInv
    <2>2. CASE \E q \in Process : Turn(q)
      BY <1>2, <2>2, CalmStays
    <2>3. CASE Rests
      BY <2>1, <2>3 DEF Rests, AtWork
    <2>4. CASE SweepMoves
      <3>1. op' = op /\ tables'[l] = tables[l] /\ AtWork(l)' = AtWork(l)
        BY <2>4 DEF SweepMoves, AtWork
      <3>2. CASE objects'[l] = objects[l]
        BY <2>1, <3>1, <3>2
      <3>3. CASE objects'[l] # objects[l]
        <4>1. l \notin sweep.plan.backfill
          BY <1>2 DEF DataInv, SweepCalm
        <4>2. sweep.pc = "delete" /\ sweep.label = l /\ objects'[l] = NoRow
          BY <2>4, <3>3, <4>1 DEF SweepMoves
        <4>3. tables[l] = NoTable
          BY <1>2, <4>2 DEF DataInv, SweepCalm, Present
        <4> QED BY <3>1, <4>2, <4>3 DEF Agreed
      <3> QED BY <3>2, <3>3
    <2> QED BY <2>2, <2>3, <2>4
  <1> QED BY <1>1, <1>2

\* A snapshot that is right stays right while nobody writes the dataset under it.
LEMMA SweepCalmStep ==
    ASSUME DataInv, Track, IdleInv',
           (\E q \in Process : Turn(q)) \/ SweepMoves \/ Rests
    PROVE  SweepCalm'
PROOF
  <1> DEFINE Calm(l) ==
                 /\ sweep.pc \in {"labels", "plan"} /\ l \in sweep.live => l \in Present
                 /\ sweep.pc = "plan" /\ l \in Registered => l \in sweep.reg
                 /\ l \notin sweep.plan.backfill
                 /\ sweep.pc = "delete" /\ sweep.label = l => l \notin Present
  <1> SUFFICES ASSUME NEW l \in Label, l \notin tangled' PROVE Calm(l)'
    BY DEF SweepCalm
  <1>1. l \notin tangled => Calm(l)
    BY DEF DataInv, SweepCalm
  <1>2. ASSUME ~SweepMinds(l), sweep' = sweep PROVE Calm(l)'
    BY <1>2 DEF SweepMinds, WorkLeft
  <1>3. ASSUME sweep' = sweep, tables'[l] = tables[l], objects'[l] = objects[l], l \notin tangled
        PROVE  Calm(l)'
    BY <1>1, <1>3 DEF Present, Registered
  <1>4. l \in tangled => (\E q \in Process : Turn(q)) /\ ~SweepMinds(l)
    <2> SUFFICES ASSUME l \in tangled PROVE (\E q \in Process : Turn(q)) /\ ~SweepMinds(l)
      OBVIOUS
    <2>1. PICK r \in Process \ crowded : op'[r] # op[r] /\ WritesLast(r) /\ op[r].label = l
      BY UntangledBy
    <2>2. LabelOf(r) = l
      BY <2>1 DEF LabelOf, At, WritesLast, ReadyToRecord
    <2>3. Alone(r, l)
      BY <2>1, <2>2 DEF DataInv, CompanyInv
    <2> QED BY <2>1, <2>3 DEF Alone, SweepMoves, Rests
  <1>5. ASSUME NEW q \in Process, Turn(q) PROVE Calm(l)'
    <2>1. TypeInv /\ IdleInv
      BY DEF DataInv
    <2>2. PICK o : \E k \in Label : Touches(q, o, k)
      BY <1>5, <2>1, TurnTouches
    <2>3. PICK k \in Label : Touches(q, o, k)
      BY <2>2
    <2>4. sweep' = sweep
      BY <2>3 DEF Touches
    <2>5. CASE l \in tangled
      BY <1>2, <1>4, <2>4, <2>5
    <2>6. CASE l \notin tangled /\ k # l
      BY <1>3, <2>3, <2>4, <2>6 DEF Touches
    <2>7. CASE l \notin tangled /\ k = l
      <3>1. op[q].pc = "idle" => o # IdleOp
        BY <2>1, <2>3, NoneAssumption DEF IdleInv, Touches, IdleOp
      <3>2. Alone(q, l) \/ Alone(q, l)'
        BY <2>3, <2>7, <3>1, CalmTurn
      <3>3. ~SweepMinds(l)
        BY <2>4, <3>2 DEF Alone, SweepMinds
      <3> QED BY <1>2, <2>4, <3>3
    <2> QED BY <2>5, <2>6, <2>7
  <1>6. CASE Rests
    <2>1. l \in tangled => Calm(l)'
      BY <1>2, <1>4, <1>6 DEF Rests
    <2> QED BY <1>3, <1>6, <2>1 DEF Rests
  <1>7. CASE SweepMoves /\ l \in tangled
    BY <1>4, <1>5, <1>7
  <1>8. CASE SweepMoves /\ l \notin tangled
    <2>1. Calm(l) /\ Present' = Present
      BY <1>1, <1>8 DEF SweepMoves, Present
    <2>2. sweep'.pc \in {"labels", "plan"} /\ l \in sweep'.live => l \in Present'
      BY <1>8, <2>1 DEF SweepMoves
    <2>3. sweep'.pc = "plan" /\ l \in Registered' => l \in sweep'.reg
      BY <1>8 DEF SweepMoves, Registered
    <2>4. l \notin sweep'.plan.backfill
      <3> SUFFICES ASSUME l \in sweep'.plan.backfill PROVE FALSE
        OBVIOUS
      <3>1. sweep.pc = "plan" /\ l \in sweep.live \ sweep.reg
        BY <1>8, <2>1 DEF SweepMoves
      <3>2. l \in Present /\ l \notin Registered
        BY <2>1, <3>1
      <3>3. ~Agreed(tables[l], objects[l])
        BY <3>2 DEF Agreed, Present, Registered
      <3>4. PICK p \in AtWork(l) : Midway(op[p], tables[l])
        BY <1>8, <3>3 DEF DataInv, CalmInv
      <3>5. p \in Process /\ LabelOf(p) = l /\ op[p].label = l
        BY <3>4 DEF AtWork, LabelOf, At, Midway
      <3>6. ~Alone(p, l)
        BY <3>1 DEF Alone, SweepMinds
      <3> QED BY <1>8, <3>5, <3>6 DEF DataInv, CompanyInv
    <2>5. sweep'.pc = "delete" /\ sweep'.label = l => l \notin Present'
      BY <1>8, <2>1 DEF SweepMoves
    <2> QED BY <2>2, <2>3, <2>4, <2>5
  <1> QED BY <1>5, <1>6, <1>7, <1>8

\* History notes every call whose data is in a table.
LEMMA WroteStep == History => WroteInv'
PROOF
  BY DEF History, WroteInv
-----------------------------------------------------------------------------
(***************************************************************************)
(* The answers.                                                            *)
(***************************************************************************)

\* Process q shows v, an answer in the making or none, and is idle with it.
Shows(q, v) ==
    /\ Show(q, v)
    /\ \/ v = NoView
       \/ v \in View /\ v.pc # "none" /\ v.label \in Label /\ op'[q].pc = "idle"

\* A call's turn, with what it does to the answer of its process.
AnsweringTurn(q) ==
    \/ BeginSomeCall(q) /\ Free(q) /\ UNCHANGED view
    \/ RunCall(q) /\ CallShows(q)
    \/ FailCall(q) /\ FaultShows(q)

\* An answer that is none.
LEMMA NoViewShape ==
    NoView \in View /\ NoView.own = 0 /\ NoView.pc = "none" /\ NoView.label = "none"
PROOF
  <1>1. 0 \in 0 .. MaxCalls
    BY MaxCallsAssumption
  <1> QED BY <1>1 DEF NoView, View

\* An answer made of a registry row.
LEMMA RowViewShape ==
    ASSUME TypeInv, NEW l \in Label, NEW own \in 0 .. MaxCalls
    PROVE  LET v == ViewOfRow(l, own)
           IN  /\ v \in View /\ v.pc = "schema" /\ v.label = l /\ v.own = own
               /\ v.row = objects[l] /\ v.tags = tags[l]
PROOF
  <1>1. objects[l] \in Row \cup {NoRow} /\ tags[l] \in SUBSET Call
    BY DEF TypeInv, TypeOK, RegistryTypeOK
  <1> QED BY <1>1 DEF ViewOfRow, NoView, View

\* An answer made of the values in hand.
LEMMA PendingViewShape ==
    ASSUME TypeInv, NEW q \in Process, ReadyToRecord(q)
    PROVE  LET v == PendingView(q)
           IN  /\ v \in View /\ v.pc = "schema" /\ v.label = op[q].label /\ v.own = op[q].call
               /\ v.row.by = op[q].call /\ v.tags = TagsOf(q) /\ v.label \in Label
PROOF
  <1>1. /\ op[q] \in Op /\ op[q].label \in Label /\ op[q].call \in Call
        /\ op[q].tool \in {"ingest", "put", "derive"}
    BY DEF TypeInv, TypeOK, WriterTypeOK, OpShape, CallShape, WritePc, ReadyToRecord, At
  <1>2. op[q].call \in 0 .. MaxCalls /\ op[q].sql \in SUBSET Label /\ op[q].parents \in SUBSET Label
    BY <1>1 DEF Op
  <1>3. SourceOf(op[q].tool) \in SourceKind
    BY <1>1 DEF SourceOf, SourceKind
  <1>4. RowOf(q) \in Row /\ RowOf(q).by = op[q].call
    BY <1>2, <1>3 DEF RowOf, Row
  <1>5. TagsOf(q) \in SUBSET Call
    BY <1>1 DEF TagsOf
  <1> QED BY <1>1, <1>2, <1>4, <1>5 DEF PendingView, NoView, View

\* A read of an answer keeps what it tells.
LEMMA LookShows ==
    ASSUME TypeInv, ViewInv, NEW q \in Process, BeginLook(q) \/ LookStep(q)
    PROVE  /\ UNCHANGED vars
           /\ \E v : /\ Shows(q, v)
                     /\ v.own > 0 =>
                            /\ view[q].own > 0 /\ v.label = view[q].label
                            /\ Tells(view[q], tables[v.label]) => Tells(v, tables[v.label])
PROOF
  <1> DEFINE u == view[q]
  <1>1. UNCHANGED vars
    BY DEF BeginLook, LookStep, LookAgain, LookSchema, LookParents, LookCount, Return
  <1>2. op' = op /\ u \in View /\ (u.pc # "none" => op[q].pc = "idle" /\ u.label \in Label)
    BY <1>1, NoViewShape DEF vars, writerVars, ViewInv, Free, At
  <1>3. CASE BeginLook(q)
    <2>1. PICK l \in Registered : Show(q, ViewOfRow(l, 0)) /\ op[q].pc = "idle"
      BY <1>3 DEF BeginLook, MayBegin, At
    <2> DEFINE v == ViewOfRow(l, 0)
    <2>2. l \in Label /\ 0 \in 0 .. MaxCalls
      BY MaxCallsAssumption DEF Registered
    <2>3. v \in View /\ v.pc = "schema" /\ v.label = l /\ v.own = 0
      BY <2>2, RowViewShape
    <2> HIDE DEF v
    <2>4. Shows(q, v) /\ ~(v.own > 0)
      BY <1>2, <2>1, <2>2, <2>3 DEF Shows, v
    <2> QED BY <1>1, <2>4
  <1>4. ASSUME Show(q, NoView)
        PROVE  \E v : /\ Shows(q, v)
                      /\ v.own > 0 =>
                            /\ view[q].own > 0 /\ v.label = view[q].label
                            /\ Tells(view[q], tables[v.label]) => Tells(v, tables[v.label])
    <2>1. Shows(q, NoView) /\ ~(NoView.own > 0)
      BY <1>4, NoViewShape DEF Shows
    <2> QED BY <2>1
  <1>5. ASSUME NEW v \in View, Show(q, v), u.pc # "none", v.pc # "none", v.label = u.label,
               v.own = u.own, Tells(u, tables[v.label]) => Tells(v, tables[v.label])
        PROVE  \E w : /\ Shows(q, w)
                      /\ w.own > 0 =>
                            /\ view[q].own > 0 /\ w.label = view[q].label
                            /\ Tells(view[q], tables[w.label]) => Tells(w, tables[w.label])
    <2>1. Shows(q, v)
      BY <1>2, <1>5 DEF Shows
    <2> QED BY <1>5, <2>1
  <1>6. CASE LookAgain(q)
    <2>1. u.pc = "again" /\ u.label \in Label /\ u.own \in 0 .. MaxCalls
      BY <1>2, <1>6 DEF LookAgain, View
    <2>2. CASE Show(q, NoView)
      BY <1>1, <1>4, <2>2
    <2>3. CASE Show(q, ViewOfRow(u.label, u.own))
      <3> DEFINE v == ViewOfRow(u.label, u.own)
      <3>1. v \in View /\ v.pc = "schema" /\ v.label = u.label /\ v.own = u.own
        BY <2>1, RowViewShape
      <3>2. ~Tells(u, tables[v.label])
        BY <2>1 DEF Tells
      <3> HIDE DEF v
      <3> QED BY <1>1, <1>5, <2>1, <2>3, <3>1, <3>2 DEF v
    <2> QED BY <1>6, <2>2, <2>3 DEF LookAgain
  <1>7. CASE LookSchema(q)
    <2>1. CASE Show(q, NoView)
      BY <1>1, <1>4, <2>1
    <2>2. CASE ~Show(q, NoView)
      <3> DEFINE pc == IF u.pending THEN "count" ELSE "parents"
                 v == [u EXCEPT !.schema = tables[u.label], !.pc = pc]
      <3>1. u.pc = "schema" /\ Show(q, v)
        BY <1>7, <2>2 DEF LookSchema
      <3>2. tables[u.label] \in Version \cup {NoTable}
        BY <1>2, <3>1 DEF TypeInv, TypeOK, WriterTypeOK
      <3>3. pc \in {"count", "parents"}
        OBVIOUS
      <3> HIDE DEF pc
      <3>4. /\ v.schema = tables[u.label] /\ v.pc = pc /\ v.label = u.label /\ v.own = u.own
            /\ v.row = u.row /\ v.tags = u.tags /\ v \in View
        BY <1>2, <3>2, <3>3 DEF View
      <3> HIDE DEF v
      <3>5. Tells(u, tables[v.label]) => Tells(v, tables[v.label])
        BY <3>3, <3>4 DEF Tells
      <3> QED BY <1>1, <1>5, <3>1, <3>3, <3>4, <3>5
    <2> QED BY <2>1, <2>2
  <1>8. CASE LookParents(q)
    <2> DEFINE v == [u EXCEPT !.parents = lineage[u.label], !.pc = "count"]
    <2>1. u.pc = "parents" /\ Show(q, v)
      BY <1>8 DEF LookParents
    <2>2. lineage[u.label] \in SUBSET Label
      BY <1>2, <2>1 DEF TypeInv, TypeOK, RegistryTypeOK
    <2>3. /\ v.schema = u.schema /\ v.pc = "count" /\ v.label = u.label /\ v.own = u.own
          /\ v.row = u.row /\ v.tags = u.tags /\ v \in View
      BY <1>2, <2>2 DEF View
    <2> HIDE DEF v
    <2>4. Tells(u, tables[v.label]) => Tells(v, tables[v.label])
      BY <2>1, <2>3 DEF Tells
    <2> QED BY <1>1, <1>5, <2>1, <2>3, <2>4
  <1>9. CASE LookCount(q)
    <2> DEFINE v == [u EXCEPT !.count = tables[u.label], !.pc = "answered"]
    <2>1. u.pc = "count" /\ Show(q, v)
      BY <1>9 DEF LookCount
    <2>2. tables[u.label] \in Version \cup {NoTable}
      BY <1>2, <2>1 DEF TypeInv, TypeOK, WriterTypeOK
    <2>3. /\ v.schema = u.schema /\ v.count = tables[u.label] /\ v.pc = "answered"
          /\ v.label = u.label /\ v.own = u.own /\ v.row = u.row /\ v.tags = u.tags /\ v \in View
      BY <1>2, <2>2 DEF View
    <2> HIDE DEF v
    <2>4. Tells(u, tables[v.label]) => Tells(v, tables[v.label])
      BY <2>1, <2>3 DEF Tells
    <2> QED BY <1>1, <1>5, <2>1, <2>3, <2>4
  <1>10. CASE Return(q)
    BY <1>1, <1>4, <1>10 DEF Return
  <1> QED BY <1>3, <1>6, <1>7, <1>8, <1>9, <1>10 DEF LookStep

\* The answer a call begins is its own, and tells what it wrote if it had its
\* dataset to itself.
LEMMA TurnShows ==
    ASSUME DataInv, NEW q \in Process, AnsweringTurn(q)
    PROVE  \/ view' = view
           \/ \E v : /\ Shows(q, v)
                     /\ v.own > 0 /\ q \notin crowded => Tells(v, tables'[v.label])
PROOF
  <1> SUFFICES ASSUME view' # view
               PROVE  \E v : /\ Shows(q, v)
                             /\ v.own > 0 /\ q \notin crowded => Tells(v, tables'[v.label])
    OBVIOUS
  <1> DEFINE l == op[q].label
  <1>1. /\ TypeInv /\ op[q] \in Op /\ op[q].call \in 0 .. MaxCalls
        /\ op[q].pc # "idle" => l \in Label
        /\ q \notin crowded /\ op[q].pc # "idle" => Knows(op[q], tables[l], objects[l], tags[l])
    BY DEF DataInv, TypeInv, TypeOK, WriterTypeOK, Op, OpShape, CallShape, HandInv, TableOf,
           RowAt, TagsAt
  <1>2. CASE FailCall(q) /\ FaultShows(q)
    <2> DEFINE v == PendingView(q)
    <2>1. Breaks(q, l)
      BY <1>1, <1>2, FaultBreaks
    <2>2. op'[q].pc = "idle" /\ tables' = tables
      BY <1>1, <2>1, OneMoves DEF Breaks, IdleOp
    <2>3. ReadyToRecord(q) /\ op[q].tool # "put" /\ Show(q, v)
      BY <1>2 DEF FaultShows
    <2>4. /\ v \in View /\ v.pc = "schema" /\ v.label = l /\ v.own = op[q].call
          /\ v.row.by = op[q].call /\ v.tags = TagsOf(q) /\ v.label \in Label
      BY <1>1, <2>3, PendingViewShape
    <2>5. TagsOf(q) = {op[q].call} /\ op[q].pc \in {"record", "parents"}
      BY <2>3 DEF TagsOf, ReadyToRecord, At
    <2> HIDE DEF v
    <2>6. Shows(q, v)
      BY <2>2, <2>3, <2>4 DEF Shows
    <2>7. q \notin crowded => Tells(v, tables'[v.label])
      BY <1>1, <2>2, <2>4, <2>5 DEF Tells, Knows, Wrote
    <2> QED BY <2>6, <2>7
  <1>3. CASE RunCall(q) /\ At(q, "get") /\ Show(q, ViewOfRow(l, op[q].call)) /\ l \in Registered
    <2> DEFINE v == ViewOfRow(l, op[q].call)
    <2>1. DescribeGet(q) /\ op[q].pc = "get"
      BY <1>3 DEF RunCall, CallStep, WriteCreate, WriteLoad, WriteCommit, PutFlush, DeriveProbe,
                  DeriveCtas, DeriveParent, Record, ReadyToRecord, RepairExists,
                  RepairRecord, ForgetUnregister, At
    <2>2. op'[q].pc = "idle" /\ tables' = tables
      BY <1>1, <1>3, <2>1
      DEF DescribeGet, Finish, Become, IdleOp, TypeInv, TypeOK, WriterTypeOK
    <2>3. /\ v \in View /\ v.pc = "schema" /\ v.label = l /\ v.own = op[q].call
          /\ v.row = objects[l] /\ v.tags = tags[l] /\ l \in Label
      BY <1>1, <2>1, RowViewShape
    <2> HIDE DEF v
    <2>4. Shows(q, v)
      BY <1>3, <2>2, <2>3 DEF Shows, v
    <2>5. q \notin crowded => Tells(v, tables'[v.label])
      BY <1>1, <2>1, <2>2, <2>3 DEF Tells, Knows, Wrote
    <2> QED BY <2>4, <2>5
  <1>4. CASE /\ RunCall(q) /\ At(q, "repair")
             /\ Show(q, [NoView EXCEPT !.pc = "again", !.label = l, !.own = op[q].call])
    <2> DEFINE v == [NoView EXCEPT !.pc = "again", !.label = l, !.own = op[q].call]
    <2>1. RepairRecord(q) /\ op[q].pc = "repair" /\ l \in Label
      BY <1>1, <1>4
      DEF RunCall, CallStep, WriteCreate, WriteLoad, WriteCommit, PutFlush, DeriveProbe,
          DeriveCtas, DeriveParent, Record, ReadyToRecord, RepairExists, DescribeGet,
          ForgetUnregister, At
    <2>2. op'[q].pc = "idle"
      BY <1>1, <2>1 DEF RepairRecord, Finish, Become, IdleOp, TypeInv, TypeOK, WriterTypeOK
    <2>3. v \in View /\ v.pc = "again" /\ v.label = l /\ v.own = op[q].call
      BY <1>1, <2>1, NoViewShape DEF View, NoView
    <2>4. q \notin crowded => ~(v.own > 0)
      BY <1>1, <2>1, <2>3 DEF Knows
    <2> HIDE DEF v
    <2>5. Shows(q, v)
      BY <1>4, <2>1, <2>2, <2>3 DEF Shows, v
    <2> QED BY <2>4, <2>5
  <1> QED BY <1>2, <1>3, <1>4 DEF AnsweringTurn, CallShows, FaultShows

\* What a step does to calls and answers together.
Looks == \E q \in Process : BeginLook(q) \/ LookStep(q)

SweepTurn == SweepMoves /\ UNCHANGED view

\* Answers stay well shaped, and with idle processes.
LEMMA ViewStep ==
    ASSUME DataInv, (\E q \in Process : AnsweringTurn(q)) \/ Looks \/ SweepTurn
    PROVE  ViewInv'
PROOF
  <1>1. /\ TypeInv /\ ViewInv /\ view \in [Process -> View]
        /\ \A p \in Process : /\ view[p] # NoView => op[p].pc = "idle" /\ view[p].label \in Label
                              /\ view[p].pc = "none" => view[p] = NoView
    BY DEF DataInv, ViewInv, Free, At
  <1>2. ASSUME NEW q \in Process, NEW v, Shows(q, v), \A p \in Process \ {q} : op'[p] = op[p]
        PROVE  ViewInv'
    <2>1. v \in View
      BY <1>2, NoViewShape DEF Shows
    <2>2. view' \in [Process -> View] /\ view'[q] = v /\ \A p \in Process \ {q} : view'[p] = view[p]
      BY <1>1, <1>2, <2>1 DEF Shows, Show
    <2>3. v # NoView => op'[q].pc = "idle" /\ v.label \in Label
      BY <1>2 DEF Shows
    <2>4. v.pc = "none" => v = NoView
      BY <1>2 DEF Shows
    <2> QED BY <1>1, <1>2, <2>2, <2>3, <2>4 DEF ViewInv, Free, At
  <1>3. ASSUME view' = view, NEW q \in Process, view[q] = NoView,
               \A p \in Process \ {q} : op'[p] = op[p]
        PROVE  ViewInv'
    BY <1>1, <1>3 DEF ViewInv, Free, At
  <1>4. ASSUME NEW q \in Process, AnsweringTurn(q) PROVE ViewInv'
    <2>1. \A p \in Process \ {q} : op'[p] = op[p]
      BY <1>1, <1>4, TurnTouches, OneMoves DEF AnsweringTurn, Turn
    <2>2. CASE view' = view
      <3>1. BeginSomeCall(q) => Free(q)
        <4>1. BeginSomeCall(q) => op[q].pc = "idle"
          BY <1>1, BeginBegins DEF Begins
        <4>2. RunCall(q) \/ FailCall(q) => op[q].pc # "idle"
          BY <1>1, RunRuns, FaultBreaks DEF Runs, Breaks
        <4> QED BY <1>4, <4>1, <4>2 DEF AnsweringTurn
      <3>2. RunCall(q) \/ FailCall(q) => op[q].pc # "idle"
        BY <1>1, RunRuns, FaultBreaks DEF Runs, Breaks
      <3>3. view[q] = NoView
        BY <1>1, <1>4, <3>1, <3>2 DEF AnsweringTurn, Free
      <3> QED BY <1>3, <2>1, <2>2, <3>3
    <2>3. CASE view' # view
      <3>1. PICK v : Shows(q, v)
        BY <1>4, <2>3, TurnShows
      <3> QED BY <1>2, <2>1, <3>1
    <2> QED BY <2>2, <2>3
  <1>5. ASSUME NEW q \in Process, BeginLook(q) \/ LookStep(q) PROVE ViewInv'
    <2>1. UNCHANGED vars /\ \E v : Shows(q, v)
      BY <1>1, <1>5, LookShows
    <2> QED BY <1>2, <2>1 DEF vars, writerVars
  <1>6. CASE SweepTurn
    BY <1>1, <1>6 DEF SweepTurn, SweepMoves, ViewInv, Free, At
  <1> QED BY <1>4, <1>5, <1>6 DEF Looks

\* An answer that goes on to be a call's had its dataset to itself all along.
LEMMA ToldAlone ==
    ASSUME DataInv, Track, ViewInv', NEW q \in Process, q \notin crowded', view'[q].own > 0,
           NEW l, l = view'[q].label
    PROVE  /\ q \notin crowded /\ l \in Label /\ Alone(q, l)'
           /\ view'[q] = view[q] =>
                  op[q].pc = "idle" /\ view[q] # NoView /\ Alone(q, l)
PROOF
  <1>1. view'[q] # NoView
    BY NoViewShape
  <1>2. op'[q].pc = "idle" /\ l \in Label
    BY <1>1 DEF ViewInv, Free, At
  <1>3. LabelOf(q)' = l
    BY <1>2 DEF LabelOf, At
  <1>4. q \notin crowded /\ Alone(q, l)'
    BY <1>2, <1>3, Uncrowded
  <1>5. ASSUME view'[q] = view[q]
        PROVE  op[q].pc = "idle" /\ view[q] # NoView /\ Alone(q, l)
    <2>1. op[q].pc = "idle" /\ view[q] # NoView
      BY <1>1, <1>5 DEF DataInv, ViewInv, Free, At
    <2>2. LabelOf(q) = l
      BY <1>5, <2>1 DEF LabelOf, At
    <2> QED BY <1>2, <1>4, <2>1, <2>2 DEF DataInv, CompanyInv
  <1> QED BY <1>2, <1>4, <1>5

\* An answer to an undisturbed write goes on telling what the write did.
LEMMA ToldStep ==
    ASSUME DataInv, ToldInv, Track, ViewInv',
           (\E q \in Process : AnsweringTurn(q)) \/ Looks \/ SweepTurn
    PROVE  ToldInv'
PROOF
  <1> SUFFICES ASSUME NEW p \in Process, p \notin crowded', view'[p].own > 0,
                      NEW l, l = view'[p].label
               PROVE  Tells(view'[p], tables'[l])
    BY DEF ToldInv
  <1>1. TypeInv /\ ViewInv /\ view \in [Process -> View]
    BY DEF DataInv, ViewInv
  <1>2. p \notin crowded /\ l \in Label /\ Alone(p, l)'
    BY ToldAlone
  <1>3. ASSUME view'[p] = view[p]
        PROVE  /\ op[p].pc = "idle" /\ view[p] # NoView /\ Alone(p, l)
               /\ Tells(view'[p], tables[l])
    BY <1>2, <1>3, ToldAlone DEF ToldInv
  <1>4. ASSUME NEW q \in Process, AnsweringTurn(q), view'[p] = view[p]
        PROVE  Tells(view'[p], tables'[l])
    <2>1. q # p
      <3>1. RunCall(p) \/ FailCall(p) => op[p].pc # "idle"
        BY <1>1, RunRuns, FaultBreaks DEF Runs, Breaks
      <3> QED BY <1>3, <1>4, <3>1 DEF AnsweringTurn, Free
    <2>2. PICK o : \E k \in Label : Touches(q, o, k)
      BY <1>1, <1>4, TurnTouches DEF AnsweringTurn, Turn
    <2>3. PICK k \in Label : Touches(q, o, k)
      BY <2>2
    <2>4. tables'[l] = tables[l]
      BY <1>1, <1>2, <1>3, <1>4, <2>1, <2>3, Untouched
    <2> QED BY <1>3, <1>4, <2>4
  <1>5. ASSUME NEW q \in Process, AnsweringTurn(q), view'[p] # view[p]
        PROVE  Tells(view'[p], tables'[l])
    <2>1. PICK v : /\ Shows(q, v)
                   /\ v.own > 0 /\ q \notin crowded => Tells(v, tables'[v.label])
      BY <1>5, TurnShows
    <2>2. q = p /\ view'[p] = v
      BY <1>1, <1>5, <2>1 DEF Shows, Show
    <2> QED BY <1>2, <2>1, <2>2
  <1>6. ASSUME NEW q \in Process, BeginLook(q) \/ LookStep(q)
        PROVE  Tells(view'[p], tables'[l])
    <2>1. tables' = tables
      BY <1>1, <1>6, LookShows DEF vars, storeVars
    <2>2. PICK v : /\ Shows(q, v)
                   /\ v.own > 0 =>
                          /\ view[q].own > 0 /\ v.label = view[q].label
                          /\ Tells(view[q], tables[v.label]) => Tells(v, tables[v.label])
      BY <1>1, <1>6, LookShows
    <2>3. view' = [view EXCEPT ![q] = v]
      BY <2>2 DEF Shows, Show
    <2>4. CASE p = q
      <3>1. view'[p] = v
        BY <1>1, <2>3, <2>4
      <3>2. Tells(view[q], tables[v.label])
        BY <1>2, <2>2, <2>4, <3>1 DEF ToldInv
      <3> QED BY <2>1, <2>2, <3>1, <3>2
    <2>5. CASE p # q
      <3>1. view'[p] = view[p]
        BY <1>1, <2>3, <2>5
      <3> QED BY <1>3, <2>1, <3>1
    <2> QED BY <2>4, <2>5
  <1>7. CASE SweepTurn
    BY <1>3, <1>7 DEF SweepTurn, SweepMoves
  <1> QED BY <1>4, <1>5, <1>6, <1>7 DEF Looks

\* The whole invariant.
AnswersInv == DataInv /\ ToldInv

\* It holds when nothing has been called.
LEMMA InitAnswers == AnswersInit => AnswersInv
PROOF
  <1> SUFFICES ASSUME AnswersInit PROVE AnswersInv
    OBVIOUS
  <1>1. TypeInv
    BY InitType DEF AnswersInit
  <1>2. /\ op = [p \in Process |-> IdleOp] /\ tables = [l \in Label |-> NoTable]
        /\ objects = [l \in Label |-> NoRow] /\ tags = [l \in Label |-> {}]
        /\ sweep.pc = "idle" /\ sweep.plan.backfill = {} /\ wrote = {}
        /\ view = [p \in Process |-> NoView] /\ crowded = {} /\ tangled = {}
    BY DEF AnswersInit, Init, RegistryInit, WritersInit, ReconcilerInit, IdleSweep, NoPlan
  <1>3. IdleInv /\ TagsInv
    BY <1>2 DEF IdleInv, TagsInv
  <1>4. WroteInv
    BY <1>2 DEF WroteInv, Present
  <1>5. CompanyInv
    BY <1>2, NoViewShape, NoneAssumption DEF CompanyInv, LabelOf, At, IdleOp
  <1>6. HandInv
    BY <1>2 DEF HandInv, IdleOp
  <1>7. CalmInv
    BY <1>2 DEF CalmInv, Agreed
  <1>8. SweepCalm
    BY <1>2 DEF SweepCalm
  <1>9. ViewInv
    BY <1>2, NoViewShape DEF ViewInv, Free
  <1>10. ToldInv
    BY <1>2, NoViewShape DEF ToldInv
  <1> QED BY <1>1, <1>3, <1>4, <1>5, <1>6, <1>7, <1>8, <1>9, <1>10 DEF AnswersInv, DataInv

\* A stuttering step keeps it.
LEMMA StutterAnswers == AnswersInv /\ UNCHANGED answerVars => AnswersInv'
PROOF
  <1> SUFFICES ASSUME AnswersInv, UNCHANGED answerVars PROVE AnswersInv'
    OBVIOUS
  <1>1. /\ UNCHANGED <<op, tables, objects, tags, sweep, wrote, view, crowded, tangled>>
        /\ UNCHANGED vars
    BY DEF answerVars, tangleVars, vars, storeVars, registryVars, writerVars, historyVars
  <1>2. TypeInv'
    BY <1>1, NextType DEF AnswersInv, DataInv
  <1>3. IdleInv' /\ TagsInv' /\ WroteInv'
    BY <1>1 DEF AnswersInv, DataInv, IdleInv, TagsInv, WroteInv, Present
  <1>4. CompanyInv'
    BY <1>1 DEF AnswersInv, DataInv, CompanyInv, LabelOf, At, Alone, SweepMinds, WorkLeft
  <1>5. HandInv'
    BY <1>1 DEF AnswersInv, DataInv, HandInv, TableOf, RowAt, TagsAt
  <1>6. CalmInv'
    BY <1>1 DEF AnswersInv, DataInv, CalmInv, AtWork
  <1>7. SweepCalm'
    BY <1>1 DEF AnswersInv, DataInv, SweepCalm, Present, Registered
  <1>8. ViewInv' /\ ToldInv'
    BY <1>1 DEF AnswersInv, DataInv, ViewInv, ToldInv, Free, At
  <1> QED BY <1>2, <1>3, <1>4, <1>5, <1>6, <1>7, <1>8 DEF AnswersInv, DataInv

\* So does every other.
LEMMA NextAnswers == AnswersInv /\ [AnswersNext]_answerVars => AnswersInv'
PROOF
  <1> SUFFICES ASSUME AnswersInv, AnswersNext PROVE AnswersInv'
    BY StutterAnswers
  <1>1. DataInv /\ ToldInv /\ TypeInv /\ ViewInv /\ Track
    BY DEF AnswersInv, DataInv, AnswersNext
  <1>2. TypeInv'
    BY <1>1, AnswersAreDrift, NextType
  <1>3. (\E q \in Process : AnsweringTurn(q)) \/ Looks \/ SweepTurn
    <2>1. RunSweep \/ FailSweep => SweepMoves
      BY <1>1, SweepStepMoves
    <2> QED BY <2>1 DEF AnswersNext, AnsweringTurn, Looks, SweepTurn
  <1>4. /\ (\E q \in Process : Turn(q)) \/ SweepMoves \/ Rests
        /\ (\E q \in Process : Turn(q) /\ (BeginSomeCall(q) => Free(q))) \/ op' = op
    <2>1. ASSUME NEW q \in Process, AnsweringTurn(q)
          PROVE  Turn(q) /\ (BeginSomeCall(q) => Free(q))
      <3>1. BeginSomeCall(q) => op[q].pc = "idle"
        BY <1>1, BeginBegins DEF Begins
      <3>2. RunCall(q) \/ FailCall(q) => op[q].pc # "idle"
        BY <1>1, RunRuns, FaultBreaks DEF Runs, Breaks
      <3> QED BY <2>1, <3>1, <3>2 DEF AnsweringTurn, Turn
    <2>2. CASE Looks
      BY <1>1, <2>2, LookShows
      DEF Looks, Rests, vars, storeVars, registryVars, writerVars
    <2>3. CASE SweepTurn
      BY <2>3 DEF SweepTurn, SweepMoves
    <2> QED BY <1>3, <2>1, <2>2, <2>3
  <1>5. WroteInv'
    <2>1. CASE Looks
      <3>1. UNCHANGED <<tables, wrote>>
        BY <1>1, <2>1, LookShows DEF Looks, vars, storeVars, historyVars
      <3> QED BY <1>1, <3>1 DEF DataInv, WroteInv, Present
    <2>2. CASE ~Looks
      <3>1. History
        BY <2>2 DEF AnswersNext, BeginSomeCall, RunCall, FailCall, RunSweep, FailSweep, Looks
      <3> QED BY <3>1, WroteStep
    <2> QED BY <2>1, <2>2
  <1>6. IdleInv'
    <2>1. CASE \E q \in Process : Turn(q)
      <3>1. PICK q \in Process : Turn(q)
        BY <2>1
      <3>2. \E o : \E l \in Label : Touches(q, o, l)
        BY <1>1, <3>1, TurnTouches
      <3> QED BY <1>1, <3>2, IdleStep DEF DataInv
    <2>2. CASE SweepMoves \/ Rests
      BY <1>1, <2>2 DEF DataInv, IdleInv, SweepMoves, Rests
    <2> QED BY <1>4, <2>1, <2>2
  <1>7. TagsInv'
    <2>1. CASE Rests
      BY <1>1, <2>1 DEF Rests, DataInv, TagsInv
    <2> QED BY <1>1, <1>4, <2>1, TagsStep DEF DataInv
  <1>8. CompanyInv'
    BY <1>1, <1>4, <1>6, CompanyStep
  <1>9. HandInv' /\ CalmInv' /\ SweepCalm'
    BY <1>1, <1>2, <1>4, <1>6, HandStep, CalmStep, SweepCalmStep
  <1>10. ViewInv'
    BY <1>1, <1>3, ViewStep
  <1>11. ToldInv'
    BY <1>1, <1>3, <1>10, ToldStep
  <1> QED
    BY <1>2, <1>5, <1>6, <1>7, <1>8, <1>9, <1>10, <1>11 DEF AnswersInv, DataInv

\* A dataset at rest that is not tangled has a row exactly if it has a table,
\* and row, tags and data are one call's.
THEOREM SerialCallsDoAgree == AnswersSpec => []SerialCallsAgree
PROOF
  <1>1. AnswersInv => SerialCallsAgree
    <2> SUFFICES ASSUME AnswersInv, NEW l \in Label \ tangled, AtRest(l)
                 PROVE  /\ l \in Present <=> l \in Registered
                        /\ l \in Present => /\ tables[l].filled
                                            /\ objects[l].by = tables[l].by
                                            /\ tags[l] \subseteq {tables[l].by}
      BY DEF SerialCallsAgree
    <2>1. Agreed(tables[l], objects[l])
      BY DEF AnswersInv, DataInv, CalmInv, AtRest
    <2>2. tags[l] \subseteq {objects[l].by}
      BY DEF AnswersInv, DataInv, TagsInv
    <2> QED BY <2>1, <2>2 DEF Agreed, Present, Registered
  <1> QED BY <1>1, InitAnswers, NextAnswers, PTL DEF AnswersSpec

\* An answer to a write that had its dataset to itself holds the call's own row
\* and tags, and the schema and count of its own last commit.
THEOREM AnswersTellWhatWasWritten == AnswersSpec => []AnswersTellTheWrite
PROOF
  <1>1. AnswersInv => AnswersTellTheWrite
    BY DEF AnswersInv, ToldInv, Tells, AnswersTellTheWrite
  <1> QED BY <1>1, InitAnswers, NextAnswers, PTL DEF AnswersSpec

\* Answers in the making, and what is noted of the calls, are well typed.
THEOREM AnswersAreTyped == AnswersSpec => []AnswersTypeOK
PROOF
  <1>1. AnswersInit => cut \subseteq Call
    BY DEF AnswersInit
  <1>2. TypeInv' /\ cut \subseteq Call /\ [AnswersNext]_answerVars => (cut \subseteq Call)'
    BY DEF AnswersNext, answerVars, tangleVars, Track, TypeInv, TypeOK, WriterTypeOK, Unfilled,
           Present, Version
  <1>3. AnswersInit => tangled \subseteq Label
    BY DEF AnswersInit
  <1>4. tangled \subseteq Label /\ [AnswersNext]_answerVars => (tangled \subseteq Label)'
    BY DEF AnswersNext, answerVars, tangleVars, Track
  <1>5. AnswersInv => TypeInv /\ AnswersInv
    BY DEF AnswersInv, DataInv
  <1>6. AnswersInv /\ cut \subseteq Call /\ tangled \subseteq Label => AnswersTypeOK
    BY DEF AnswersInv, DataInv, TypeInv, CompanyInv, ViewInv, AnswersTypeOK
  <1> QED BY <1>1, <1>2, <1>3, <1>4, <1>5, <1>6, InitAnswers, NextAnswers, PTL DEF AnswersSpec
=============================================================================
