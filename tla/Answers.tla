------------------------------ MODULE Answers ------------------------------
(***************************************************************************)
(* What callers are told of a dataset, and when it can be relied on.       *)
(* Module Drift follows the calls to their last write; this one adds the   *)
(* reads that describe_object goes on with, alone or as the answer to a    *)
(* write, and pending_object's (tools/objects.py), each read a step of its *)
(* own among the steps of Drift.  It also notes which calls had a dataset  *)
(* to themselves, which Drift's own variables do not tell.                 *)
(***************************************************************************)
EXTENDS Drift

\* "none" stands for no label.
ASSUME NoneAssumption == "none" \notin Label

VARIABLES
    \* The answer each process is putting together.
    view,
    \* History.  crowded: processes whose call has had to share its dataset
    \* with another call or with a sweep.  tangled: datasets that calls
    \* shared, or on which one broke off, since a call that had them to itself
    \* last wrote or forgot them.  cut: calls that a fault ended and whose table
    \* has no data yet.
    crowded, tangled, cut

tangleVars == <<crowded, tangled, cut>>
answerVars == <<vars, view, tangleVars>>

(***************************************************************************)
(* A MemoryObject in the making: own is the call it answers (0: a plain    *)
(* describe); schema and count are known by the table version they were    *)
(* read from.                                                              *)
(***************************************************************************)
NoView == [pc |-> "none", label |-> "none", own |-> 0, pending |-> FALSE, row |-> NoRow,
           tags |-> {}, parents |-> {}, schema |-> NoTable, count |-> NoTable]

\* registry.get_object: row and tags.
ViewOfRow(l, own) == [NoView EXCEPT !.pc = "schema", !.label = l, !.own = own,
                                    !.row = objects[l], !.tags = tags[l]]

\* Mutant: a pending answer is put together from the registry.
PendingFromRegistry(p) == [ViewOfRow(op[p].label, op[p].call) EXCEPT !.pending = TRUE]

\* pending_object: from the values the call has in hand.
PendingView(p) == [NoView EXCEPT !.pc = "schema", !.label = op[p].label, !.own = op[p].call,
                                 !.pending = TRUE, !.row = RowOf(p), !.tags = TagsOf(p),
                                 !.parents = op[p].parents]

Show(p, v) == view' = [view EXCEPT ![p] = v]

Free(p) == view[p] = NoView

\* describe_object of a dataset whose row is there.
BeginLook(p) ==
    \E l \in Registered :
        /\ MayBegin(p, "describe", "none") /\ Free(p)
        /\ Show(p, ViewOfRow(l, 0))
        /\ UNCHANGED vars

\* Where a step of a call under way leads its answer: get_object found the
\* row, _read_repair wrote one and gets it again, or the write returns.
CallShows(p) ==
    IF At(p, "get") /\ op[p].label \in Registered
    THEN Show(p, ViewOfRow(op[p].label, op[p].call))
    ELSE IF At(p, "repair")
    THEN Show(p, [NoView EXCEPT !.pc = "again", !.label = op[p].label, !.own = op[p].call])
    ELSE UNCHANGED view

\* A fault at the record step is a death or a registry that is down; do_put
\* answers with the row count alone.
FaultShows(p) ==
    \/ UNCHANGED view
    \/ ReadyToRecord(p) /\ op[p].tool # "put" /\ Show(p, PendingView(p))

\* _read_repair's second get_object.
LookAgain(p) ==
    /\ view[p].pc = "again"
    /\ IF view[p].label \in Registered
       THEN Show(p, ViewOfRow(view[p].label, view[p].own))
       ELSE Show(p, NoView)
    /\ UNCHANGED vars

\* catalog.load_schema, which raises when the table is gone.
LookSchema(p) ==
    /\ view[p].pc = "schema"
    /\ IF view[p].label \in Present
       THEN Show(p, [view[p] EXCEPT !.schema = tables[view[p].label],
                                    !.pc = IF view[p].pending THEN "count" ELSE "parents"])
       ELSE Show(p, NoView)
    /\ UNCHANGED vars

\* registry.get_parents.
LookParents(p) ==
    /\ view[p].pc = "parents"
    /\ Show(p, [view[p] EXCEPT !.parents = lineage[view[p].label], !.pc = "count"])
    /\ UNCHANGED vars

\* _row_count: SELECT count(*) through Trino (None, here NoTable, when the table
\* is gone; a count that fails otherwise leaves the answer as it is).
LookCount(p) ==
    /\ view[p].pc = "count"
    /\ Show(p, [view[p] EXCEPT !.count = tables[view[p].label], !.pc = "answered"])
    /\ UNCHANGED vars

Return(p) == view[p].pc = "answered" /\ Show(p, NoView) /\ UNCHANGED vars

LookStep(p) == LookAgain(p) \/ LookSchema(p) \/ LookParents(p) \/ LookCount(p) \/ Return(p)
-----------------------------------------------------------------------------
AtWork(l) == {p \in Process : op[p].label = l}

\* A sweep takes its snapshot of every label, and then minds those it has
\* work for.
SweepMinds(l) == sweep.pc \in {"labels", "plan"} \/ l \in WorkLeft(sweep.plan) \cup {sweep.label}

LabelOf(p) == IF At(p, "idle") THEN view[p].label ELSE op[p].label

\* Somebody else is at work on the dataset of p's call.
HasCompany(p) ==
    \E l \in Label \cap {LabelOf(p)} : AtWork(l) \ {p} # {} \/ SweepMinds(l)

Unfilled == {l \in Present : ~tables[l].filled}

\* A write leaves without having put its row behind the data it committed.
LeavesNoRow(p) ==
    /\ op'[p] = IdleOp /\ op[p].call \in wrote'
    /\ objects'[op[p].label].by # op[p].call

\* p ends its writing in this step as the code has it end: the row is
\* recorded, or both halves are gone.
WritesLast(p) == \/ ReadyToRecord(p) /\ objects'[op[p].label].by = op[p].call
                 \/ At(p, "unregister")

Track ==
    LET failed == {p \in Process : faults' # faults /\ op'[p] # op[p]}
        broke  == failed \cup {p \in Process \ failed : op[p].call > 0 /\ LeavesNoRow(p)}
        shared == {p \in Process : HasCompany(p)'}
        serial == {p \in Process \ (crowded \cup broke) : op'[p] # op[p] /\ WritesLast(p)}
    IN  /\ crowded' = {p \in Process : LabelOf(p)' # "none" /\ p \in crowded \cup shared}
        /\ tangled' = Label \cap ((tangled \ {op[p].label : p \in serial})
                                   \cup {op[p].label : p \in broke}
                                   \cup {op'[p].label : p \in shared})
        /\ cut' = (cut \cup {op[p].call : p \in failed}) \cap {tables'[l].by : l \in Unfilled'}

AnswersInit ==
    /\ Init
    /\ view = [p \in Process |-> NoView]
    /\ crowded = {} /\ tangled = {} /\ cut = {}

AnswersNext ==
    /\ \/ \E p \in Process :
              \/ BeginSomeCall(p) /\ Free(p) /\ UNCHANGED view
              \/ RunCall(p) /\ CallShows(p)
              \/ FailCall(p) /\ FaultShows(p)
              \/ BeginLook(p)
              \/ LookStep(p)
       \/ RunSweep /\ UNCHANGED view
       \/ FailSweep /\ UNCHANGED view
    /\ Track

AnswersSpec == AnswersInit /\ [][AnswersNext]_answerVars
-----------------------------------------------------------------------------
View == [pc : {"none", "again", "schema", "parents", "count", "answered"},
         label : Label \cup {"none"}, own : 0 .. MaxCalls, pending : BOOLEAN,
         row : Row \cup {NoRow}, tags : SUBSET Call, parents : SUBSET Label,
         schema : Version \cup {NoTable}, count : Version \cup {NoTable}]

\* Answers in the making hold what registry and catalog hand out, a process
\* puts together one answer at a time, and not while a call of it still runs.
AnswersTypeOK ==
    /\ TypeOK
    /\ view \in [Process -> View]
    /\ crowded \subseteq Process /\ tangled \subseteq Label /\ cut \subseteq Call
    /\ \A p \in Process : ~Free(p) => At(p, "idle")

AtRest(l) == AtWork(l) = {} /\ ~SweepMinds(l)

\* The two stores disagree about a dataset only after calls or sweeps met on
\* it, or a call broke off: otherwise it has a row exactly if it has a table,
\* and row, tags and data are one call's.  And a dataset they disagree about
\* is put right by one write that has it to itself (_read_repair's "re-running
\* the producer"), or by one forget.
SerialCallsAgree ==
    \A l \in Label \ tangled :
        AtRest(l) => /\ l \in Present <=> l \in Registered
                     /\ l \in Present => /\ tables[l].filled
                                         /\ objects[l].by = tables[l].by
                                         /\ tags[l] \subseteq {tables[l].by}

\* A table without data is one that is just being created, or what is left of
\* a call cut off in that very moment: no refused commit, lost race, sweep or
\* later call leaves one behind (write_arrow's create_table and append).
EmptyOnlyWhileCreated ==
    \A l \in Unfilled : \/ tables[l].by \in cut
                        \/ \E p \in AtWork(l) : At(p, "commit") /\ op[p].base = tables[l]

\* A write that had its dataset to itself is answered with what it wrote: its
\* own row and tags, and the schema and count of its own last commit.  So is one
\* that found the registry down, whatever stale row the registry holds
\* (pending_object: "from values in hand").
AnswersTellTheWrite ==
    \A p \in Process \ crowded :
        LET v == view[p]
        IN  v.pc = "answered" /\ v.own > 0 =>
                /\ v.row.by = v.own /\ v.tags = {v.own}
                /\ v.schema.by = v.own /\ v.schema.filled
                /\ v.count = v.schema
=============================================================================
