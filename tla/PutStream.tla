----------------------------- MODULE PutStream -----------------------------
(***************************************************************************)
(* Uploads over the Flight server, row by row (do_put in                   *)
(* data_plane/flight_server.py over write_arrow in core/catalog.py).       *)
(* Module Writers counts an upload's commits; this one follows what is in  *)
(* them: how batches are buffered, when they are flushed, and what the     *)
(* table holds while uploads and forgets of one dataset interleave.        *)
(***************************************************************************)
EXTENDS Integers, Sequences

CONSTANTS
    Upload,      \* do_put calls, each on a thread of the Flight server
    Modes,       \* the modes clients ask for
    Threshold,   \* settings.doput_single_commit_max_rows
    MaxBatch,    \* bound: rows of one record batch
    MaxRows,     \* bound: rows of one upload
    MaxForgets   \* bound: drops of the table

ASSUME ModesAssumption == Modes \subseteq {"create", "replace", "append"}
ASSUME ThresholdAssumption == Threshold \in Nat \ {0}
ASSUME UploadAssumption == "old" \notin Upload   \* who wrote the rows from before
ASSUME BoundsAssumption == {MaxBatch, MaxRows, MaxForgets} \subseteq Nat

VARIABLES
  \* The Iceberg table: its version, which no other state of it shares, and
  \* its rows <<upload, number>>.  Version 0 is no table.
  table,
  \* Versions handed out so far.
  versions,
  \* Each call: received counts the rows read from the client, buffered those
  \* of them not yet written, commits the flushes done.  (History) alone: no
  \* other upload has run next to it, nor begun after it.
  up,
  \* Drops so far.
  forgets

putVars == <<table, versions, up, forgets>>

NoTable == [version |-> 0, rows |-> <<>>]

Waiting == [pc |-> "new", mode |-> "none", received |-> 0, buffered |-> 0, commits |-> 0,
            base |-> 0, ended |-> FALSE, alone |-> TRUE]

Running(u) == up[u].pc \notin {"new", "done", "failed"}

\* There may be a table from before.
PutInit ==
    /\ versions \in {0, 1} /\ forgets = 0
    /\ table = IF versions = 0 THEN NoTable ELSE [version |-> 1, rows |-> <<<<"old", 1>>>>]
    /\ up = [u \in Upload |-> Waiting]

Exists == table # NoTable

\* A catalog commit.
Install(rows) ==
    /\ versions' = versions + 1
    /\ table' = [version |-> versions + 1, rows |-> rows]

Start(u) ==
    /\ up[u].pc = "new"
    /\ \E mode \in Modes :
           up' = [v \in Upload |->
                    IF v = u THEN [Waiting EXCEPT !.pc = "stream", !.mode = mode,
                                                  !.alone = \A w \in Upload : ~Running(w)]
                    ELSE [up[v] EXCEPT !.alone = FALSE]]
    /\ UNCHANGED <<table, versions, forgets>>

\* Mutants: every batch is flushed; nothing is before the end.
FlushEagerly(buffered) == TRUE
FlushNever(buffered) == FALSE

FlushDue(buffered) == buffered >= Threshold

\* A batch arrives.  (Empty batches are skipped.)
Receive(u) ==
    \E n \in 1 .. MaxBatch :
        /\ up[u].pc = "stream"
        /\ up[u].received + n <= MaxRows
        /\ up' = [up EXCEPT ![u].received = @ + n, ![u].buffered = @ + n,
                            ![u].pc = IF FlushDue(up[u].buffered + n) THEN "write" ELSE "stream"]
        /\ UNCHANGED <<table, versions, forgets>>

\* Mutant: what is still buffered when the stream ends is dropped.
EndWithoutFlush(u) ==
    /\ up[u].pc = "stream"
    /\ up' = [up EXCEPT ![u].ended = TRUE,
                        ![u].pc = IF up[u].commits = 0 THEN "write" ELSE "done"]
    /\ UNCHANGED <<table, versions, forgets>>

\* The client closes the stream: the last flush, or an empty table for an
\* empty upload.
EndOfStream(u) ==
    /\ up[u].pc = "stream"
    /\ up' = [up EXCEPT ![u].ended = TRUE,
                        ![u].pc = IF up[u].buffered > 0 \/ up[u].commits = 0
                                  THEN "write" ELSE "done"]
    /\ UNCHANGED <<table, versions, forgets>>

\* Mutant: every flush uses the mode the client asked for.
FlushModeAsAsked(u) == up[u].mode

\* The first flush uses the requested mode, later ones append.
FlushMode(u) == IF up[u].commits = 0 THEN up[u].mode ELSE "append"

\* write_arrow: does the table exist?
Look(u) ==
    /\ up[u].pc = "write"
    /\ up' = [up EXCEPT ![u].pc = IF ~Exists THEN "create"
                                  ELSE IF FlushMode(u) = "create" THEN "failed"
                                  ELSE "load"]
    /\ UNCHANGED <<table, versions, forgets>>

\* create_table, which fails if somebody created the table meanwhile.
Create(u) ==
    /\ up[u].pc = "create"
    /\ IF Exists
       THEN up' = [up EXCEPT ![u].pc = "failed"] /\ UNCHANGED <<table, versions>>
       ELSE /\ Install(<<>>)
            /\ up' = [up EXCEPT ![u].pc = "append", ![u].base = versions + 1]
    /\ UNCHANGED forgets

\* load_table; a replace goes on to overwrite, an append to append.
Load(u) ==
    /\ up[u].pc = "load" /\ Exists
    /\ up' = [up EXCEPT ![u].base = table.version,
                        ![u].pc = IF FlushMode(u) = "replace" THEN "overwrite" ELSE "append"]
    /\ UNCHANGED <<table, versions, forgets>>

\* The rows the buffer holds.
Chunk(u) == [i \in 1 .. up[u].buffered |-> <<u, up[u].received - up[u].buffered + i>>]

\* Mutant: the commit is made on whatever version is current.
CommitUnchecked(u) ==
    /\ up[u].pc \in {"append", "overwrite"}
    /\ Install((IF up[u].pc = "append" THEN table.rows ELSE <<>>) \o Chunk(u))
    /\ up' = [up EXCEPT ![u].commits = @ + 1, ![u].buffered = 0,
                        ![u].pc = IF up[u].ended THEN "done" ELSE "stream"]
    /\ UNCHANGED forgets

\* The commit, refused when the table is no longer the version it builds on.
CommitChunk(u) ==
    /\ up[u].pc \in {"append", "overwrite"}
    /\ IF table.version = up[u].base
       THEN /\ Install((IF up[u].pc = "append" THEN table.rows ELSE <<>>) \o Chunk(u))
            /\ up' = [up EXCEPT ![u].commits = @ + 1, ![u].buffered = 0,
                                ![u].pc = IF up[u].ended THEN "done" ELSE "stream"]
       ELSE up' = [up EXCEPT ![u].pc = "failed"] /\ UNCHANGED <<table, versions>>
    /\ UNCHANGED forgets

\* The client goes away, the schema does not fit, a call raises, the pod dies.
Fail(u) ==
    /\ up[u].pc \notin {"new", "done", "failed"}
    /\ up' = [up EXCEPT ![u].pc = "failed"]
    /\ UNCHANGED <<table, versions, forgets>>

\* forget_dataset of the table.
Forget ==
    /\ Exists
    /\ forgets < MaxForgets
    /\ forgets' = forgets + 1
    /\ table' = NoTable
    /\ UNCHANGED <<versions, up>>

PutNext ==
    \/ \E u \in Upload :
           \/ Start(u) \/ Receive(u) \/ EndOfStream(u)
           \/ Look(u) \/ Create(u) \/ Load(u) \/ CommitChunk(u)
           \/ Fail(u)
    \/ Forget

PutSpec == PutInit /\ [][PutNext]_putVars
-----------------------------------------------------------------------------
\* The rows of u are the first n it sent: in order, once and without gaps,
\* whatever rows of others lie between them.
Holds(rows, u, n) ==
    LET places == {i \in DOMAIN rows : rows[i][1] = u}
    IN  /\ {rows[i][2] : i \in places} = 1 .. n
        /\ \A i, j \in places : i < j => rows[i][2] < rows[j][2]

HasRows(u) == \E i \in DOMAIN table.rows : table.rows[i][1] = u

\* "Small uploads stay atomic": of an upload that never buffered Threshold
\* rows the table holds all rows or none, at every moment and after every
\* failure of it or of others.
SmallUploadsAtomic ==
    \A u \in Upload :
        up[u].received < Threshold /\ HasRows(u) =>
            /\ up[u].pc = "done"
            /\ Holds(table.rows, u, up[u].received)

\* As long as nobody overwrites or drops the table, an upload's rows are in it
\* in order, once, and without gaps, however its flushes interleave with those
\* of others; all of them once it has returned.
UploadsArriveWhole ==
    forgets = 0 /\ (\A v \in Upload : up[v].mode # "replace") =>
        \A u \in Upload : /\ \E n \in 0 .. up[u].received : Holds(table.rows, u, n)
                          /\ up[u].pc = "done" => Holds(table.rows, u, up[u].received)

\* A replace that is alone with the dataset leaves exactly the rows it sent,
\* however many commits it takes and whatever it found: a table from before, or
\* what an earlier upload left of the same rows, finished or broken off.  So a
\* client whose upload failed, or was not answered, gets it right by a replace
\* that starts after the first has ended.
ReplaceReplaces ==
    \A u \in Upload :
        up[u].mode = "replace" /\ up[u].pc = "done" /\ up[u].alone /\ forgets = 0 =>
            table.rows = [i \in 1 .. up[u].received |-> <<u, i>>]

\* Small uploads that create or replace can be retried at any time, while the
\* first attempt still runs too: the table never has the rows of two of them.
\* (Appends, and uploads of several flushes, can repeat rows.)
RetriesRepeatNothing ==
    (\A u \in Upload : up[u].mode # "append" /\ up[u].received < Threshold) =>
        \A u, v \in Upload : HasRows(u) /\ HasRows(v) => u = v

\* "A huge upload can't OOM the pod": the buffer is bounded by the threshold
\* and one batch, whatever the length of the stream.
BufferBounded == \A u \in Upload : up[u].buffered < Threshold + MaxBatch
=============================================================================
