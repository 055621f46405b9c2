# memcove: TLA+ models, checks and proofs

memcove gives agents a durable memory of datasets. A dataset is an Iceberg table
(rows, in an object store, reached through Trino and PyIceberg) together with a
row in a small SQL registry (source, producing SQL, tags, lineage). **No
transaction spans the two stores.** What makes memcove correct is how it lives
with that: data is written first and metadata afterwards, a crash in between is
repaired on the next read or by a periodic sweep, and the sweep must never throw
away metadata of data that is there. This directory models that core, checks it
with TLC, proves the main safety properties with TLAPS, and adds smaller models
of the parts around it.

Contents: [inventory](#inventory), [modules](#modules),
[how the core corresponds to the code](#the-core-and-the-code), [runs](#runs),
[fairness](#fairness), [proofs](#proofs), [disagreements](#disagreements-with-documentation-and-comments),
[not modelled](#not-modelled), [plan](#plan).

Paths below are relative to `src/memcove/` of the repository.

## Inventory

| component | state | operations | hard about it |
|---|---|---|---|
| registry (`core/registry.py`) | object rows, tags, lineage edges, grace counters per tenant | `record_object`, `record_object_guarded`, `delete_object`, `bump/clear_tombstone`, reads | concurrent writers of one label, multi-statement transactions |
| registry backends (`core/registry_backends.py`) | connection or pool, SQLite's lock (one per process) | `connection()`, upsert SQL, `is_connection_down` | isolation differs between SQLite and Postgres; commit and rollback |
| catalog (`core/catalog.py`) | Iceberg tables of a namespace | `write_arrow` (create, replace, append), `drop_table`, `table_exists`, `list_labels` | create and append are two commits; optimistic commits; a failing listing reads as empty |
| reconciler (`reconciler.py`) | the snapshot and plan of a sweep; grace counters in the registry | `plan_namespace`, `apply_plan`, `reconcile` | stale snapshots, short listings, crashes half way, deletion cap and grace period, one bad namespace among good ones |
| ingest (`tools/ingest.py`) | none of its own | `ingest_object`, `request_upload` | data committed, row not; races of modes; size checked, then read; addresses compared as strings |
| derive (`tools/derive.py`) | none | `derive_object` | probe, CTAS, parent lookups and record are separate steps |
| objects (`tools/objects.py`) | none | `describe_object` with read-repair, `drop_object`, `get_object`, `list_objects` | drop then unregister; repair from a stale look; an answer put together from five reads |
| Flight server (`data_plane/flight_server.py`) | buffer and commit count of an upload | `do_put`, `do_get`, `get_flight_info` | threads; several commits per upload; clients that go away |
| tickets (`data_plane/tickets.py`) | none (secret, clock) | `sign`, `verify` | expiry on two clocks, whole seconds, re-issue |
| Trino client (`core/trino_client.py`) | one connection per call or stream | `execute*`, `stream_arrow_batches` | connection lifetime of lazy streams |
| query, SQL guard (`tools/query.py`, `core/sql_guard.py`) | none | `run_query`, `validate_select`, `wrap_preview` | cap arithmetic; names that a WITH may or may not hide; which names are lineage |
| artifacts (`tools/artifacts.py`) | an S3 object being written | `export_artifact` | failure in mid-stream |
| scratchpad (`core/scratch.py`) | DuckDB catalogs, schemas and tables behind Trino, not registered | `table_exists`, `ensure`, `create_as_select`, `drop`, `describe` | every statement commits by itself; replace is drop, then create |
| storage (`core/storage.py`) | objects in S3 buckets | `resolve`, HEAD, GET, presigned URLs | size check and read are two requests; a URL may be used again until it expires |
| tenancy, OAuth (`core/tenancy.py`, `core/oauth.py`) | settings only | `resolve_tenant`, `resolve_tenant_from_claims` | four modes, two ways in, names that normalise alike |
| MCP server (`server.py`) | none | one handler per tool | runs one synchronous tool at a time per replica; several replicas |

How they interact: the MCP server and the Flight server call tools, tools call
catalog and Trino for data and the registry for metadata; the reconciler, a
CronJob in a process of its own, reads both stores and writes the registry.
Everything they share is in the two stores, so every interleaving of their
individual calls is possible; there are no locks across calls.

What makes each correct, in one line: *registry*: a row, its tags and its edges
belong together, whatever order writers come in; *catalog and writers*: a row
never describes data that was not written, and stores that nobody disturbs agree;
columns change only where documented; *reconciler*: it heals drift in every
namespace, and deletes only what was gone, rarely and late; *uploads*: small ones are
atomic, none loses or repeats rows, a replace may be retried; *reads*: what is returned
is complete or says it is not, and a write is answered with what it wrote; *staging*: an
ingest reads its tenant's upload or an allowed bucket, within the cap; *connections*: given back; *guard*: a statement reads its tenant's tables, and
lineage names what was read; *tickets*: good for their time and hardly longer; *tenancy*:
who is told apart stays apart; *scratchpad*: a race leaves one whole table.

## Modules

    Namespace          the labels of one tenant
      Registry         registry.py: rows, tags, edges, counters; one operator per function
      Catalog          Iceberg commits, as catalog.py and Trino make them
      ReconcilePlan    plan_namespace, a pure operator
        Writers        = Registry + Catalog: ingest, derive, describe, forget, do_put
        Reconciler     = Registry + Catalog + ReconcilePlan: one sweep, call by call
          Drift        = Writers + Reconciler + faults: the whole core
            Answers    = Drift + the reads that answers are made of
          SweepAlone   = Reconciler with nobody else; refines QuietSweeps
            SweepJob   = SweepAlone + the job's loop over namespaces
      QuietSweeps      the abstract sweep: one step per sweep
    RegistryTx         registry transactions, statement by statement, on either backend, from
                       one process or several; on SQLite it implements RegistryAtomic, but for
                       reads that another process overtakes
    RegistryAtomic     the abstract registry: one step per function
    PutStream          an upload's batches, buffer and flushes, row by row
    Scratch            ingest and derive into the scratchpad, statement by statement
    Tenancy            which tenant a caller is, behind a proxy and with a token
    Guard              validate_select: what the names of a SELECT may mean
    Preview            the row caps of query and recall
    Tickets            Flight tickets: sign, re-issue, expire
    ResultStream       a streamed result, its connection and its S3 object
    Staging            upload handles, presigned PUTs, and the ingest that reads the object
    Shapes             the columns of a dataset, and the checks that keep them
      Requests         the seven parts a request passes, one at a time

    MCDrift, MCAnswers, MCSweepJob, MCRegistryTx, MCPutStream, MCScratch, MCRequests
                       values for TLC
    MCDriftGrace       Drift with a count of the sweeps in a row that missed a table
    DriftProofs        type invariant of Drift
    SweepProofs        safety of sweeps (on DriftProofs); the sweep alone refines QuietSweeps
                       (on SweepJob)
    MetadataProofs     metadata stays whole, rows follow data (on DriftProofs)
    AnswersProofs      what empty tables there can be, when the stores agree, what a write is
                       answered with (on Answers and DriftProofs)
    RegistryTxProofs   records commit whole; what RegistryTx implements on SQLite
    PutStreamProofs    uploads: bounded, atomic when small, complete, safe to retry
    ScratchProofs      what a scratch table may be lost to, what answers describe, who wins
    RequestProofs      the safety of all seven parts of Requests

`Calls` holds the numbering of calls that rows and table versions share. There
are no RECURSIVE operators anywhere, so every module can be proved about.

Operators whose comment begins with "Mutant" are small bugs: putting one in place
of the definition that follows it must break the property it is listed with in
`PROJECT.json`. They take no part in any run.

## The core and the code

**Data.** A label is a model value. A table is a version: the number of the call
that committed it, how many commits that call had done, and whether rows were
ever put in (`create_table` alone leaves `filled = FALSE`). A registry row is its
source, the number of the call it describes, and the labels its SQL names. A
call's tags are known by its number. Column types, rows, SQL text and timestamps
are not kept; where the code decides on them (schema check, Trino rejecting a
statement) the model may go either way.

**Steps.** Each call to the catalog, Trino or the registry is one step, and steps
of different processes interleave. A replica runs one tool at a time (the tools
are synchronous functions on the server's event loop); each upload has a Flight
thread of its own. A refused call that has not written anything is left out.

| code | model |
|---|---|
| `write_arrow`: `table_exists` / `create_table` / `load_table` + schema check / `append`, `overwrite` | `BeginWrite` / `WriteCreate` / `WriteLoad` / `WriteCommit` |
| `do_put` later flushes | `PutFlush`, back to `write_arrow` in append mode |
| `derive_object`: exists check, `_assert_replace_keeps_shape`, CTAS, one `table_exists` per parent | `BeginDerive`, `DeriveProbe`, `DeriveCtas`, `DeriveParent` |
| `record_object_guarded`, its False answer | `Record`, `RecordPending` |
| `describe_object`, `_read_repair` | `DescribeGet`, `RepairExists`, `RepairRecord` |
| `drop_object`: `drop_table`, `delete_object` | `BeginForget`, `ForgetUnregister` |
| process dies or an exception ends a call | `Die` |
| `reconcile`: `list_labels`, `labels_for_tenant`, `tombstones_for_tenant` + `plan_namespace` | `SweepList`, `SweepLabels`, `SweepPlan` |
| `apply_plan`: backfill, clear, bump loops | `SweepBackfill`, `SweepClear`, `SweepBump` |
| `apply_plan`: re-check, `delete_object`, `clear_tombstone` | `SweepRecheck`, `SweepDelete`, `SweepUntomb` |
| a listing that failed or came short; the job dies or raises | `SweepListShort`, `SweepStop` |
| `describe_object` and `_read_repair`: `get_object`, `load_schema`, `get_parents`, `_row_count` | `BeginLook`, `CallShows`, `LookAgain`, `LookSchema`, `LookParents`, `LookCount` (Answers) |
| `pending_object` | `PendingView`, then `LookSchema`, `LookCount` |
| `main`, `reconcile`: `list_namespaces`, the loop and its `try` | `JobStart`, `JobList`, `JobListFails`, `JobPick`, `NeighbourSwept`, `NeighbourRaises`, `MineSweeps` (SweepJob) |

The loops of `apply_plan` go through sorted labels; the model takes them in any
order, which includes that one. Sweeps do not overlap, because the chart's CronJob
says `concurrencyPolicy: Forbid`.

**External behaviour assumed.** An Iceberg commit is refused when the table is no
longer the version it was built on. `create_table` fails on an existing table.
Trino's CTAS is atomic, reads tables that exist, and `CREATE OR REPLACE` swaps
whatever is there. A registry function is one transaction; `RegistryTx` examines
that assumption.

**Answers** joins the reads of an answer to Drift. Drift ends a call with the last
step that may still write; from there `view` puts the `MemoryObject` together, and knows
its schema and its count by the table version they were read from. A process begins nothing
else until its answer is out. Three more variables are history: which calls had company
(another call, or a sweep that minds the label) on their dataset, which datasets such calls or
faults have left tangled, and which calls a fault ended. The properties are about the others.

**SweepJob** follows one namespace in full and its neighbours by how their sweeps end.
Any order of the catalog's listing is possible, a run may fail to list, and
a neighbour may raise each time. Sweeps of the namespace itself that raise are Drift's `SweepStop`.

**RegistryTx.** A behaviour runs on the backend it starts with, and each session is a thread of one
process (server, Flight server and reconciler are three). SQLite's backend holds a lock from the first
statement to the commit, but one per process. Processes that share the file meet in SQLite: the first
statement that writes takes the file's write lock until the commit, and the two SELECTs of `get_object`,
for which `sqlite3` begins no transaction, are each by themselves. So `ActsAtomically` excepts a get that is
overtaken between its SELECTs where there is another process to do it, and nothing else. Postgres runs at psycopg's default, READ COMMITTED: a statement sees what was
committed when it starts, waits for a row another transaction has written, then
re-examines it; a statement that finds no row locks nothing. A DELETE is therefore
two steps, finding rows and deleting them. Tags and edges of a transaction are told
by its number.

**PutStream** follows each row of an upload (`<<upload, number>>`) through buffer,
flush and table, with the calls of `write_arrow` as steps. A retry is another upload of
the same rows, begun after the first has ended or while it runs. **Preview** knows results
by their number of rows; `limit` may be absent or any small integer, since no caller's
limit is checked. **ResultStream** follows one call: connections are not shared.

**Scratch** has one step per statement sent to Trino, for one label of one tenant:
`table_exists` (`LookScratch`), the three statements of `ensure` and `create_as_select`
(`EnsureCatalog`, `EnsureSchema`, `DropScratch`, `CreateScratch`), the two of `describe`. Tables
are numbered as they are made, so an answer can be compared with what is there.

**Guard** keeps of a SELECT its table names, with catalog and schema, and the place each
stands at: the body of a WITH, the main query, or a subquery with a WITH of its own.
`validate_select` decides per name, and so does the model; Trino's scoping of WITH
and its session without a schema (`_connect`) decide what an unqualified name means. **Tickets**
has two clocks that tick together at a fixed distance. **Staging** keeps an
address as a sequence of pieces with the slashes among them, so that one name may be the
beginning of another (`t_a`, `t_a` `b`), as strings may; an object is known by who put it, its size
and how many were there before it. **Shapes** keeps a dataset's columns as a function from
names to types, and of its rows only the shapes they were written with. **Tenancy** writes identities
as what normalising keeps and what it loses, so two may collide, and hashes never do.
Guard, Tickets, Tenancy, Preview, ResultStream, Staging and Shapes share no state;
`Requests` lets one of them run in each behaviour, in the order of the code: what a part lets pass is any
input of the next.

## Runs

| run | question | states | bounds |
|---|---|---|---|
| `drift_faults` | types; does a row keep to its own tags and edges, does it always follow its data, and are sweeps safe, when calls die, listings lie and sweeps are cut off? | 0.59M | 2 labels, a replica and an upload of up to 3 commits, 2 writing calls, 1 writer fault, 2 sweep faults, cap 0 or half |
| `drift_heals` | do the stores come together again? (liveness) | 0.2M | one fault of each kind |
| `answers` | when may a caller rely on what it is told, and when do the stores agree? | 1.05M | 1 label, 2 replicas that ingest, derive, forget and describe, 2 writing calls, 1 fault, sweeps at any time |
| `sweep_job` | is a namespace healed whatever its neighbours do (liveness); do the loops implement the abstract sweep (refinement); are `MinAbsentSweeps + 1` of them enough from *every* state? | 0.96M | 2 namespaces, 5 labels, grace 2, cap of one row or half of them |
| `tx` | is every registry function atomic on SQLite (implements the abstract registry, but for overtaken reads)? On Postgres: strays, mixed records, deadlocks? | 175k | 3 sessions of one process or of two, 3 transactions of 5 kinds, both backends |
| `put_stream` | uploads: atomic when small, complete, bounded; what may be retried? | 0.30M | 2 uploads of up to 6 rows in batches of 1 or 2, threshold 3, one forget |
| `scratch` | what can be lost or misreported when calls race for a scratch table? | 87k | 3 calls of either tool and mode, both catalog modes, one cut off |
| `requests` | are tenants kept apart, reads within their tenant and equal to lineage, previews capped and exact, tickets good for their time, results complete, streams closed, staged reads meant, columns kept? | 2.4M | 2 names of 2 spellings, 2 groups; 2 table names, 2 uses; cap 2, up to 4 rows, limits -1 .. 3; a ticket of 2 seconds of 2 ticks, clocks 1 tick apart; streams of up to 5 rows in batches of 2, export cap 4; 2 tenants and 2 buckets of like names, 2 uploads of 2 PUTs, sizes at and over the cap; 3 writers, 3 shapes, one forget or change of the source |

Why the bounds are enough. Every property of the core is about one or two
labels (one derives from the other), and about at most two writers and a sweep
meeting on them: two labels with a replica and an upload, or one label with two replicas, and
two numbered calls give every pair of writers every interleaving, and a third actor,
the sweep, runs any number of times. What an answer may mix is all of one label, and the
second call is the first of which an answer could tell by mistake. `MinAbsentSweeps = 2` is the shipped value and
the smallest at which a grace period means something. The cap needs more rows than
that to matter, so `drift_faults` uses CapMin = 0 and 1/2, and `sweep_job` has
five labels with a cap of one row or half: of five rows the ratio lets two go and refuses three, and a
lone row, which is all of its namespace, goes because of the floor. Neighbours share nothing but the job with the namespace followed, so one, before or after
it, stands for any. The proofs then remove the bounds for all safety properties, of the core
and of the other modules; the bounds are what liveness and the refutations rest on. In
`RegistryTx` three sessions are the fewest with which one waits for a
second while a third commits, and three transactions let each of them do so; two of them in one
process and one in another meet both of SQLite's locks. In `PutStream` six rows in batches of one or two cross a threshold of
three in every way: below in one batch or two, exactly, above, twice. In `Preview` every comparison has
numbers on both sides and at equality. In `Scratch` two calls race and a third takes what
they leave. `Guard`'s properties relate one name to its place and the WITHs that
define it, so two uses of two names have every pair of them. In `Tickets` two ticks a second
are the fewest that can be dropped, and a skew of half a second moves either server
over a boundary the other has not reached; twelve ticks outlast a ticket and its re-issue.
In `Staging` two tickets are two tenants' or one's, and the second PUT is the first that
can follow a HEAD. In `Shapes` one writer is probed, a second overtakes it, and a third
writes to what they leave; three shapes differ in a type only, and in a name.
In `Tenancy` two identities that normalise alike, two that do not and one that is
refused meet every setting.

The system may stop in all runs marked `CHECK_DEADLOCK FALSE`: their calls are
bounded or single. Drift's sweeps never end, so deadlock is checked there.

## Fairness

`FairSpec` of Drift assumes weak fairness of the sweep (a CronJob starts it again
and again; `RunSweep` is its next step, whichever that is) and of each call under way
(a running process goes on). It assumes nothing of clients, who need not call, nor
that faults happen or stop; they are bounded by `MaxWriterFaults` and
`MaxSweepFaults`, so "once faults stop" is every behaviour's end. `JobSpec` assumes that the
job goes on and is started again (the CronJob's schedule), and, by strong fairness, that
listing the namespaces does not fail from some time on for ever: `reconcile` cannot do anything
about an outage that stays. It does not assume that a neighbour's sweep ever succeeds. `TxSpec` assumes
that a session whose next statement can run runs it; nothing is rolled back by
assumption. The other specifications have only safety properties.

## Proofs

All checked by `tlapm` with Z3, Zenon and LS4, for any labels, replicas, uploads, sessions, callers,
names and amounts, and any bounds, under the ASSUMEs that stand by the CONSTANTS. These say:
every session is a thread of some process (`LayoutsAssumption`); the grace is at least 1, the cap a ratio of naturals with a positive denominator, labels are finitely many
(only proofs that count them use it), replicas and Flight threads are distinct, thresholds and
ticks are positive, some shape exists; the rows of a table from before an upload are not an upload's
(`UploadAssumption`); `"none"`, which stands for no label, is not one (`NoneAssumption`); no table has the empty name (`NameAssumption`, as SQL's grammar has it); tenants' names hold no
slash, and an upload's handle is not an address of the lake (`AddressAssumption`, `LakeAssumption`: `tenancy`
normalises slashes away, and uploads have a prefix of their own).

**The core, and what is built on it**

| theorem | says | argument |
|---|---|---|
| `TypesHold` | `Spec => []TypeOK` | `TypeInv` adds what a call's program counter says of its locals: an active call has a label, a call about to commit has a base version, a sweep at `delete` or `untomb` has a label. One lemma per action. |
| `MetadataIsWhole` | `Spec => []MetadataWhole` | `SqlInv`: the parents a derive holds are labels of its SQL; four lemmas say that a registry write is an upsert, a repair, a delete or nothing. |
| `RowsComeAfterData` | `Spec => []RowsFollowData` | `CommittedInv`: a call about to record has its number in `wrote`. |
| `EmptyTablesExplained` | `AnswersSpec => []EmptyOnlyWhileCreated` | `EmptyInv` adds that the call about to fill a table is the one that created it, so a fault that ends it is a fault of the creator; a step of Answers is a step of Drift or leaves Drift alone, which brings in `TypeInv`. |
| `SerialCallsDoAgree` | `AnswersSpec => []SerialCallsAgree` | `AnswersInv`, in parts: who shared its dataset is `crowded`, and the dataset `tangled` (`CompanyInv`); a call that shared with nobody finds table, row and tags as its program counter says (`HandInv`), since whoever touched them would be company before the step or after it (`Untouched`, `Unswept`); so an untangled dataset agrees, or one call is half way to making it agree (`CalmInv`), or it is tangled by that call's giving up. `SweepCalm` keeps sweeps out: a snapshot taken of an untangled dataset stays right, hence nothing of it to backfill, and a delete finds no table. `StepLeads` is the case analysis of all twelve steps of a call. |
| `AnswersTellWhatWasWritten` | `AnswersSpec => []AnswersTellTheWrite` | `ToldInv`, in the same invariant: each read of an answer finds the version the call committed, because nobody else was there between commit and answer. |
| `AnswersAreTyped` | `AnswersSpec => []AnswersTypeOK` | The type part of the same invariant. |

**Sweeps**

| theorem | says | argument |
|---|---|---|
| `SweptRowsGone` | `Spec => []SweptRowsWereGone` | `GoneInv`: the label about to be deleted was seen gone too, since the re-check found no table and history remembers it. |
| `SweepsTimid` | `Spec => []SweepsAreTimid` | `TimidInv`: what is deleted and what the plan may still delete are, together, rows of the snapshot that were not listed, and the plan holds deletions only if neither fail-safe nor cap forbids; then a subset of at most that size. |
| `GraceIsGranted` | `Spec => GraceGranted` | `GraceInv` bounds each counter by the sightings since the label started over, also between the plan and its loops; `PlanClears`: a plan never counts or deletes a label in the moment it clears it. A label starts over when a sweep finds it in both stores, or in neither, and clears its counter, and when the delete loop has gone through it. That is less than consecutive sweeps: see [`drift_grace`](#disagreements-with-documentation-and-comments). |
| `LoopsAreSweeps` | `AloneSpec => ImplementsQuietSweeps` | Every step of the loops leaves what rows and counters will be when the plan is carried out (`RegAfter`, `TombsAfter`) as it is; the last one is the abstract sweep, the others stutter. |
| `CountersAreShort`, `HealedByThen` | `AloneSpec => []CountersStayShort`, `[]HealsInTime` | `HealInv`, over whole sweeps: after k of them every table has its row, and if neither fail-safe nor cap forbids, rows without a table have a counter of k - 1 at least and nothing else has any. `CapStays`: a backlog within the cap stays within it while it goes down, so a clean-up is never stopped half way. The refinement carries it to the loops. |
| `SweepsAreTimidAlone` | `AloneSpec => QuietSweepIsTimid` | From the plan and the cap, as `SweepsTimid`. |
| `JobSweepsAlone` | `JobSpec => AloneSpec` | What the job does with neighbours leaves the followed namespace alone, so all of the above holds under `SweepJob`, where the run checks it. |

**Registry and uploads**

| theorem | says | argument |
|---|---|---|
| `NothingStrays` | `TxSpec => []NothingStray` | `TxInv`: whoever holds the object row has found, and then dropped, all tags and edges on file (`Covers`), since only a holder can commit any, and two transactions never hold the row at once. |
| `RecordsCommitWhole` | `TxSpec => RecordsAreAtomic` | From `TxInv` at the commit: the statements made are all those of the function (`Wrote`), and what they have dropped covers what is on file. |
| `SqliteActsAtomically` | `TxSpec => ActsAtomically` | On SQLite one session of a process is ever in a transaction, and one of all writes (`Exclusive`); what a writer has read is still so, and what a get has read too where all sessions are threads of one process (`Current`). Each commit is the function's one step, and everything before it stutters. |
| `BuffersAreBounded` | `PutSpec => []BufferBounded` | `FlowOK`: a stream that goes on buffers less than `Threshold`, and one batch is added at a time. |
| `SmallUploadsAreAtomic`, `UploadsAreWhole` | `PutSpec => []SmallUploadsAtomic`, `[]UploadsArriveWhole` | `SmallOK`, `WholeOK`: rows in the table are exactly those counted and no longer buffered, as places in the table that a flush extends. |
| `ReplacesReplace` | `PutSpec => []ReplaceReplaces` | `ReplaceOK` from the first flush on: nobody else runs, so the table is the rows flushed. |
| `RetriesAreSafe` | `PutSpec => []RetriesRepeatNothing` | A small upload writes once, over everything or into an empty table of its own making, and a commit on a table that changed is refused (`FreshOK`, `VersionsOK`). |

**Scratchpad**

| theorem | says | argument |
|---|---|---|
| `WindowIsTheOnlyLoss` | `ScratchSpec => []OnlyTheWindowLoses` | `ScratchInv`: only a replace ever stands before a drop, and the schema is there before a drop or a create, so a create fails only over a table. |
| `AnswersAreNotStale` | `ScratchSpec => []ReturnedIsNotStale` | `InOrder`, also in `ScratchInv`: tables are numbered as they are made, so whatever table a call finds after its own is no older. |
| `RacesAreWon` | `ScratchSpec => []SomebodyWins` | `WinnerInv`: a table that is there has a maker that has nothing left to fail on, and a table that a drop takes has a dropper that creates or fails over another's table. |
| `NoRivalNoFailure` | `ScratchSpec => []AloneSucceeds` | `Unhindered`, for the calls that are alone: a create finds no table, a description finds one; any other call that begins ends being alone. |

**Requests.** `RequestInv` says that the part at work keeps its invariant and the six others
are as they began; each theorem is about `RequestSpec`.

| theorem | says | argument |
|---|---|---|
| `PrivateTenantsArePrivate`, `WordsDoNotCount`, `BothDoorsAgree` | `[]PrivateIsPrivate`, `[]WordDoesNotCount`, `[]DoorsAgree` | `TenancyInv`: the tenant is the one resolved; then case by case of mode and door, and tenant names with a hash decide for the subject. |
| `SelectsReadTheirOwnTables`, `LineageTellsTheReads`, `ReadableTablesAreRead` | `[]ReadsAreOwn`, `[]LineageIsOfReads`, `[]ReadableIsRead` | `GuardInv`: guard and Trino answer what the statement determines. The proof does not use that a statement names two tables at most, as the run has it. |
| `PreviewsAreExact` | `[]PreviewIsExact` | `PreviewInv`: rows, count and flag as functions of cap, LIMIT and rows; linear arithmetic for the rest. |
| `TicketsAreGood` | `[]TicketsLastTheirTime` | `TicketInv`: the expiry is the signer's clock at signing, rounded down, plus the lifetime; rounding and skew bound the rest. |
| `ResultsAreWhole`, `StreamsCloseConnections` | `[]ReturnedIsComplete`, `[]StartedStreamsClose` | `StreamInv`: the consumer is behind the generator by the one batch it holds, and a drained generator has pulled every row. |
| `IngestsReadWhatIsMeant` | `[]StagedReadsAreMeant` | `StoreInv`: an object under a handle is the handle's tenant's; `LoadInv`: the object is no older than the one checked, and the same if its URL has expired. Lemmas on prefixes say that two handles of different tenants never coincide, and that an address within a permitted one is in its bucket. |
| `ColumnsAreKept` | `ShapesAreKept` | `ShapeInv`: versions are numbered as they are made, and changes of what a SELECT reads as they happen, so a writer whose numbers are current (`Informed`) knows the columns it compared. |

Every safety invariant, action property and refinement that a passing run checks is a theorem above.
Only model-checked: liveness (`DriftHeals`, `NeighboursDoNotStarve`, `TransactionsEnd`), which
needs fairness and ENABLED; the runs that refute a sentence of the documentation. Nothing is
proved by induction over data: no module computes recursively.

## Disagreements with documentation and comments

Four runs check, each, one sentence of the repository that the code does not keep,
and TLC refutes it. `PROJECT.json` quotes the sentences.

| run | what happens |
|---|---|
| `drift_grace` | A counter is cleared only for a label that a sweep finds in both stores or in neither. A sweep that lists the table while a forget takes table and row away keeps the count of an earlier sweep, so the first sweep to miss the table afterwards deletes the row: "consecutive sweeps" are not. |
| `drift_backfill` | Backfill and read-repair upsert from an earlier look, and overwrite a row recorded since with a stub. |
| `scratch_on_demand` | With a catalog per tenant, the tenant's first derive, and its first create-mode ingest, looks a table up in the catalog before creating that catalog, and fails. |
| `preview_truncated` | A query's own LIMIT above the cap hides that rows were cut. |

The same models reach the following too. They are not runs of their own; a reader who
wants the trace gives TLC the formula as an invariant (or property) of the configuration.

| formula, configuration | what it refutes |
|---|---|
| `\A l \in Registered \cap Present : AtRest(l) /\ objects[l].source = "derived" => objects[l].by = tables[l].by`, `answers` | Two replace-derives commit data in one order and rows in the other: inspect's lineage ("which datasets and SQL produced it") is for good not that of the data. |
| the same with `objects[l].by \in {0, tables[l].by}` and without the source, `answers` | A replace whose registry write failed leaves the row of the write before it. `tools/ingest.py:180-181` says the reconciler or read-repair will backfill, but both look for missing rows only: the stale row stays until the next write or forget. |
| `\A l \in Present : tables[l].filled`, `answers` | `create_table` and `append` are two commits (`core/catalog.py:145-146`): between them, and after a crash, there is a dataset without its rows, which the changelog says nobody can see. |
| `[][SweptAway \cap Present = {}]_vars`, `drift_faults` with MaxCalls = 3, MaxWriterFaults = 2, MaxSweepFaults = 0 | Re-check and delete are two calls: a table created and recorded between them loses its row (its data stays, and the next sweep backfills a stub). The re-check narrows the window, where `reconciler.py:18-19` says it closes it. |
| `\A l \in Label : objects[l].source \in {"inline", "stream"} => lineage[l] = {}`, `drift_backfill` with MaxCalls = 3 | Ingest and `do_put` record without parents, which leaves the edges on file (`core/registry.py:183-184`): an ingest over a derived dataset reports the parents of the data it replaced, where inspect promises "which datasets and SQL produced it" (`server.py:322-323`). |
| `[][backend = "sqlite" => [Atomic!AtomicNext]_(Atomic!atomicVars)]_txVars`, `tx` | Two processes on one SQLite file: `get_object` may return a row with the tags of a later version. |
| `[][There /\ There' => DOMAIN dataset'.shape = DOMAIN dataset.shape]_shapeVars`, `requests` | `tools/derive.py:18` says that `replace` never reshapes an object. A replace that finds no dataset is not probed; if a create with other columns comes before its CREATE OR REPLACE, that swaps them. A probe that another commit or forget overtakes does the same. |
| `\A u, v \in Upload : up[u].mode = "create" /\ up[v].mode = "create" /\ HasRows(u) /\ HasRows(v) => u = v`, `put_stream` | A create-mode upload's later chunks are appended to a dataset somebody else created after a forget. |
| `Answered /\ ask.limit = {} => reply.rows <= OwnRows`, `preview_truncated` | sqlglot keeps FETCH FIRST n ROWS where LIMIT goes, as a node without the expression `wrap_preview` reads; the clause is replaced by the cap. |
| `Answered => reply.count = reply.rows`, `preview_truncated` | limit = -1 gives an empty preview with row_count -1 and truncated. |
| `committed.object.kind = "derive" => committed.edges = {committed.object.by}`, `tx` | Postgres: a delete whose first statement finds no row locks nothing, and its later ones remove the tags and edges of a derive that committed in between (`registry.py:173-174` says lineage never silently fails to write). |
| `guarded.status = "accepted" => answer.status # "failed"`, `requests` | Names of WITH queries are believed everywhere: in `WITH orders AS (SELECT * FROM orders) ...` the inner, real `orders` stays unqualified, and Trino refuses it for want of a schema. |
| `\A t \in answer.reads : t.db = "ref" => t.name \notin guarded.referenced`, `requests` | A table of a shared schema is reported by its bare name; derive then takes the tenant's own table of that name, if there is one, for a parent. |
| `door = "proxy" /\ config.mode = "auto" /\ HasMap /\ tenant # {} => \A word \in Optional(Id) : tenant = {Resolved([caller EXCEPT !.named = word])}`, `requests` | `core/config.py:123-126` has auto mode behave as mapped when a tenant_map *or* a subject header is set; behind a proxy only the subject header counts. |
| `\A c \in Call : calls[c].mode = "replace" /\ calls[c].tool = "ingest" => calls[c].pc # "failed"`, `scratch_on_demand` | Two replaces of a scratch table drop, then create: the second create fails because the table exists, though replacing was asked for. |
| `made > 0 /\ table = 0 => \E c \in Call : calls[c].pc = "create"`, `scratch` | A replace whose SELECT fails, or that dies after its drop, has lost the old table for good; derive could have found out before dropping. |
| `Over => conn # "open"`, `requests` | A statement that fails, or a stream nobody reads from, leaves its connection to the garbage collector (`core/trino_client.py:144`). |

## Not modelled

Text and types: SQL parsing, Arrow decoding and type mapping, label
validation, response shapes. Third parties: OAuth and JWT verification, TLS,
boto3 credentials, Iceberg's file format, and how the MCP library matches resource URIs
(`memcove://{tenant}/{name}` is registered before `memcove://{tenant}/_catalog`, and both
patterns fit the latter). Start-up: DDL, configuration parsing, HTTP
set-up. Single reads that keep no state: `list_objects`, `search`, discovery, the
scratchpad's listing, `/health` and `/ready`. MySQL as a registry backend: its locking (gap
locks under REPEATABLE READ) is a different model. Signatures: tickets are taken to be
unforgeable. Objects of uploads and exports that nobody removes: no code does, the bucket's
lifecycle rules are outside the repository.

## Plan

Done: the core (Drift), transactions, uploads, scratchpad, the parts of `Requests`, answers,
staging, columns and the job over several namespaces, modelled and checked; of what the passing
runs check, everything but the three liveness properties is proved for any constants. Left, in
this order:

1. The parts of the liveness arguments that need no fairness: that in `RegistryTx` sessions never
   wait for one another in a circle, so that somebody's next statement can run; that in Drift, once
   no call is under way, each sweep that ends has brought the stores nearer (`HealInv` says it of
   the sweep alone).
2. Findings of the table above as theorems about where they stop: which calls can leave a stale
   row behind, and that the next write that has the dataset to itself removes it.
3. `Requests` composed the other way round: an ingest of `Staging` followed by the write of
   `Writers`, a preview by the ticket for the rest.
