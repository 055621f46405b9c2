---------------------------- MODULE ResultStream ----------------------------
(***************************************************************************)
(* One result streamed out of Trino (stream_arrow_batches in               *)
(* core/trino_client.py) by one of its two consumers: export_artifact      *)
(* (tools/artifacts.py), which writes it to an S3 object, and do_get       *)
(* (data_plane/flight_server.py), which hands it to a Flight client.  Any  *)
(* step may fail, and a client may go away.  Calls share nothing, so the   *)
(* module follows one.  Rows are known by their number.                    *)
(***************************************************************************)
EXTENDS Integers

CONSTANTS
    BatchRows,       \* settings.stream_batch_rows
    ExportRowCap,    \* settings.export_row_cap
    MaxRows          \* bound: rows the query has

ASSUME StreamAssumption ==
    BatchRows \in Nat \ {0} /\ ExportRowCap \in Nat /\ MaxRows \in Nat

VARIABLES
  pc,         \* where the call is
  consumer,   \* "export" or "get"
  rows,       \* rows of the statement sent, the cap of an export applied
  fetched,    \* rows the generator has pulled from the cursor
  written,    \* rows the consumer has passed on
  conn,       \* the Trino connection: "none", "open" or "closed"
  started,    \* the generator has run up to its first yield
  object      \* an export's S3 object: "none", "open" or "stored"

streamVars == <<pc, consumer, rows, fetched, written, conn, started, object>>

Fewer(x, y) == IF x < y THEN x ELSE y

StreamInit ==
    /\ pc = "new" /\ consumer \in {"export", "get"}
    /\ \E n \in 0 .. MaxRows :
           rows = IF consumer = "export" THEN Fewer(n, ExportRowCap) ELSE n
    /\ fetched = 0 /\ written = 0
    /\ conn = "none" /\ started = FALSE /\ object = "none"

Connect ==
    /\ pc = "new"
    /\ pc' = "execute" /\ conn' = "open"
    /\ UNCHANGED <<consumer, rows, fetched, written, started, object>>

\* The statement runs; the generator is made and not yet run.
Execute ==
    /\ pc = "execute"
    /\ pc' = "made"
    /\ UNCHANGED <<consumer, rows, fetched, written, conn, started, object>>

\* An export opens its sink; a Flight client asks for its first batch.
Consume ==
    /\ pc = "made"
    /\ pc' = "next"
    /\ object' = IF consumer = "export" THEN "open" ELSE object
    /\ UNCHANGED <<consumer, rows, fetched, written, conn, started>>

\* The consumer asks for a batch: fetchmany, and on an empty answer the
\* generator's finally clause.
NextBatch ==
    /\ pc = "next"
    /\ started' = TRUE
    /\ fetched' = Fewer(fetched + BatchRows, rows)
    /\ IF fetched < rows
       THEN pc' = "batch" /\ conn' = conn
       ELSE pc' = "drained" /\ conn' = "closed"
    /\ UNCHANGED <<consumer, rows, written, object>>

Pass ==
    /\ pc = "batch"
    /\ pc' = "next" /\ written' = fetched
    /\ UNCHANGED <<consumer, rows, fetched, conn, started, object>>

\* The sink is closed, which stores the object, and its address returned.
Return ==
    /\ pc = "drained"
    /\ pc' = "done"
    /\ object' = IF consumer = "export" THEN "stored" ELSE object
    /\ UNCHANGED <<consumer, rows, fetched, written, conn, started>>

\* Mutant: the generator closes its connection at the end of the result only.
CloseAtEndOnly == conn

\* What an abandoned generator does: its finally clause if it had started,
\* and nothing if it had not.
Abandon == IF started /\ conn = "open" THEN "closed" ELSE conn

\* Mutant: an error while fetching is taken for the end of the result.
FetchErrorEnds ==
    /\ pc \in {"next", "batch"}
    /\ pc' = "drained" /\ started' = TRUE
    /\ conn' = "closed"
    /\ UNCHANGED <<consumer, rows, fetched, written, object>>

\* A call raises, or the client goes away: the with blocks close the sink,
\* which stores what was written, and the generator is abandoned.  (The
\* fetch that raises is one of the generator's own steps.)
Break ==
    /\ pc \in {"execute", "made", "next", "batch", "drained"}
    /\ pc' = "failed"
    /\ \/ conn' = Abandon /\ UNCHANGED started
       \/ pc = "next" /\ started' = TRUE /\ conn' = "closed"
    /\ object' = IF object = "open" THEN "stored" ELSE object
    /\ UNCHANGED <<consumer, rows, fetched, written>>

StreamNext == Connect \/ Execute \/ Consume \/ NextBatch \/ Pass \/ Return \/ Break

StreamSpec == StreamInit /\ [][StreamNext]_streamVars
-----------------------------------------------------------------------------
Over == pc \in {"done", "failed"}

\* A call that returns has passed on every row of the result, once each: an
\* export whose address is handed out holds row_count rows, all there are up
\* to the cap, and a partial object left by a failure is never handed out.
ReturnedIsComplete ==
    pc = "done" => written = rows /\ (consumer = "export" => object = "stored")

\* A generator that ever ran gives its connection back, however it ends.
StartedStreamsClose == Over /\ started => conn = "closed"
=============================================================================
