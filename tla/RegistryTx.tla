----------------------------- MODULE RegistryTx -----------------------------
(***************************************************************************)
(* The transactions of core/registry.py on one label, statement by         *)
(* statement, and what the database of core/registry_backends.py lets two  *)
(* of them see of each other.  (Every statement names tenant and label in  *)
(* its key, so labels do not meet.  Grace counters are written by single   *)
(* statements, which are atomic, and are left out.)                        *)
(*                                                                         *)
(* sqlite: the threads of a process share a connection and a lock, which   *)
(* is held for the whole transaction; processes that share the file meet   *)
(* in SQLite, where the first statement that writes takes the write lock   *)
(* of the file until the commit, and a SELECT outside a transaction that   *)
(* writes is one by itself (sqlite3 begins none for it).  postgres: READ   *)
(* COMMITTED, psycopg's default.  A statement sees what was committed when *)
(* it starts, waits for a row another transaction has written, and then    *)
(* takes the row as that transaction left it; a statement that finds no    *)
(* row takes no lock.  MySQL is not modelled.                              *)
(***************************************************************************)
EXTENDS Integers, Sequences

CONSTANTS
    Session,   \* threads that use the registry
    Layouts,   \* which process each is a thread of: the layouts to look at
    Kinds,     \* the registry functions in use
    MaxTxs     \* bound: transactions of the label

ASSUME LayoutsAssumption == \A layout \in Layouts : DOMAIN layout = Session
ASSUME KindsAssumption == Kinds \subseteq {"derive", "ingest", "repair", "delete", "get"}
ASSUME MaxTxsAssumption == MaxTxs \in Nat

VARIABLES
  \* The database configured: "sqlite" or "postgres".
  backend,
  \* The process of each session: server, Flight server, reconciler.
  home,
  \* The committed rows.  An object row remembers the transaction that
  \* inserted it (born) and the one that wrote it last; the tags and the edges
  \* of one transaction are told by its number.
  committed,
  \* The transaction each session is in, with what it has written so far.
  tx,
  \* Transactions begun.
  begun,
  \* Row and tags of the last get_object that found a row.
  answer

txVars == <<backend, home, committed, tx, begun, answer>>

NoObject == [born |-> 0, by |-> 0, kind |-> "none"]

\* A transaction has not touched the object row.
Untouched == [born |-> 0, by |-> 0, kind |-> "untouched"]

NoTx == [pc |-> "idle", kind |-> "none", no |-> 0, left |-> <<>>, found |-> {},
         object |-> Untouched, drops |-> [tags |-> {}, edges |-> {}],
         adds |-> [tags |-> {}, edges |-> {}]]

TxInit ==
    /\ backend \in {"sqlite", "postgres"} /\ home \in Layouts
    /\ committed = [object |-> NoObject, tags |-> {}, edges |-> {}]
    /\ tx = [s \in Session |-> NoTx]
    /\ begun = 0
    /\ answer = [row |-> 0, tags |-> {}]

\* record_object_guarded of a derive, of an ingest; record_object of a repair.
Records == {"derive", "ingest", "repair"}

\* Mutant: a record writes its object row last.
StatementsRowLast(kind) ==
    CASE kind = "derive"             -> <<"tags", "edges", "object">>
      [] kind \in {"ingest", "repair"} -> <<"tags", "object">>
      [] kind = "delete"             -> <<"object", "tags", "edges">>
      [] kind = "get"                -> <<"object", "tags">>

\* Mutant: a delete takes the tables in the opposite order.
StatementsBackwards(kind) ==
    CASE kind = "derive"             -> <<"object", "tags", "edges">>
      [] kind \in {"ingest", "repair"} -> <<"object", "tags">>
      [] kind = "delete"             -> <<"edges", "tags", "object">>
      [] kind = "get"                -> <<"object", "tags">>

\* The tables a function goes through, in order.
Statements(kind) ==
    CASE kind \in {"derive", "delete"} -> <<"object", "tags", "edges">>
      [] OTHER                         -> <<"object", "tags">>

Others(s) == {o \in Session \ {s} : tx[o].pc # "idle"}

\* Mutant: the lock is held for a statement, not for the transaction.
MayStartUnlocked(s) == TRUE

\* SQLiteBackend.connection holds the lock of its process until the commit or
\* the rollback.
MayStart(s) == backend = "sqlite" => \A o \in Others(s) : home[o] # home[s]

\* SQLite lets one connection write to the file: the lock is taken by the first
\* statement of a function that writes, and let go with the transaction.
HasWriteLock(o) ==
    /\ backend = "sqlite" /\ tx[o].kind \in Records \cup {"delete"}
    /\ tx[o].pc = "drop" \/ tx[o].left # Statements(tx[o].kind)

MayWrite(s) == \A o \in Session \ {s} : ~HasWriteLock(o)

Begin(s) ==
    \E kind \in Kinds :
        /\ tx[s].pc = "idle" /\ MayStart(s)
        /\ begun < MaxTxs
        /\ begun' = begun + 1
        /\ tx' = [tx EXCEPT ![s] = [NoTx EXCEPT !.pc = "run", !.kind = kind, !.no = begun + 1,
                                                !.left = Statements(kind)]]
        /\ UNCHANGED <<committed, answer>>

\* The session's next statement is on the table and can start.
Running(s, table) ==
    /\ tx[s].pc = "run" /\ tx[s].left # <<>> /\ Head(tx[s].left) = table
    /\ tx[s].kind # "get" => MayWrite(s)

\* The statement on the head table is done.
Step(s, t) == tx' = [tx EXCEPT ![s] = [t EXCEPT !.pc = "run", !.left = Tail(@), !.found = {}]]

ObjectLocked(s) == \E o \in Others(s) : tx[o].object # Untouched

\* INSERT .. ON CONFLICT DO UPDATE of the object row.
Upsert(s) ==
    /\ tx[s].kind \in Records /\ Running(s, "object") /\ ~ObjectLocked(s)
    /\ LET old == committed.object
       IN  Step(s, [tx[s] EXCEPT !.object =
               [born |-> IF old = NoObject THEN tx[s].no ELSE old.born,
                by |-> tx[s].no, kind |-> tx[s].kind]])
    /\ UNCHANGED <<committed, begun, answer>>

\* DELETE of the object row looks the row up ...
FindObject(s) ==
    /\ tx[s].kind = "delete" /\ Running(s, "object")
    /\ IF committed.object = NoObject
       THEN Step(s, tx[s])
       ELSE tx' = [tx EXCEPT ![s].pc = "drop", ![s].found = {committed.object.born}]
    /\ UNCHANGED <<committed, begun, answer>>

\* ... waits for who is writing it, and deletes it if it is still that row.
DropObject(s) ==
    /\ tx[s].pc = "drop" /\ Head(tx[s].left) = "object" /\ ~ObjectLocked(s)
    /\ Step(s, [tx[s] EXCEPT !.object =
           IF committed.object.born \in tx[s].found THEN NoObject ELSE Untouched])
    /\ UNCHANGED <<committed, begun, answer>>

\* DELETE of the tags, or of the edges: the same two moments.
FindRows(s, table) ==
    /\ tx[s].kind # "get" /\ Running(s, table)
    /\ tx' = [tx EXCEPT ![s].pc = "drop", ![s].found = committed[table]]
    /\ UNCHANGED <<committed, begun, answer>>

\* What a record inserts after its DELETE.  Nobody sees it before the commit.
Additions(s, table) ==
    IF tx[s].kind = "derive" \/ (tx[s].kind = "ingest" /\ table = "tags")
    THEN {tx[s].no} ELSE {}

DropRows(s, table) ==
    /\ tx[s].pc = "drop" /\ Head(tx[s].left) = table
    /\ \A o \in Others(s) : tx[s].found \cap tx[o].drops[table] = {}
    /\ Step(s, [tx[s] EXCEPT !.drops[table] = tx[s].found \cap committed[table],
                             !.adds[table] = Additions(s, table)])
    /\ UNCHANGED <<committed, begun, answer>>

\* get_object reads the row and then, if there is one, the tags.
ReadObject(s) ==
    /\ tx[s].kind = "get" /\ Running(s, "object")
    /\ IF committed.object = NoObject
       THEN tx' = [tx EXCEPT ![s] = NoTx]
       ELSE tx' = [tx EXCEPT ![s].left = Tail(@), ![s].found = {committed.object.by}]
    /\ UNCHANGED <<committed, begun, answer>>

ReadTags(s) ==
    /\ tx[s].kind = "get" /\ Running(s, "tags")
    /\ \E by \in tx[s].found : answer' = [row |-> by, tags |-> committed.tags]
    /\ tx' = [tx EXCEPT ![s] = NoTx]
    /\ UNCHANGED <<committed, begun>>

Left(s, table) == (committed[table] \ tx[s].drops[table]) \cup tx[s].adds[table]

Commit(s) ==
    /\ tx[s].pc = "run" /\ tx[s].left = <<>>
    /\ committed' = [object |-> IF tx[s].object = Untouched THEN committed.object
                                ELSE tx[s].object,
                     tags |-> Left(s, "tags"),
                     edges |-> Left(s, "edges")]
    /\ tx' = [tx EXCEPT ![s] = NoTx]
    /\ UNCHANGED <<begun, answer>>

\* A statement raised or the connection was lost.
Rollback(s) ==
    /\ tx[s].pc # "idle"
    /\ tx' = [tx EXCEPT ![s] = NoTx]
    /\ UNCHANGED <<committed, begun, answer>>

SessionStep(s) ==
    /\ UNCHANGED <<backend, home>>
    /\ \/ Upsert(s) \/ FindObject(s) \/ DropObject(s)
       \/ \E table \in {"tags", "edges"} : FindRows(s, table) \/ DropRows(s, table)
       \/ ReadObject(s) \/ ReadTags(s)
       \/ Commit(s)

TxNext ==
    \E s \in Session :
        \/ SessionStep(s)
        \/ UNCHANGED <<backend, home>> /\ (Begin(s) \/ Rollback(s))

TxSpec ==
    /\ TxInit /\ [][TxNext]_<<txVars>>
    /\ \A s \in Session : WF_<<txVars>>(SessionStep(s))
-----------------------------------------------------------------------------
Atomic == INSTANCE RegistryAtomic WITH row <- committed.object.by,
                                       tags <- committed.tags, edges <- committed.edges

\* A get_object that has read its row, and another process has replaced or
\* deleted that row before it reads the tags.
Overtaken(s) ==
    /\ ReadTags(s) /\ tx[s].found # {committed.object.by}
    /\ \E o \in Session : home[o] # home[s]

\* On SQLite a registry function is one step to its callers: "the object row,
\* its tags, and its lineage edges commit in a single transaction", a delete
\* takes all three, whichever processes share the file, and get_object returns
\* a row with the tags of that row, unless another process overtakes it.
ActsAtomically ==
    /\ Atomic!AtomicInit
    /\ [][backend = "sqlite" =>
              [Atomic!AtomicNext]_(Atomic!atomicVars) \/ \E s \in Session : Overtaken(s)]_txVars

Committing(s) == tx[s].pc = "run" /\ tx[s].left = <<>> /\ committed' # committed

\* On either backend a derive, an ingest or a repair commits as one step:
\* its row with just its own tags, a derive's edges and nobody else's, and an
\* ingest leaves the edges as they are, whoever writes or deletes meanwhile.
RecordsAreAtomic ==
    [][\A s \in Session :
           Committing(s) /\ tx'[s] = NoTx /\ tx[s].kind \in Records =>
               Atomic!AtomicRecord(tx[s].no, tx[s].kind # "repair", tx[s].kind = "derive")]_txVars

\* Tags and edges never outlive the row they describe, tags on file are those
\* of the transaction that wrote the row, and edges all those of one derive:
\* concurrent transactions do not mix their rows.
NothingStray ==
    /\ committed.object = NoObject => committed.tags \cup committed.edges = {}
    /\ committed.tags \subseteq {committed.object.by}
    /\ \A n, m \in committed.edges : n = m

\* Transactions wait for each other's rows and never in a circle: each one
\* that begins ends, even if nothing is ever rolled back to break the tie.
TransactionsEnd == \A s \in Session : tx[s].pc # "idle" ~> tx[s].pc = "idle"
=============================================================================
