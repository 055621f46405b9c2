-------------------------- MODULE RegistryTxProofs --------------------------
(***************************************************************************)
(* Proofs about RegistryTx, for any sessions in any processes, functions   *)
(* and number of transactions: records commit as one step on either        *)
(* backend, every function does on SQLite but for reads that another       *)
(* process overtakes, and concurrent transactions leave nothing stray.     *)
(***************************************************************************)
EXTENDS RegistryTx, TLAPS

\* What a transaction may have left to do.
All3 == <<"object", "tags", "edges">>
Last2 == <<"tags", "edges">>
Last1 == <<"edges">>
All2 == <<"object", "tags">>
Tags1 == <<"tags">>

\* Where a transaction stands: its object statement, or that on its tags, is
\* still ahead.
BeforeObject(t) == t.left \in {All3, All2}
BeforeTags(t) == t.left \in {All3, All2, Last2, Tags1}

\* It has written the object row, which is locked until it ends.
Holds(t) == t.object # Untouched

\* It has begun to write.
Writes(t) == t.kind \in Records \cup {"delete"} /\ (t.pc = "drop" \/ ~BeforeObject(t))

\* All sessions are threads of one process.
OneHome == \A s, o \in Session : home[s] = home[o]

Row == [born : Nat, by : Nat \ {0}, kind : Records]

Numbers == [tags : SUBSET Nat, edges : SUBSET Nat]

None == [tags |-> {}, edges |-> {}]

Transaction == [pc : {"idle", "run", "drop"}, kind : Records \cup {"delete", "get", "none"},
                no : Nat, left : {All3, Last2, Last1, All2, Tags1, <<>>}, found : SUBSET Nat,
                object : Row \cup {NoObject, Untouched}, drops : Numbers, adds : Numbers]

\* A transaction's statements are those of its function, in their order.
InOrder(t) ==
    /\ t.pc # "idle" => /\ t.kind # "none" /\ t.no > 0
                        /\ t.left = <<>> \/ t.left \in IF t.kind \in {"derive", "delete"}
                                                       THEN {All3, Last2, Last1} ELSE {All2, Tags1}
    /\ t.pc = "idle" => t = NoTx
    /\ t.pc = "drop" => t.kind # "get" /\ t.left # <<>> /\ (BeforeObject(t) => t.kind = "delete")
    /\ t.kind = "get" => t.left # <<>>

\* What it has written so far: nothing ahead of its statements; after them
\* the row of a record, and the tags and edges its function inserts.
Wrote(t) ==
    /\ BeforeObject(t) \/ t.kind \in {"get", "none"} => ~Holds(t)
    /\ t.kind \in Records /\ ~BeforeObject(t) => t.object \in Row /\ t.object.by = t.no
    /\ t.kind = "delete" => t.object \in {Untouched, NoObject}
    /\ BeforeTags(t) \/ t.kind \in {"get", "none"} => t.drops.tags = {} /\ t.adds.tags = {}
    /\ t.left # <<>> \/ t.kind \notin {"derive", "delete"} =>
           t.drops.edges = {} /\ t.adds.edges = {}
    /\ t.adds.tags = IF t.kind \in {"derive", "ingest"} /\ ~BeforeTags(t) THEN {t.no} ELSE {}
    /\ t.adds.edges = IF t.kind = "derive" /\ t.left = <<>> THEN {t.no} ELSE {}

\* Whoever holds the object row has found, and dropped, whatever tags and
\* edges are on file: only it can add any.
Covers(t, c) ==
    Holds(t) => /\ t.pc = "drop" /\ t.left \in {Last2, Tags1} => c.tags \subseteq t.found
                /\ ~BeforeTags(t) => c.tags \subseteq t.drops.tags
                /\ t.pc = "drop" /\ t.left = Last1 => c.edges \subseteq t.found
                /\ t.kind \in {"derive", "delete"} /\ t.left = <<>> => c.edges \subseteq t.drops.edges

\* On SQLite nothing changes under a transaction that writes, so what it has
\* found still is what it will write over; nor under one that only reads, if
\* it is alone: no other process can write.
Current(t, c, alone) ==
    /\ t.pc = "drop" /\ t.left = All3 => t.found = {c.object.born}
    /\ t.kind = "get" /\ t.left = Tags1 /\ alone => t.found = {c.object.by}
    /\ t.kind = "delete" /\ t.left # All3 => t.object = NoObject \/ c.object = NoObject

CommittedOK ==
    /\ committed \in [object : Row \cup {NoObject}, tags : SUBSET Nat, edges : SUBSET Nat]
    /\ NothingStray

Exclusive ==
    \A s, o \in Session : s # o =>
        /\ ~(Holds(tx[s]) /\ Holds(tx[o]))
        /\ backend = "sqlite" => ~(Writes(tx[s]) /\ Writes(tx[o]))
        /\ backend = "sqlite" /\ home[s] = home[o] => tx[s].pc = "idle" \/ tx[o].pc = "idle"

TxInv ==
    /\ CommittedOK
    /\ begun \in 0 .. MaxTxs
    /\ DOMAIN tx = Session /\ tx = [s \in Session |-> tx[s]]
    /\ \A s \in Session : /\ tx[s] \in Transaction /\ tx[s].no <= begun
                          /\ InOrder(tx[s]) /\ Wrote(tx[s])
                          /\ Covers(tx[s], committed)
                          /\ backend = "sqlite" => Current(tx[s], committed, OneHome)
    /\ Exclusive
-----------------------------------------------------------------------------
\* The lists of statements are told apart by their heads and what follows.
LEMMA Lists ==
    /\ Head(All3) = "object" /\ Tail(All3) = Last2 /\ Head(Last2) = "tags" /\ Tail(Last2) = Last1
    /\ Head(Last1) = "edges" /\ Tail(Last1) = <<>>
    /\ Head(All2) = "object" /\ Tail(All2) = Tags1 /\ Head(Tags1) = "tags" /\ Tail(Tags1) = <<>>
    /\ All3 # Last2 /\ All3 # Last1 /\ All3 # All2 /\ All3 # Tags1 /\ All3 # <<>>
    /\ Last2 # Last1 /\ Last2 # All2 /\ Last2 # Tags1 /\ Last2 # <<>>
    /\ Last1 # All2 /\ Last1 # Tags1 /\ Last1 # <<>>
    /\ All2 # Tags1 /\ All2 # <<>> /\ Tags1 # <<>>
<1>1. /\ Len(All3) = 3 /\ Len(Last2) = 2 /\ Len(All2) = 2 /\ Len(Last1) = 1 /\ Len(Tags1) = 1
      /\ Len(<<>>) = 0
  BY DEF All3, Last2, Last1, All2, Tags1
<1>2. All2[1] # Last2[1] /\ Tags1[1] # Last1[1]
  BY DEF Last2, Last1, All2, Tags1
<1>3. /\ Head(All3) = "object" /\ Head(Last2) = "tags" /\ Head(Last1) = "edges"
      /\ Head(All2) = "object" /\ Head(Tags1) = "tags"
  BY DEF All3, Last2, Last1, All2, Tags1
<1>4. Tail(All3) = Last2 /\ Tail(All2) = Tags1 /\ Tail(Last2) = Last1
  BY DEF All3, Last2, Last1, All2, Tags1
<1>5. Tail(Last1) = <<>> /\ Tail(Tags1) = <<>>
  BY DEF Last1, Tags1
<1> QED BY <1>1, <1>2, <1>3, <1>4, <1>5, SMTT(30)

\* An idle session holds nothing and has found nothing.
LEMMA IdleTx ==
    /\ NoTx \in Transaction /\ NoTx.no = 0 /\ NoTx.pc = "idle"
    /\ ~Holds(NoTx) /\ ~Writes(NoTx)
    /\ InOrder(NoTx) /\ Wrote(NoTx)
    /\ \A c, alone : Covers(NoTx, c) /\ Current(NoTx, c, alone)
<1>1. NoTx \in Transaction
  BY DEF NoTx, Transaction, Untouched, Numbers
<1>2. /\ NoTx.no = 0 /\ NoTx.pc = "idle" /\ NoTx.object = Untouched /\ NoTx.left = <<>>
      /\ NoTx.kind = "none" /\ NoTx.drops = None /\ NoTx.adds = None
  BY DEF NoTx, None
<1>3. InOrder(NoTx) /\ Wrote(NoTx)
  BY <1>2, Lists DEF InOrder, Wrote, Holds, BeforeObject, BeforeTags, None, Records
<1>4. ~Writes(NoTx)
  BY <1>2 DEF Writes, Records
<1> QED BY <1>1, <1>2, <1>3, <1>4, Lists DEF Holds, Covers, Current

\* A row that a record writes is neither no row nor an untouched one.
LEMMA RowsAreRows ==
    /\ NoObject \notin Row /\ Untouched \notin Row /\ NoObject # Untouched
    /\ NoObject.by = 0
  BY DEF Row, NoObject, Untouched, Records

\* What a step may do to a session's transaction while nothing is committed.
LEMMA StepKeeps ==
    ASSUME TxInv, NEW s \in Session, NEW t \in Transaction, tx' = [tx EXCEPT ![s] = t],
           UNCHANGED <<backend, home, committed>>, begun' \in begun .. MaxTxs, t.no <= begun',
           InOrder(t), Wrote(t), Covers(t, committed),
           backend = "sqlite" => Current(t, committed, OneHome),
           Holds(t) => \A o \in Session \ {s} : ~Holds(tx[o]),
           backend = "sqlite" /\ Writes(t) => \A o \in Session \ {s} : ~Writes(tx[o]),
           backend = "sqlite" /\ t.pc # "idle" =>
               \A o \in Session \ {s} : home[o] = home[s] => tx[o].pc = "idle"
    PROVE  TxInv'
<1> USE DEF TxInv
<1>1. /\ DOMAIN tx' = Session /\ tx' = [o \in Session |-> tx'[o]]
      /\ \A o \in Session : tx'[o] = IF o = s THEN t ELSE tx[o]
  OBVIOUS
<1>2. OneHome' = OneHome
  BY DEF OneHome
<1>3. CommittedOK'
  BY DEF CommittedOK, NothingStray
<1>4. begun' \in 0 .. MaxTxs
  BY MaxTxsAssumption
<1>5. ASSUME NEW o \in Session
      PROVE  /\ tx'[o] \in Transaction /\ tx'[o].no <= begun' /\ InOrder(tx'[o]) /\ Wrote(tx'[o])
             /\ Covers(tx'[o], committed')
             /\ backend' = "sqlite" => Current(tx'[o], committed', OneHome')
  <2>1. CASE o = s
    BY <1>1, <1>2, <2>1
  <2>2. CASE o # s
    <3>1. tx'[o] = tx[o] /\ tx[o].no \in Nat /\ tx[o].no <= begun
      BY <1>1, <2>2 DEF Transaction
    <3>2. tx[o].no <= begun'
      BY <3>1, MaxTxsAssumption
    <3> QED BY <1>2, <3>1, <3>2
  <2> QED BY <2>1, <2>2
<1>6. ASSUME NEW p \in Session, NEW o \in Session, p # o
      PROVE  /\ ~(Holds(tx'[p]) /\ Holds(tx'[o]))
             /\ backend' = "sqlite" => ~(Writes(tx'[p]) /\ Writes(tx'[o]))
             /\ backend' = "sqlite" /\ home'[p] = home'[o] => tx'[p].pc = "idle" \/ tx'[o].pc = "idle"
  <2>1. CASE p = s
    BY <1>1, <1>6, <2>1
  <2>2. CASE o = s
    BY <1>1, <1>6, <2>2
  <2>3. CASE p # s /\ o # s
    BY <1>1, <1>6, <2>3 DEF Exclusive
  <2> QED BY <2>1, <2>2, <2>3
<1>7. Exclusive'
  BY <1>6 DEF Exclusive, Holds, Writes, BeforeObject
<1> QED BY <1>1, <1>3, <1>4, <1>5, <1>7

\* A transaction that rolls back, or only read, leaves nothing.
LEMMA EndKeeps ==
    ASSUME TxInv, NEW s \in Session, tx' = [tx EXCEPT ![s] = NoTx],
           UNCHANGED <<backend, home, committed, begun>>
    PROVE  TxInv'
<1>1. begun' \in begun .. MaxTxs /\ 0 <= begun'
  BY MaxTxsAssumption DEF TxInv
<1> QED BY <1>1, IdleTx, StepKeeps

\* A session that begins one on SQLite is the only one of its process.
LEMMA BeginKeeps ==
    ASSUME TxInv, NEW s \in Session, UNCHANGED <<backend, home>>, Begin(s)
    PROVE  TxInv'
<1>1. PICK kind \in Kinds :
          /\ tx[s].pc = "idle" /\ MayStart(s) /\ begun < MaxTxs /\ begun' = begun + 1
          /\ tx' = [tx EXCEPT ![s] = [NoTx EXCEPT !.pc = "run", !.kind = kind, !.no = begun + 1,
                                                  !.left = Statements(kind)]]
          /\ UNCHANGED <<committed, answer>>
  BY DEF Begin
<1>2. kind \in Records \cup {"delete", "get"}
  BY KindsAssumption DEF Records
<1>3. Statements(kind) = IF kind \in {"derive", "delete"} THEN All3 ELSE All2
  BY DEF Statements, All3, All2
<1>4. begun \in Nat /\ begun' \in begun .. MaxTxs /\ begun + 1 <= begun'
  BY <1>1, MaxTxsAssumption DEF TxInv
<1>5. PICK t : t = [NoTx EXCEPT !.pc = "run", !.kind = kind, !.no = begun + 1,
                                !.left = Statements(kind)]
  OBVIOUS
<1>6. /\ t.pc = "run" /\ t.kind = kind /\ t.no = begun + 1 /\ t.left = Statements(kind)
      /\ t.object = Untouched /\ t.drops = None /\ t.adds = None /\ t.found = {}
  BY <1>5 DEF NoTx, None
<1>7. t \in Transaction
  <2>1. Statements(kind) \in {All3, All2}
    BY <1>3
  <2>2. t = [pc |-> "run", kind |-> kind, no |-> begun + 1, left |-> Statements(kind), found |-> {},
             object |-> Untouched, drops |-> None, adds |-> None]
    BY <1>5 DEF NoTx, None
  <2>3. None \in Numbers /\ begun + 1 \in Nat
    BY <1>4 DEF None, Numbers
  <2> QED BY <1>2, <2>1, <2>2, <2>3 DEF Transaction
<1>8. InOrder(t) /\ Wrote(t) /\ ~Holds(t)
  BY <1>2, <1>3, <1>4, <1>6, Lists
  DEF InOrder, Wrote, Holds, BeforeObject, BeforeTags, None, Records
<1>9. Covers(t, committed) /\ Current(t, committed, OneHome)
  BY <1>2, <1>3, <1>6, <1>8, Lists DEF Covers, Current
<1>10. backend = "sqlite" => \A o \in Session \ {s} : home[o] = home[s] => tx[o].pc = "idle"
  BY <1>1 DEF MayStart, Others
<1>11. ~Writes(t)
  BY <1>3, <1>6 DEF Writes, BeforeObject
<1> QED BY <1>11, <1>1, <1>4, <1>5, <1>6, <1>7, <1>8, <1>9, <1>10, StepKeeps

\* What Step does to a session's transaction, one statement further.
LEMMA OneStatement ==
    ASSUME NEW t \in Transaction, t.left # <<>>
    PROVE  /\ Tail(t.left) = CASE t.left = All3 -> Last2
                               [] t.left = Last2 -> Last1
                               [] t.left = All2 -> Tags1
                               [] OTHER -> <<>>
           /\ Tail(t.left) \in {All3, Last2, Last1, All2, Tags1, <<>>}
           /\ Head(t.left) = "object" <=> BeforeObject(t)
           /\ Head(t.left) = "tags" <=> t.left \in {Last2, Tags1}
           /\ Head(t.left) = "edges" <=> t.left = Last1
  BY Lists DEF Transaction, BeforeObject

\* Mutual exclusion of those who hold the object row.
LEMMA Unlocked ==
    ASSUME TxInv, NEW s \in Session, ~ObjectLocked(s)
    PROVE  \A o \in Session \ {s} : ~Holds(tx[o])
  BY IdleTx DEF TxInv, InOrder, ObjectLocked, Others, Holds

\* An active session on SQLite is the only one of its process, and one that
\* has begun to write the only one that has.
LEMMA OnlyOne ==
    ASSUME TxInv, NEW s \in Session, tx[s].pc # "idle"
    PROVE  /\ backend = "sqlite" =>
                  \A o \in Session \ {s} : home[o] = home[s] => tx[o].pc = "idle"
           /\ backend = "sqlite" /\ Writes(tx[s]) => \A o \in Session \ {s} : ~Writes(tx[o])
           /\ Holds(tx[s]) => \A o \in Session \ {s} : ~Holds(tx[o])
  BY DEF TxInv, Exclusive

\* Who may write on SQLite is the only one that has begun to.
LEMMA OnlyWriter ==
    ASSUME NEW s \in Session, MayWrite(s), backend = "sqlite"
    PROVE  \A o \in Session \ {s} : ~Writes(tx[o])
<1>1. \A kind \in Records \cup {"delete"} : Statements(kind) \in {All3, All2}
  BY DEF Statements, All3, All2, Records
<1> QED BY <1>1 DEF MayWrite, HasWriteLock, Writes, BeforeObject

\* A record's upsert of the object row: from here on it holds the row.
LEMMA UpsertKeeps ==
    ASSUME TxInv, NEW s \in Session, UNCHANGED <<backend, home>>, Upsert(s)
    PROVE  TxInv'
<1>1. /\ tx[s] \in Transaction /\ tx[s].pc = "run" /\ tx[s].kind \in Records /\ tx[s].left # <<>>
      /\ Head(tx[s].left) = "object" /\ tx[s].no <= begun /\ InOrder(tx[s]) /\ Wrote(tx[s])
  BY DEF TxInv, Upsert, Running
<1>2. PICK row : row = [born |-> IF committed.object = NoObject THEN tx[s].no
                                 ELSE committed.object.born,
                        by |-> tx[s].no, kind |-> tx[s].kind]
  OBVIOUS
<1>3. row \in Row /\ row.by = tx[s].no
  <2>1. committed.object = NoObject \/ committed.object.born \in Nat
    BY DEF TxInv, CommittedOK, Row
  <2> QED BY <1>1, <1>2, <2>1 DEF Transaction, InOrder, Row
<1>4. PICK t : t = [tx[s] EXCEPT !.object = row, !.pc = "run", !.left = Tail(@), !.found = {}]
  OBVIOUS
<1>5. tx' = [tx EXCEPT ![s] = t]
  BY <1>2, <1>4 DEF Upsert, Step
<1>6. /\ t.pc = "run" /\ t.kind = tx[s].kind /\ t.no = tx[s].no /\ t.left = Tail(tx[s].left)
      /\ t.object = row /\ t.drops = tx[s].drops /\ t.adds = tx[s].adds /\ t.found = {}
  BY <1>1, <1>4 DEF Transaction
<1>7. t \in Transaction
  BY <1>1, <1>3, <1>4, OneStatement DEF Transaction
<1>8. t.left \in {Last2, Tags1} /\ BeforeObject(tx[s])
      /\ (t.left = Last2 <=> tx[s].left = All3)
  BY <1>1, <1>6, OneStatement, Lists DEF BeforeObject
<1>9. InOrder(t) /\ Wrote(t)
  BY <1>1, <1>3, <1>6, <1>8, Lists DEF InOrder, Wrote, BeforeObject, BeforeTags, Records
<1>10. Covers(t, committed) /\ Current(t, committed, OneHome)
  BY <1>1, <1>6, <1>8, Lists DEF Covers, Current, BeforeTags, Records
<1>11. \A o \in Session \ {s} : ~Holds(tx[o])
  BY Unlocked DEF Upsert
<1>12. UNCHANGED <<committed, begun>> /\ begun' \in begun .. MaxTxs
  BY MaxTxsAssumption DEF Upsert, TxInv
<1>13. backend = "sqlite" => \A o \in Session \ {s} : ~Writes(tx[o])
  BY <1>1, OnlyWriter DEF Upsert, Running, Records
<1>14. backend = "sqlite" => \A o \in Session \ {s} : home[o] = home[s] => tx[o].pc = "idle"
  BY <1>1, OnlyOne
<1> QED BY <1>1, <1>5, <1>6, <1>7, <1>9, <1>10, <1>11, <1>12, <1>13, <1>14, StepKeeps

\* A delete that found no row goes on without a lock; one that found a row
\* waits for whoever writes it.
LEMMA FindObjectKeeps ==
    ASSUME TxInv, NEW s \in Session, UNCHANGED <<backend, home>>, FindObject(s)
    PROVE  TxInv'
<1>1. /\ tx[s] \in Transaction /\ tx[s].pc = "run" /\ tx[s].kind = "delete" /\ tx[s].left # <<>>
      /\ Head(tx[s].left) = "object" /\ tx[s].no <= begun /\ InOrder(tx[s]) /\ Wrote(tx[s])
  BY DEF TxInv, FindObject, Running
<1>2. BeforeObject(tx[s]) /\ tx[s].left = All3 /\ ~Holds(tx[s])
  BY <1>1, OneStatement, Lists DEF BeforeObject, InOrder, Wrote
<1>3. UNCHANGED <<committed, begun>> /\ begun' \in begun .. MaxTxs
  BY MaxTxsAssumption DEF FindObject, TxInv
<1>4. backend = "sqlite" => \A o \in Session \ {s} : ~Writes(tx[o])
  BY <1>1, OnlyWriter DEF FindObject, Running
<1>5. backend = "sqlite" => \A o \in Session \ {s} : home[o] = home[s] => tx[o].pc = "idle"
  BY <1>1, OnlyOne
<1>6. CASE committed.object = NoObject
  <2>1. PICK t : t = [tx[s] EXCEPT !.pc = "run", !.left = Tail(@), !.found = {}]
    OBVIOUS
  <2>2. tx' = [tx EXCEPT ![s] = t]
    BY <1>6, <2>1 DEF FindObject, Step
  <2>3. /\ t.pc = "run" /\ t.kind = "delete" /\ t.no = tx[s].no /\ t.left = Last2
        /\ t.object = Untouched /\ t.drops = tx[s].drops /\ t.adds = tx[s].adds /\ t.found = {}
    BY <1>1, <1>2, <2>1, Lists DEF Transaction, Holds
  <2>4. t \in Transaction
    BY <1>1, <2>1, OneStatement DEF Transaction
  <2>5. InOrder(t) /\ Wrote(t) /\ ~Holds(t)
    BY <1>1, <1>2, <2>3, Lists DEF InOrder, Wrote, BeforeObject, BeforeTags, Records, Holds
  <2>6. Covers(t, committed) /\ Current(t, committed, OneHome)
    BY <1>6, <2>3, <2>5, Lists DEF Covers, Current
  <2> QED BY <1>1, <1>3, <1>4, <1>5, <2>2, <2>3, <2>4, <2>5, <2>6, StepKeeps
<1>7. CASE committed.object # NoObject
  <2>1. PICK t : t = [tx[s] EXCEPT !.pc = "drop", !.found = {committed.object.born}]
    OBVIOUS
  <2>2. tx' = [tx EXCEPT ![s] = t]
    <3>1. tx' = [tx EXCEPT ![s].pc = "drop", ![s].found = {committed.object.born}]
      BY <1>7 DEF FindObject
    <3> QED BY <2>1, <3>1 DEF TxInv
  <2>3. /\ t.pc = "drop" /\ t.kind = "delete" /\ t.no = tx[s].no /\ t.left = All3
        /\ t.object = Untouched /\ t.drops = tx[s].drops /\ t.adds = tx[s].adds
        /\ t.found = {committed.object.born}
    BY <1>1, <1>2, <2>1 DEF Transaction, Holds
  <2>4. t \in Transaction
    <3>1. committed.object.born \in Nat
      BY <1>7 DEF TxInv, CommittedOK, Row
    <3> QED BY <1>1, <2>1, <3>1 DEF Transaction
  <2>5. InOrder(t) /\ Wrote(t) /\ ~Holds(t)
    BY <1>1, <1>2, <2>3, Lists DEF InOrder, Wrote, BeforeObject, BeforeTags, Records, Holds
  <2>6. Covers(t, committed) /\ Current(t, committed, OneHome)
    BY <2>3, <2>5, Lists DEF Covers, Current
  <2> QED BY <1>1, <1>3, <1>4, <1>5, <2>2, <2>3, <2>4, <2>5, <2>6, StepKeeps
<1> QED BY <1>6, <1>7

\* It then deletes that row, or nothing if another has come in its place.
LEMMA DropObjectKeeps ==
    ASSUME TxInv, NEW s \in Session, UNCHANGED <<backend, home>>, DropObject(s)
    PROVE  TxInv'
<1>1. /\ tx[s] \in Transaction /\ tx[s].pc = "drop" /\ Head(tx[s].left) = "object"
      /\ tx[s].no <= begun /\ InOrder(tx[s]) /\ Wrote(tx[s])
      /\ backend = "sqlite" => Current(tx[s], committed, OneHome)
  BY DEF TxInv, DropObject
<1>2. /\ tx[s].left # <<>> /\ BeforeObject(tx[s]) /\ tx[s].kind = "delete" /\ tx[s].left = All3
  BY <1>1, OneStatement, Lists DEF BeforeObject, InOrder
<1>3. UNCHANGED <<committed, begun>> /\ begun' \in begun .. MaxTxs
  BY MaxTxsAssumption DEF DropObject, TxInv
<1>4. PICK o : o = IF committed.object.born \in tx[s].found THEN NoObject ELSE Untouched
  OBVIOUS
<1>5. PICK t : t = [tx[s] EXCEPT !.object = o, !.pc = "run", !.left = Tail(@), !.found = {}]
  OBVIOUS
<1>6. tx' = [tx EXCEPT ![s] = t]
  BY <1>4, <1>5 DEF DropObject, Step
<1>7. /\ t.pc = "run" /\ t.kind = "delete" /\ t.no = tx[s].no /\ t.left = Last2
      /\ t.object = o /\ t.drops = tx[s].drops /\ t.adds = tx[s].adds /\ t.found = {}
  BY <1>1, <1>2, <1>5, Lists DEF Transaction
<1>8. t \in Transaction
  BY <1>1, <1>2, <1>4, <1>5, OneStatement DEF Transaction
<1>9. InOrder(t) /\ Wrote(t)
  BY <1>1, <1>2, <1>4, <1>7, Lists DEF InOrder, Wrote, BeforeObject, BeforeTags, Records, Holds
<1>10. Covers(t, committed) /\ (backend = "sqlite" => Current(t, committed, OneHome))
  BY <1>1, <1>2, <1>4, <1>7, Lists DEF Covers, Current, BeforeTags
<1>11. \A p \in Session \ {s} : ~Holds(tx[p])
  BY Unlocked DEF DropObject
<1>12. /\ backend = "sqlite" => \A p \in Session \ {s} : ~Writes(tx[p])
       /\ backend = "sqlite" => \A p \in Session \ {s} : home[p] = home[s] => tx[p].pc = "idle"
  <2>1. Writes(tx[s]) /\ tx[s].pc # "idle"
    BY <1>1, <1>2 DEF Writes
  <2> QED BY <2>1, OnlyOne
<1> QED BY <1>1, <1>3, <1>6, <1>7, <1>8, <1>9, <1>10, <1>11, <1>12, StepKeeps

\* A function's DELETE of tags or edges sees what is on file.
LEMMA FindRowsKeeps ==
    ASSUME TxInv, NEW s \in Session, NEW table \in {"tags", "edges"}, UNCHANGED <<backend, home>>,
           FindRows(s, table)
    PROVE  TxInv'
<1>1. /\ tx[s] \in Transaction /\ tx[s].pc = "run" /\ tx[s].kind # "get" /\ tx[s].left # <<>>
      /\ Head(tx[s].left) = table /\ tx[s].no <= begun /\ InOrder(tx[s]) /\ Wrote(tx[s])
      /\ Covers(tx[s], committed) /\ (backend = "sqlite" => Current(tx[s], committed, OneHome))
  BY DEF TxInv, FindRows, Running
<1>2. ~BeforeObject(tx[s]) /\ tx[s].left \in IF table = "tags" THEN {Last2, Tags1} ELSE {Last1}
  BY <1>1, OneStatement
<1>3. UNCHANGED <<committed, begun>> /\ begun' \in begun .. MaxTxs
  BY MaxTxsAssumption DEF FindRows, TxInv
<1>4. PICK t : t = [tx[s] EXCEPT !.pc = "drop", !.found = committed[table]]
  OBVIOUS
<1>5. tx' = [tx EXCEPT ![s] = t]
  <2>1. tx' = [tx EXCEPT ![s].pc = "drop", ![s].found = committed[table]]
    BY DEF FindRows
  <2> QED BY <1>4, <2>1 DEF TxInv
<1>6. /\ t.pc = "drop" /\ t.kind = tx[s].kind /\ t.no = tx[s].no /\ t.left = tx[s].left
      /\ t.object = tx[s].object /\ t.drops = tx[s].drops /\ t.adds = tx[s].adds
      /\ t.found = committed[table]
  BY <1>1, <1>4 DEF Transaction
<1>7. committed[table] \in SUBSET Nat
  BY DEF TxInv, CommittedOK
<1>8. t \in Transaction
  BY <1>1, <1>4, <1>7 DEF Transaction
<1>9. InOrder(t) /\ Wrote(t)
  BY <1>1, <1>2, <1>6, Lists DEF InOrder, Wrote, BeforeObject, BeforeTags, Records, Holds
<1>10. Covers(t, committed)
  BY <1>1, <1>2, <1>6, Lists DEF Covers, BeforeTags, Holds
<1>11. backend = "sqlite" => Current(t, committed, OneHome)
  BY <1>1, <1>2, <1>6, Lists DEF Current
<1>12. Holds(t) <=> Holds(tx[s])
  BY <1>6 DEF Holds
<1>13. /\ backend = "sqlite" => \A o \in Session \ {s} : ~Writes(tx[o])
       /\ backend = "sqlite" => \A o \in Session \ {s} : home[o] = home[s] => tx[o].pc = "idle"
       /\ Holds(tx[s]) => \A o \in Session \ {s} : ~Holds(tx[o])
  <2>1. MayWrite(s)
    BY DEF FindRows, Running
  <2> QED BY <1>1, <2>1, OnlyWriter, OnlyOne
<1> QED BY <1>1, <1>3, <1>5, <1>6, <1>8, <1>9, <1>10, <1>11, <1>12, <1>13, StepKeeps

\* It deletes those of them still there, and inserts its own.
LEMMA DropRowsKeeps ==
    ASSUME TxInv, NEW s \in Session, NEW table \in {"tags", "edges"}, UNCHANGED <<backend, home>>,
           DropRows(s, table)
    PROVE  TxInv'
<1>1. /\ tx[s] \in Transaction /\ tx[s].pc = "drop" /\ Head(tx[s].left) = table
      /\ tx[s].no <= begun /\ InOrder(tx[s]) /\ Wrote(tx[s])
      /\ Covers(tx[s], committed) /\ (backend = "sqlite" => Current(tx[s], committed, OneHome))
  BY DEF TxInv, DropRows
<1>2. /\ tx[s].left # <<>> /\ tx[s].kind # "get" /\ ~BeforeObject(tx[s])
      /\ tx[s].left \in IF table = "tags" THEN {Last2, Tags1} ELSE {Last1}
      /\ tx[s].kind # "none" /\ tx[s].no > 0
  <2>1. tx[s].left # <<>> /\ tx[s].kind # "get" /\ tx[s].kind # "none" /\ tx[s].no > 0
    BY <1>1 DEF InOrder
  <2> QED BY <1>1, <2>1, OneStatement
<1>3. UNCHANGED <<committed, begun>> /\ begun' \in begun .. MaxTxs
  BY MaxTxsAssumption DEF DropRows, TxInv
<1>4. PICK dropped, added : dropped = tx[s].found \cap committed[table]
                            /\ added = Additions(s, table)
  OBVIOUS
<1>5. dropped \in SUBSET Nat /\ added \in SUBSET Nat
  <2>1. committed[table] \in SUBSET Nat
    BY DEF TxInv, CommittedOK
  <2> QED BY <1>1, <1>4, <2>1 DEF Additions, Transaction
<1>6. PICK t : t = [tx[s] EXCEPT !.drops[table] = dropped, !.adds[table] = added,
                                 !.pc = "run", !.left = Tail(@), !.found = {}]
  OBVIOUS
<1>7. tx' = [tx EXCEPT ![s] = t]
  BY <1>4, <1>6 DEF DropRows, Step
<1>8. /\ t.pc = "run" /\ t.kind = tx[s].kind /\ t.no = tx[s].no /\ t.left = Tail(tx[s].left)
      /\ t.object = tx[s].object /\ t.found = {}
      /\ t.drops = [tx[s].drops EXCEPT ![table] = dropped]
      /\ t.adds = [tx[s].adds EXCEPT ![table] = added]
  BY <1>1, <1>6 DEF Transaction
<1>9. tx[s].drops \in Numbers /\ tx[s].adds \in Numbers
  BY <1>1 DEF Transaction
<1>10. /\ t.drops.tags = IF table = "tags" THEN dropped ELSE tx[s].drops.tags
       /\ t.drops.edges = IF table = "edges" THEN dropped ELSE tx[s].drops.edges
       /\ t.adds.tags = IF table = "tags" THEN added ELSE tx[s].adds.tags
       /\ t.adds.edges = IF table = "edges" THEN added ELSE tx[s].adds.edges
       /\ t.drops \in Numbers /\ t.adds \in Numbers
  BY <1>5, <1>8, <1>9 DEF Numbers
<1>11. t.left = IF tx[s].left = Last2 THEN Last1 ELSE <<>>
  BY <1>1, <1>2, <1>8, OneStatement, Lists
<1>12. t \in Transaction
  <2>1. t = [tx[s] EXCEPT !.drops = t.drops, !.adds = t.adds,
                          !.pc = "run", !.left = Tail(@), !.found = {}]
    BY <1>1, <1>6, <1>8 DEF Transaction
  <2> QED BY <1>1, <1>2, <1>10, <2>1, OneStatement DEF Transaction
<1>13. InOrder(t) /\ Wrote(t)
  <2>1. InOrder(t)
    BY <1>1, <1>2, <1>8, <1>11, Lists DEF InOrder, BeforeObject
  <2>2. added = IF tx[s].kind = "derive" \/ (tx[s].kind = "ingest" /\ table = "tags")
                THEN {tx[s].no} ELSE {}
    BY <1>4 DEF Additions
  <2>3. CASE table = "tags"
    BY <1>1, <1>2, <1>8, <1>10, <1>11, <2>2, <2>3, Lists, ZenonT(60)
    DEF InOrder, Wrote, BeforeObject, BeforeTags, Records, Holds
  <2>4. CASE table = "edges"
    BY <1>1, <1>2, <1>8, <1>10, <1>11, <2>2, <2>4, Lists, ZenonT(60)
    DEF InOrder, Wrote, BeforeObject, BeforeTags, Records, Holds
  <2> QED BY <2>1, <2>3, <2>4
<1>14. Covers(t, committed)
  <2>1. CASE table = "tags"
    BY <1>1, <1>2, <1>4, <1>8, <1>10, <1>11, <2>1, Lists DEF Covers, BeforeTags, Holds, InOrder
  <2>2. CASE table = "edges"
    BY <1>1, <1>2, <1>4, <1>8, <1>10, <1>11, <2>2, Lists DEF Covers, BeforeTags, Holds, InOrder
  <2> QED BY <2>1, <2>2
<1>15. backend = "sqlite" => Current(t, committed, OneHome)
  BY <1>1, <1>2, <1>8, <1>11, Lists DEF Current
<1>16. Holds(t) <=> Holds(tx[s])
  BY <1>8 DEF Holds
<1>17. /\ backend = "sqlite" => \A o \in Session \ {s} : ~Writes(tx[o])
       /\ backend = "sqlite" => \A o \in Session \ {s} : home[o] = home[s] => tx[o].pc = "idle"
       /\ Holds(tx[s]) => \A o \in Session \ {s} : ~Holds(tx[o])
  <2>1. tx[s].kind \in Records \cup {"delete"} /\ tx[s].pc # "idle"
    BY <1>1, <1>2 DEF Transaction
  <2>2. Writes(tx[s])
    BY <1>1, <2>1 DEF Writes
  <2> QED BY <2>1, <2>2, OnlyOne
<1> QED BY <1>1, <1>3, <1>7, <1>8, <1>12, <1>13, <1>14, <1>15, <1>16, <1>17, StepKeeps

\* get_object's first read finds the row on file.
LEMMA ReadObjectKeeps ==
    ASSUME TxInv, NEW s \in Session, UNCHANGED <<backend, home>>, ReadObject(s)
    PROVE  TxInv'
<1>1. /\ tx[s] \in Transaction /\ tx[s].pc = "run" /\ tx[s].kind = "get" /\ tx[s].left # <<>>
      /\ Head(tx[s].left) = "object" /\ tx[s].no <= begun /\ InOrder(tx[s]) /\ Wrote(tx[s])
  BY DEF TxInv, ReadObject, Running
<1>2. UNCHANGED <<committed, begun>> /\ begun' \in begun .. MaxTxs
  BY MaxTxsAssumption DEF ReadObject, TxInv
<1>3. CASE committed.object = NoObject
  BY <1>2, <1>3, EndKeeps DEF ReadObject
<1>4. CASE committed.object # NoObject
  <2>1. BeforeObject(tx[s]) /\ tx[s].left = All2 /\ ~Holds(tx[s])
    BY <1>1, OneStatement, Lists DEF BeforeObject, InOrder, Wrote
  <2>2. PICK t : t = [tx[s] EXCEPT !.left = Tail(@), !.found = {committed.object.by}]
    OBVIOUS
  <2>3. tx' = [tx EXCEPT ![s] = t]
    <3>1. tx' = [tx EXCEPT ![s].left = Tail(@), ![s].found = {committed.object.by}]
      BY <1>4 DEF ReadObject
    <3> QED BY <2>2, <3>1 DEF TxInv
  <2>4. /\ t.pc = "run" /\ t.kind = "get" /\ t.no = tx[s].no /\ t.left = Tags1
        /\ t.object = Untouched /\ t.drops = tx[s].drops /\ t.adds = tx[s].adds
        /\ t.found = {committed.object.by}
    BY <1>1, <2>1, <2>2, Lists DEF Transaction, Holds
  <2>5. t \in Transaction
    <3>1. committed.object.by \in Nat
      BY <1>4 DEF TxInv, CommittedOK, Row
    <3> QED BY <1>1, <2>2, <3>1, OneStatement DEF Transaction
  <2>6. InOrder(t) /\ Wrote(t) /\ ~Holds(t)
    BY <1>1, <2>1, <2>4, Lists DEF InOrder, Wrote, BeforeObject, BeforeTags, Records, Holds
  <2>7. Covers(t, committed) /\ Current(t, committed, OneHome)
    BY <2>4, <2>6, Lists DEF Covers, Current
  <2>8. backend = "sqlite" => \A o \in Session \ {s} : home[o] = home[s] => tx[o].pc = "idle"
    BY <1>1, OnlyOne
  <2>9. ~Writes(t)
    BY <2>4 DEF Writes, Records
  <2> QED BY <1>1, <1>2, <2>3, <2>4, <2>5, <2>6, <2>7, <2>8, <2>9, StepKeeps
<1> QED BY <1>3, <1>4

\* What a commit puts in place of the committed rows.
LEMMA WhatCommits ==
    ASSUME TxInv, NEW s \in Session, Commit(s)
    PROVE  /\ tx[s].kind \in {"derive", "ingest", "repair", "delete"}
           /\ tx[s].no \in 1 .. MaxTxs
           /\ tx[s].kind \in Records =>
                  /\ Holds(tx[s]) /\ committed'.object = tx[s].object
                  /\ tx[s].object \in Row /\ tx[s].object.by = tx[s].no
           /\ tx[s].kind = "delete" =>
                  committed'.object \in {NoObject, committed.object}
           /\ Holds(tx[s]) =>
                  /\ tx[s].kind = "delete" => committed'.object = NoObject
                  /\ committed'.tags = IF tx[s].kind \in {"derive", "ingest"}
                                       THEN {tx[s].no} ELSE {}
                  /\ committed'.edges = CASE tx[s].kind = "derive" -> {tx[s].no}
                                          [] tx[s].kind = "delete" -> {}
                                          [] OTHER -> committed.edges
           /\ ~Holds(tx[s]) =>
                  /\ committed'.object = committed.object
                  /\ committed'.tags \subseteq committed.tags
                  /\ committed'.edges \subseteq committed.edges
           /\ committed' \in [object : Row \cup {NoObject}, tags : SUBSET Nat, edges : SUBSET Nat]
<1>1. /\ tx[s] \in Transaction /\ tx[s].no <= begun /\ begun \in 0 .. MaxTxs
      /\ tx[s].pc = "run" /\ tx[s].left = <<>>
      /\ InOrder(tx[s]) /\ Wrote(tx[s]) /\ Covers(tx[s], committed)
      /\ committed \in [object : Row \cup {NoObject}, tags : SUBSET Nat, edges : SUBSET Nat]
  BY DEF TxInv, CommittedOK, Commit
<1>2. /\ committed'.object = IF Holds(tx[s]) THEN tx[s].object ELSE committed.object
      /\ committed'.tags = (committed.tags \ tx[s].drops.tags) \cup tx[s].adds.tags
      /\ committed'.edges = (committed.edges \ tx[s].drops.edges) \cup tx[s].adds.edges
      /\ committed' = [object |-> committed'.object, tags |-> committed'.tags,
                       edges |-> committed'.edges]
  BY DEF Commit, Left, Holds
<1>3. /\ tx[s].kind \in {"derive", "ingest", "repair", "delete"} /\ tx[s].no \in 1 .. MaxTxs
      /\ ~BeforeObject(tx[s]) /\ ~BeforeTags(tx[s])
  BY <1>1, Lists, MaxTxsAssumption DEF InOrder, Transaction, Records, BeforeObject, BeforeTags
<1>4. tx[s].drops \in Numbers /\ tx[s].adds \in Numbers
  BY <1>1 DEF Transaction
<1>5. tx[s].kind \in Records => Holds(tx[s]) /\ tx[s].object \in Row /\ tx[s].object.by = tx[s].no
  BY <1>1, <1>3, RowsAreRows DEF Wrote, Holds
<1>6. tx[s].kind = "delete" => tx[s].object \in {Untouched, NoObject}
      /\ tx[s].adds.tags = {} /\ tx[s].adds.edges = {}
  BY <1>1, <1>3 DEF Wrote
<1>7. /\ tx[s].adds.tags = IF tx[s].kind \in {"derive", "ingest"} THEN {tx[s].no} ELSE {}
      /\ tx[s].adds.edges = IF tx[s].kind = "derive" THEN {tx[s].no} ELSE {}
      /\ tx[s].kind \in {"ingest", "repair"} => tx[s].drops.edges = {}
  BY <1>1, <1>3 DEF Wrote
<1>8. Holds(tx[s]) => /\ committed.tags \subseteq tx[s].drops.tags
                      /\ tx[s].kind \in {"derive", "delete"} =>
                             committed.edges \subseteq tx[s].drops.edges
  BY <1>1, <1>3 DEF Covers
<1>9. /\ tx[s].kind \in Records => committed'.object = tx[s].object
      /\ tx[s].kind = "delete" => committed'.object \in {NoObject, committed.object}
      /\ Holds(tx[s]) /\ tx[s].kind = "delete" => committed'.object = NoObject
      /\ ~Holds(tx[s]) => committed'.object = committed.object
  BY <1>2, <1>5, <1>6 DEF Holds
<1>10. Holds(tx[s]) =>
           /\ committed'.tags = IF tx[s].kind \in {"derive", "ingest"} THEN {tx[s].no} ELSE {}
           /\ committed'.edges = CASE tx[s].kind = "derive" -> {tx[s].no}
                                   [] tx[s].kind = "delete" -> {}
                                   [] OTHER -> committed.edges
  BY <1>2, <1>3, <1>7, <1>8
<1>11. ~Holds(tx[s]) => /\ committed'.tags \subseteq committed.tags
                        /\ committed'.edges \subseteq committed.edges
  BY <1>2, <1>3, <1>5, <1>6 DEF Records
<1>12. committed' \in [object : Row \cup {NoObject}, tags : SUBSET Nat, edges : SUBSET Nat]
  <2>1. committed'.object \in Row \cup {NoObject}
    BY <1>1, <1>3, <1>5, <1>9 DEF Records
  <2>2. committed'.tags \in SUBSET Nat /\ committed'.edges \in SUBSET Nat
    BY <1>1, <1>2, <1>4 DEF Numbers
  <2> QED BY <1>2, <2>1, <2>2
<1> QED BY <1>3, <1>5, <1>9, <1>10, <1>11, <1>12

\* A commit keeps the rows whole, and everyone else covered.
LEMMA CommitKeeps ==
    ASSUME TxInv, NEW s \in Session, UNCHANGED <<backend, home>>, Commit(s)
    PROVE  TxInv'
<1>1. tx' = [tx EXCEPT ![s] = NoTx] /\ begun' = begun /\ tx[s].pc # "idle"
  BY DEF Commit
<1>2. CommittedOK'
  <2>1. NothingStray'
    <3>1. CASE Holds(tx[s]) /\ tx[s].kind # "delete"
      <4>1. /\ committed'.object.by = tx[s].no /\ committed'.object # NoObject
            /\ committed'.tags \subseteq {tx[s].no}
        BY <3>1, WhatCommits, RowsAreRows, ZenonT(60) DEF Records
      <4>2. \A n, m \in committed'.edges : n = m
        BY <3>1, WhatCommits DEF TxInv, CommittedOK, NothingStray
      <4> QED BY <4>1, <4>2 DEF NothingStray
    <3>2. CASE Holds(tx[s]) /\ tx[s].kind = "delete"
      BY <3>2, WhatCommits DEF NothingStray
    <3>3. CASE ~Holds(tx[s])
      BY <3>3, WhatCommits DEF TxInv, CommittedOK, NothingStray
    <3> QED BY <3>1, <3>2, <3>3
  <2> QED BY <2>1, WhatCommits DEF CommittedOK
<1>3. /\ DOMAIN tx' = Session /\ tx' = [o \in Session |-> tx'[o]]
      /\ \A o \in Session : tx'[o] = IF o = s THEN NoTx ELSE tx[o]
  BY <1>1 DEF TxInv
<1>4. ASSUME NEW o \in Session
      PROVE  /\ tx'[o] \in Transaction /\ tx'[o].no <= begun' /\ InOrder(tx'[o]) /\ Wrote(tx'[o])
             /\ Covers(tx'[o], committed')
             /\ backend' = "sqlite" => Current(tx'[o], committed', OneHome')
  <2>1. CASE o = s
    <3>1. NoTx.no <= begun'
      BY <1>1, IdleTx, MaxTxsAssumption DEF TxInv
    <3> QED BY <1>3, <2>1, <3>1, IdleTx
  <2>2. CASE o # s
    <3>1. /\ tx'[o] = tx[o] /\ tx[o] \in Transaction /\ tx[o].no <= begun /\ InOrder(tx[o])
          /\ Wrote(tx[o]) /\ Covers(tx[o], committed)
      BY <1>3, <2>2 DEF TxInv
    <3>2. Covers(tx[o], committed')
      <4>1. CASE Holds(tx[s])
        <5>1. ~Holds(tx[o])
          BY <1>1, <2>2, <4>1, OnlyOne
        <5> QED BY <5>1 DEF Covers
      <4>2. CASE ~Holds(tx[s])
        BY <3>1, <4>2, WhatCommits DEF Covers
      <4> QED BY <4>1, <4>2
    <3>3. ASSUME backend = "sqlite" PROVE Current(tx[o], committed', OneHome')
      <4>1. tx[s].kind \in Records \cup {"delete"} /\ tx[s].left = <<>> /\ tx[s].pc = "run"
        BY WhatCommits DEF Commit, Records
      <4>2. Writes(tx[s])
        BY <4>1, Lists DEF Writes, BeforeObject
      <4>3. ~Writes(tx[o])
        BY <1>1, <2>2, <3>3, <4>2, OnlyOne
      <4>4. OneHome => tx[o].pc = "idle"
        BY <1>1, <2>2, <3>3, OnlyOne DEF OneHome
      <4>5. ~(tx[o].pc = "drop" /\ tx[o].left = All3)
        BY <3>1, <4>3, Lists DEF Writes, InOrder, BeforeObject
      <4>6. ~(tx[o].kind = "get" /\ tx[o].left = Tags1 /\ OneHome)
        BY <3>1, <4>4, IdleTx, Lists DEF InOrder, NoTx
      <4>7. tx[o].kind = "delete" => tx[o].left = All3
        BY <3>1, <4>3, Lists, IdleTx DEF Writes, InOrder, BeforeObject, NoTx, Records
      <4>8. OneHome' = OneHome
        BY DEF OneHome
      <4> QED BY <4>5, <4>6, <4>7, <4>8 DEF Current
    <3> QED BY <1>1, <3>1, <3>2, <3>3
  <2> QED BY <2>1, <2>2
<1>5. Exclusive'
  <2>1. /\ \A p, o \in Session : p # o =>
               /\ ~(Holds(tx'[p]) /\ Holds(tx'[o]))
               /\ backend = "sqlite" => ~(Writes(tx'[p]) /\ Writes(tx'[o]))
               /\ backend = "sqlite" /\ home[p] = home[o] => tx'[p].pc = "idle" \/ tx'[o].pc = "idle"
    BY <1>3, IdleTx DEF TxInv, Exclusive
  <2> QED BY <2>1 DEF Exclusive, Holds, Writes, BeforeObject
<1>6. begun' \in 0 .. MaxTxs
  BY <1>1 DEF TxInv
<1> QED BY <1>2, <1>3, <1>4, <1>5, <1>6 DEF TxInv

\* No transactions, no rows.
LEMMA TxStart == TxInit => TxInv
<1> SUFFICES ASSUME TxInit PROVE TxInv
  OBVIOUS
<1>1. CommittedOK
  BY DEF TxInit, CommittedOK, NothingStray
<1>2. /\ DOMAIN tx = Session /\ tx = [s \in Session |-> tx[s]]
      /\ \A s \in Session : tx[s] = NoTx
      /\ begun = 0
  BY DEF TxInit
<1>3. begun \in 0 .. MaxTxs
  BY <1>2, MaxTxsAssumption
<1>4. ASSUME NEW s \in Session
      PROVE  /\ tx[s] \in Transaction /\ tx[s].no <= begun /\ InOrder(tx[s]) /\ Wrote(tx[s])
             /\ Covers(tx[s], committed) /\ Current(tx[s], committed, OneHome)
  BY <1>2, IdleTx
<1>5. Exclusive
  BY <1>2, IdleTx DEF Exclusive
<1> QED BY <1>1, <1>2, <1>3, <1>4, <1>5 DEF TxInv

\* Every step keeps the invariant.
LEMMA TxStep == TxInv /\ [TxNext]_<<txVars>> => TxInv'
<1> SUFFICES ASSUME TxInv, [TxNext]_<<txVars>> PROVE TxInv'
  OBVIOUS
<1>1. CASE UNCHANGED txVars
  <2>1. UNCHANGED <<backend, home, committed, tx, begun>>
    BY <1>1 DEF txVars
  <2>2. CommittedOK' /\ Exclusive' /\ OneHome' = OneHome
    BY <2>1 DEF TxInv, CommittedOK, NothingStray, Exclusive, Holds, Writes, BeforeObject, OneHome
  <2> QED BY <2>1, <2>2 DEF TxInv
<1>2. ASSUME NEW s \in Session, UNCHANGED <<backend, home>>, Rollback(s) PROVE TxInv'
  BY <1>2, EndKeeps DEF Rollback
<1>3. ASSUME NEW s \in Session, UNCHANGED <<backend, home>>, ReadTags(s) PROVE TxInv'
  BY <1>3, EndKeeps DEF ReadTags
<1>4. ASSUME NEW s \in Session, SessionStep(s) PROVE TxInv'
  BY <1>3, <1>4, UpsertKeeps, FindObjectKeeps, DropObjectKeeps, FindRowsKeeps, DropRowsKeeps,
     ReadObjectKeeps, CommitKeeps DEF SessionStep
<1> QED BY <1>1, <1>2, <1>4, BeginKeeps DEF TxNext

\* Every reachable state satisfies the inductive invariant.
LEMMA TxAlways == TxSpec => []TxInv
  BY TxStart, TxStep, PTL DEF TxSpec

\* Concurrent transactions never leave tags or edges of a row that is gone or
\* was written by another, on either backend.
THEOREM NothingStrays == TxSpec => []NothingStray
  BY TxAlways, PTL DEF TxInv, CommittedOK
-----------------------------------------------------------------------------
(***************************************************************************)
(* Functions as single steps.                                              *)
(***************************************************************************)

\* A record that commits is the record of RegistryAtomic, on either backend.
LEMMA RecordIsOneStep ==
    ASSUME TxInv, NEW s \in Session, Commit(s), tx[s].kind \in Records
    PROVE  Atomic!AtomicRecord(tx[s].no, tx[s].kind # "repair", tx[s].kind = "derive")
  BY WhatCommits DEF Atomic!AtomicRecord, Commit, Records

\* Only commits change what is committed.
LEMMA OthersCommitNothing ==
    ASSUME TxNext, committed' # committed
    PROVE  \E s \in Session : Commit(s)
  BY DEF TxNext, SessionStep, Begin, Rollback, Upsert, FindObject, DropObject, FindRows, DropRows,
         ReadObject, ReadTags

\* The action of RecordsAreAtomic, and that of ActsAtomically.
RecordStep ==
    \A s \in Session :
        Committing(s) /\ tx'[s] = NoTx /\ tx[s].kind \in Records =>
            Atomic!AtomicRecord(tx[s].no, tx[s].kind # "repair", tx[s].kind = "derive")

AtomicStep ==
    backend = "sqlite" =>
        [Atomic!AtomicNext]_(Atomic!atomicVars) \/ \E s \in Session : Overtaken(s)

\* Whoever's row is written in a step is the one whose transaction ends in it.
LEMMA RecordsStep == TxInv /\ [TxNext]_<<txVars>> => [RecordStep]_txVars
<1> SUFFICES ASSUME TxInv, TxNext, NEW s \in Session, Committing(s), tx'[s] = NoTx,
                    tx[s].kind \in Records
             PROVE  Atomic!AtomicRecord(tx[s].no, tx[s].kind # "repair", tx[s].kind = "derive")
  BY DEF RecordStep, txVars
<1>1. PICK o \in Session : Commit(o)
  BY OthersCommitNothing DEF Committing
<1>2. o = s
  <2>1. tx' = [tx EXCEPT ![o] = NoTx] /\ tx[s].pc = "run"
    BY <1>1 DEF Commit, Committing
  <2>2. tx[s] # NoTx
    BY <2>1, IdleTx
  <2> QED BY <2>1, <2>2 DEF TxInv
<1> QED BY <1>1, <1>2, RecordIsOneStep

\* On SQLite a delete that found no row finds none when it commits, and a get
\* that is not overtaken reads the tags of the row it found.
LEMMA SqliteStep == TxInv /\ [TxNext]_<<txVars>> => [AtomicStep]_txVars
<1> SUFFICES ASSUME TxInv, TxNext, backend = "sqlite"
             PROVE  \/ Atomic!AtomicNext \/ UNCHANGED Atomic!atomicVars
                    \/ \E s \in Session : Overtaken(s)
  BY DEF AtomicStep
<1>1. CASE committed' # committed
  <2>1. PICK s \in Session : Commit(s)
    BY <1>1, OthersCommitNothing
  <2>2. CASE tx[s].kind \in Records
    <3>1. tx[s].no \in 1 .. MaxTxs
      BY <2>1, WhatCommits
    <3> QED BY <2>1, <2>2, <3>1, RecordIsOneStep DEF Atomic!AtomicNext
  <2>3. CASE tx[s].kind = "delete"
    <3>1. /\ Current(tx[s], committed, OneHome) /\ tx[s].left = <<>> /\ answer' = answer
          /\ Wrote(tx[s]) /\ NothingStray
      BY <2>1 DEF TxInv, CommittedOK, Commit
    <3>2. Holds(tx[s]) \/ committed.object = NoObject
      BY <2>3, <3>1, Lists, RowsAreRows DEF Current, Holds
    <3>3. committed'.object = NoObject /\ committed'.tags = {} /\ committed'.edges = {}
      BY <2>1, <2>3, <3>1, <3>2, WhatCommits DEF NothingStray
    <3> QED BY <3>1, <3>3, RowsAreRows DEF Atomic!AtomicNext, Atomic!AtomicDelete
  <2> QED BY <2>1, <2>2, <2>3, WhatCommits DEF Records
<1>2. CASE committed' = committed
  <2>1. CASE answer' = answer
    BY <1>2, <2>1 DEF Atomic!atomicVars
  <2>2. CASE answer' # answer
    <3>1. PICK s \in Session : ReadTags(s)
      BY <2>2 DEF TxNext, SessionStep, Begin, Rollback, Upsert, FindObject, DropObject, FindRows,
                  DropRows, ReadObject, Commit
    <3>2. tx[s].left = Tags1
      <4>1. /\ tx[s] \in Transaction /\ tx[s].left # <<>> /\ Head(tx[s].left) = "tags"
            /\ tx[s].kind = "get" /\ tx[s].pc = "run" /\ InOrder(tx[s])
        BY <3>1 DEF TxInv, ReadTags, Running
      <4> QED BY <4>1, OneStatement, Lists DEF InOrder
    <3>3. OneHome => tx[s].found = {committed.object.by}
      BY <3>1, <3>2 DEF TxInv, Current, ReadTags
    <3>4. CASE tx[s].found = {committed.object.by}
      <4>1. answer' = [row |-> committed.object.by, tags |-> committed.tags]
        BY <3>1, <3>4 DEF ReadTags
      <4> QED BY <1>2, <4>1 DEF Atomic!AtomicNext, Atomic!AtomicGet
    <3>5. CASE tx[s].found # {committed.object.by}
      <4>1. \E o \in Session : home[o] # home[s]
        BY <3>3, <3>5 DEF OneHome
      <4> QED BY <3>1, <3>5, <4>1 DEF Overtaken
    <3> QED BY <3>4, <3>5
  <2> QED BY <2>1, <2>2
<1> QED BY <1>1, <1>2

\* A derive, an ingest or a repair commits as one step, on either backend:
\* its own row, tags and edges and nobody else's, whatever runs beside it.
THEOREM RecordsCommitWhole == TxSpec => RecordsAreAtomic
<1>1. TxSpec => [][RecordStep]_txVars
  BY TxAlways, RecordsStep, PTL DEF TxSpec
<1> QED BY <1>1 DEF RecordsAreAtomic, RecordStep

\* On SQLite the transactions implement RegistryAtomic, whichever processes
\* share the file: every function is one step to its callers, but for a
\* get_object that another process overtakes between its two reads.
THEOREM SqliteActsAtomically == TxSpec => ActsAtomically
<1>1. TxInit => Atomic!AtomicInit
  BY DEF TxInit, Atomic!AtomicInit, NoObject
<1>2. TxSpec => [][AtomicStep]_txVars
  BY TxAlways, SqliteStep, PTL DEF TxSpec
<1>3. TxSpec => Atomic!AtomicInit
  BY <1>1, PTL DEF TxSpec
<1> QED BY <1>2, <1>3 DEF ActsAtomically, AtomicStep
=============================================================================
