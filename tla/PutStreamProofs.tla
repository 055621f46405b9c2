---------------------------- MODULE PutStreamProofs ----------------------------
(***************************************************************************)
(* Proofs about uploads row by row (PutStream), for any set of uploads,    *)
(* any threshold and batch size, any length of stream and any number of    *)
(* forgets.  One inductive invariant, PutInv, carries all five properties. *)
(***************************************************************************)
EXTENDS PutStream, TLAPS

Pcs == {"new", "stream", "write", "create", "load", "append", "overwrite", "done", "failed"}
Writing == {"write", "create", "load", "append", "overwrite"}
UploadRec == [pc : Pcs, mode : Modes \cup {"none"}, received : Nat, buffered : Nat,
              commits : Nat, base : Nat, ended : BOOLEAN, alone : BOOLEAN]
Row == (Upload \cup {"old"}) \X Nat

TypeOK ==
    /\ table \in [version : Nat, rows : Seq(Row)]
    /\ versions \in Nat /\ forgets \in Nat
    /\ up \in [Upload -> UploadRec]

\* Rows that are counted and no longer buffered.
Flushed(c) == c.received - c.buffered

\* What the stage of an upload c says of its counters.
FlowOK(c) ==
    /\ c.pc = "new" => c.received = 0 /\ c.commits = 0 /\ c.mode = "none"
    /\ c.pc # "new" => c.mode \in Modes
    /\ c.buffered <= c.received
    /\ c.buffered < Threshold + MaxBatch
    /\ c.commits = 0 => c.buffered = c.received
    /\ c.commits > 0 /\ c.received < Threshold => c.pc = "done"
    /\ c.pc = "stream" => c.buffered < Threshold /\ ~c.ended
    /\ c.pc \in Writing => c.ended \/ c.buffered >= Threshold
    /\ c.pc = "done" => c.commits > 0 /\ c.buffered = 0
    /\ c.pc = "overwrite" => c.mode = "replace" /\ c.commits = 0
    /\ c.pc = "load" /\ c.mode = "create" => c.commits > 0

\* No table is version 0, and a version is handed out before it is used.
VersionsOK ==
    /\ table.version <= versions
    /\ table.version = 0 <=> ~Exists
    /\ \A u \in Upload : up[u].base <= versions

\* The first flush of a create or a replace that appends, appends to the empty
\* table it has made, if the table is still at that version.
FreshOK ==
    \A u \in Upload :
        up[u].pc = "append" /\ up[u].commits = 0 /\ up[u].mode # "append" =>
            up[u].base > 0 /\ (table.version = up[u].base => table.rows = <<>>)

\* An upload that is alone has nobody running next to it.
AloneOK ==
    \A u \in Upload :
        up[u].alone /\ up[u].pc # "new" => \A w \in Upload \ {u} : ~Running(w)

\* The table has no rows of an upload that has not flushed; all those of a
\* small one that has, or none.
SmallOK ==
    \A u \in Upload :
        /\ up[u].commits = 0 => ~HasRows(u)
        /\ up[u].received < Threshold /\ HasRows(u) => Holds(table.rows, u, up[u].received)

\* Without replaces and drops, the table has the rows that were flushed.
WholeOK ==
    forgets = 0 /\ (\A v \in Upload : up[v].mode # "replace") =>
        \A u \in Upload : Holds(table.rows, u, Flushed(up[u]))

\* A replace that is alone has the table to itself from its first flush on.
ReplaceOK ==
    \A u \in Upload :
        up[u].mode = "replace" /\ up[u].alone /\ forgets = 0 /\ up[u].commits > 0 =>
            /\ Exists
            /\ table.rows = [i \in 1 .. Flushed(up[u]) |-> <<u, i>>]

PutInv ==
    /\ TypeOK
    /\ \A u \in Upload : FlowOK(up[u])
    /\ VersionsOK
    /\ FreshOK
    /\ AloneOK
    /\ SmallOK
    /\ WholeOK
    /\ ReplaceOK
    /\ RetriesRepeatNothing
-----------------------------------------------------------------------------
\* Rows of nobody else, numbered from a row on: what a flush adds.
LEMMA ChunkIsRows ==
    ASSUME NEW u \in Upload, NEW n \in Nat, NEW m \in Nat
    PROVE  /\ [i \in 1 .. m |-> <<u, n + i>>] \in Seq(Row)
           /\ Len([i \in 1 .. m |-> <<u, n + i>>]) = m
  BY DEF Row

LEMMA RowsAfter ==
    ASSUME NEW s \in Seq(Row), NEW t \in Seq(Row)
    PROVE  /\ s \o t \in Seq(Row)
           /\ DOMAIN (s \o t) = 1 .. Len(s) + Len(t)
           /\ \A i \in DOMAIN s : (s \o t)[i] = s[i] /\ i \in 1 .. Len(s)
           /\ \A i \in DOMAIN (s \o t) \ DOMAIN s :
                  i - Len(s) \in DOMAIN t /\ (s \o t)[i] = t[i - Len(s)]
           /\ \A i \in DOMAIN t : i + Len(s) \in DOMAIN (s \o t) /\ (s \o t)[i + Len(s)] = t[i]
  OBVIOUS

\* To hold nothing of an upload is to have no row of it.
LEMMA HoldsNothing ==
    ASSUME NEW rows \in Seq(Row), NEW u
    PROVE  Holds(rows, u, 0) <=> ~ \E i \in DOMAIN rows : rows[i][1] = u
<1> DEFINE places == {i \in DOMAIN rows : rows[i][1] = u}
<1>1. 1 .. 0 = {}
  OBVIOUS
<1>2. ASSUME places = {} PROVE Holds(rows, u, 0)
  BY <1>1, <1>2 DEF Holds
<1>3. ASSUME Holds(rows, u, 0), NEW i \in places PROVE FALSE
  BY <1>1, <1>3 DEF Holds
<1> QED BY <1>2, <1>3

\* A flush of u's next m rows.
LEMMA HoldsMore ==
    ASSUME NEW rows \in Seq(Row), NEW u \in Upload, NEW n \in Nat, NEW m \in Nat,
           Holds(rows, u, n)
    PROVE  Holds(rows \o [i \in 1 .. m |-> <<u, n + i>>], u, n + m)
<1> DEFINE t == [i \in 1 .. m |-> <<u, n + i>>]
           all == rows \o t
           places == {i \in DOMAIN rows : rows[i][1] = u}
           after == {i \in DOMAIN all : all[i][1] = u}
<1>1. t \in Seq(Row) /\ Len(t) = m /\ DOMAIN t = 1 .. m /\ \A i \in 1 .. m : t[i] = <<u, n + i>>
  BY ChunkIsRows
<1> HIDE DEF t
<1>2. DOMAIN rows = 1 .. Len(rows) /\ Len(rows) \in Nat
  OBVIOUS
<1>3. \A i \in DOMAIN rows : all[i] = rows[i] /\ i \in DOMAIN all
  BY <1>1, <1>2, RowsAfter
<1>4. \A i \in DOMAIN all \ DOMAIN rows :
          i - Len(rows) \in 1 .. m /\ all[i] = <<u, n + (i - Len(rows))>>
  BY <1>1, <1>2, RowsAfter
<1>5. \A k \in 1 .. m : k + Len(rows) \in DOMAIN all /\ all[k + Len(rows)] = <<u, n + k>>
  BY <1>1, <1>2, RowsAfter
<1>6. {rows[i][2] : i \in places} = 1 .. n /\ \A i, j \in places : i < j => rows[i][2] < rows[j][2]
  BY DEF Holds
<1>7. DOMAIN all \subseteq Int
  BY <1>1, <1>2, RowsAfter
<1> HIDE DEF all
<1>8. {all[i][2] : i \in after} = 1 .. n + m
  <2>1. ASSUME NEW i \in after PROVE all[i][2] \in 1 .. n + m
    <3>1. CASE i \in DOMAIN rows
      BY <3>1, <1>3, <1>6
    <3>2. CASE i \notin DOMAIN rows
      BY <3>2, <1>4
    <3> QED BY <3>1, <3>2
  <2>2. ASSUME NEW k \in 1 .. n + m PROVE \E i \in after : all[i][2] = k
    <3>1. CASE k <= n
      <4>3. k \in 1 .. n
        BY <3>1
      <4>1. k \in {rows[i][2] : i \in places}
        BY <4>3, <1>6
      <4>2. PICK i \in places : rows[i][2] = k
        BY <4>1
      <4> QED BY <4>2, <1>3
    <3>2. CASE k > n
      <4>1. k - n \in 1 .. m
        BY <3>2
      <4>2. (k - n) + Len(rows) \in DOMAIN all /\ all[(k - n) + Len(rows)] = <<u, n + (k - n)>>
        BY <4>1, <1>5
      <4> QED BY <4>2
    <3> QED BY <3>1, <3>2
  <2> QED BY <2>1, <2>2
<1>9. ASSUME NEW i \in after, NEW j \in after, i < j PROVE all[i][2] < all[j][2]
  <2>1. CASE i \in DOMAIN rows /\ j \in DOMAIN rows
    BY <2>1, <1>3, <1>6, <1>9
  <2>2. CASE i \in DOMAIN rows /\ j \notin DOMAIN rows
    <3>1. all[i][2] \in 1 .. n
      BY <2>2, <1>3, <1>6
    <3>2. j - Len(rows) \in 1 .. m /\ all[j][2] = n + (j - Len(rows))
      BY <2>2, <1>4
    <3> QED BY <3>1, <3>2
  <2>3. CASE i \notin DOMAIN rows /\ j \in DOMAIN rows
    BY <2>3, <1>2, <1>4, <1>7, <1>9
  <2>4. CASE i \notin DOMAIN rows /\ j \notin DOMAIN rows
    BY <2>4, <1>2, <1>4, <1>7, <1>9
  <2> QED BY <2>1, <2>2, <2>3, <2>4
<1> QED BY <1>8, <1>9 DEF Holds, all, t

\* Rows of others change nothing.
LEMMA HoldsOfOthers ==
    ASSUME NEW rows \in Seq(Row), NEW more \in Seq(Row), NEW u, NEW n,
           \A i \in DOMAIN more : more[i][1] # u
    PROVE  /\ (\E i \in DOMAIN (rows \o more) : (rows \o more)[i][1] = u)
                <=> \E i \in DOMAIN rows : rows[i][1] = u
           /\ Holds(rows, u, n) => Holds(rows \o more, u, n)
<1> DEFINE all == rows \o more
           places == {i \in DOMAIN rows : rows[i][1] = u}
           after == {i \in DOMAIN all : all[i][1] = u}
<1>1. \A i \in DOMAIN rows : all[i] = rows[i] /\ i \in DOMAIN all
  BY RowsAfter
<1>2. \A i \in DOMAIN all \ DOMAIN rows : all[i][1] # u
  BY RowsAfter
<1> HIDE DEF all
<1>3. after = places
  BY <1>1, <1>2
<1>4. \A i \in places : all[i] = rows[i]
  BY <1>1
<1>5. {all[i][2] : i \in after} = {rows[i][2] : i \in places}
  BY <1>3, <1>4
<1>6. Holds(rows, u, n) => Holds(all, u, n)
  BY <1>3, <1>4, <1>5 DEF Holds
<1> QED BY <1>1, <1>2, <1>6 DEF all
-----------------------------------------------------------------------------
LEMMA Bounds == Threshold \in Nat /\ Threshold > 0 /\ MaxBatch \in Nat /\ MaxRows \in Nat
  BY ThresholdAssumption, BoundsAssumption

LEMMA InitInv == PutInit => PutInv
<1> SUFFICES ASSUME PutInit PROVE PutInv
  OBVIOUS
<1>1. \A u \in Upload : up[u] = Waiting
  BY DEF PutInit
<1>11. FlowOK(Waiting) /\ Flushed(Waiting) = 0
  BY Bounds DEF FlowOK, Flushed, Waiting, Writing
<1>2. <<>> \in Seq(Row) /\ <<<<"old", 1>>>> \in Seq(Row)
  BY DEF Row
<1>3. Waiting \in UploadRec
  BY DEF Waiting, UploadRec, Pcs
<1>4. TypeOK
  BY <1>2, <1>3 DEF PutInit, TypeOK, NoTable
<1>5. \A u \in Upload : FlowOK(up[u])
  BY <1>1, <1>11
<1>6. VersionsOK
  BY <1>1 DEF PutInit, VersionsOK, Exists, NoTable, Waiting
<1>7. FreshOK /\ AloneOK /\ ReplaceOK
  BY <1>1 DEF FreshOK, AloneOK, ReplaceOK, Waiting
<1>8. \A u \in Upload : ~HasRows(u)
  <2>1. table.rows = <<>> \/ table.rows = <<<<"old", 1>>>>
    BY DEF PutInit, NoTable
  <2>2. \A i \in DOMAIN <<<<"old", 1>>>> : <<<<"old", 1>>>>[i][1] = "old"
    OBVIOUS
  <2>3. DOMAIN <<>> = {}
    OBVIOUS
  <2> QED BY <2>1, <2>2, <2>3, UploadAssumption DEF HasRows
<1>9. \A u \in Upload : Holds(table.rows, u, 0)
  BY <1>8, <1>4, HoldsNothing DEF HasRows, TypeOK
<1>10. \A u \in Upload : Flushed(up[u]) = 0
  BY <1>1, <1>11
<1> QED BY <1>4, <1>5, <1>6, <1>7, <1>8, <1>9, <1>10
        DEF PutInv, SmallOK, WholeOK, RetriesRepeatNothing

\* A step of one upload on its own counters: it flushes nothing, and comes to
\* append to a table that is there only with an append or with a later flush.
OwnStep(u, d) ==
    /\ up' = [up EXCEPT ![u] = d]
    /\ d \in UploadRec /\ FlowOK(d) /\ d.pc # "new"
    /\ up[u].pc \notin {"new", "done", "failed"}
    /\ d.mode = up[u].mode /\ d.alone = up[u].alone /\ d.commits = up[u].commits
    /\ d.received >= up[u].received /\ Flushed(d) = Flushed(up[u])
    /\ d.base <= versions
    /\ d.pc = "append" => d.commits > 0 \/ d.mode = "append"
    /\ UNCHANGED <<table, versions, forgets>>

LEMMA OwnStepKeeps ==
    ASSUME PutInv, NEW u \in Upload, NEW d, OwnStep(u, d)
    PROVE  PutInv'
<1> USE DEF OwnStep
<1>1. \A v \in Upload : up'[v] = IF v = u THEN d ELSE up[v]
  BY DEF PutInv, TypeOK
<1>2. TypeOK'
  BY DEF PutInv, TypeOK
<1>3. \A v \in Upload : FlowOK(up'[v])
  BY <1>1 DEF PutInv
<1>4. VersionsOK'
  BY <1>1 DEF PutInv, VersionsOK, Exists, NoTable
<1>5. FreshOK'
  BY <1>1 DEF PutInv, FreshOK, TypeOK, UploadRec
<1>6. AloneOK'
  BY <1>1 DEF PutInv, AloneOK, Running
<1>7. \A v \in Upload : HasRows(v)' <=> HasRows(v)
  BY DEF HasRows
<1>8. up[u] \in UploadRec /\ Threshold \in Nat
  BY ThresholdAssumption DEF PutInv, TypeOK
<1>9. up[u].commits > 0 => ~(up[u].received < Threshold)
  BY DEF PutInv, FlowOK
<1>10. SmallOK'
  <2>1. up[u].commits = 0 => ~HasRows(u)
    BY DEF PutInv, SmallOK
  <2>2. d.received < Threshold => ~HasRows(u)
    BY <1>8, <1>9, <2>1 DEF UploadRec
  <2> QED BY <1>1, <1>7, <2>1, <2>2 DEF PutInv, SmallOK
<1>11. WholeOK'
  BY <1>1 DEF PutInv, WholeOK
<1>12. ReplaceOK'
  <2>1. ASSUME NEW v \in Upload, up'[v].mode = "replace", up'[v].alone, forgets' = 0,
               up'[v].commits > 0
        PROVE  Exists' /\ table'.rows = [i \in 1 .. Flushed(up'[v]) |-> <<v, i>>]
    <3>1. /\ up[v].mode = "replace" /\ up[v].alone /\ forgets = 0 /\ up[v].commits > 0
          /\ Flushed(up'[v]) = Flushed(up[v])
      BY <1>1, <2>1
    <3>2. Exists /\ table.rows = [i \in 1 .. Flushed(up[v]) |-> <<v, i>>]
      BY <3>1 DEF PutInv, ReplaceOK
    <3> HIDE DEF OwnStep
    <3>3. table' = table
      BY DEF OwnStep
    <3> QED BY <3>1, <3>2, <3>3 DEF Exists, NoTable
  <2> QED BY <2>1 DEF ReplaceOK
<1>13. RetriesRepeatNothing'
  BY <1>1, <1>7, <1>8 DEF PutInv, RetriesRepeatNothing, UploadRec
<1> QED BY <1>2, <1>3, <1>4, <1>5, <1>6, <1>10, <1>11, <1>12, <1>13 DEF PutInv

LEMMA StartKeeps ==
    ASSUME PutInv, NEW u \in Upload, Start(u)
    PROVE  PutInv'
<1>1. PICK mode \in Modes :
         up' = [v \in Upload |->
                  IF v = u THEN [Waiting EXCEPT !.pc = "stream", !.mode = mode,
                                                !.alone = \A w \in Upload : ~Running(w)]
                  ELSE [up[v] EXCEPT !.alone = FALSE]]
  BY DEF Start
<1> DEFINE d == up'[u]
<1>2. /\ d \in UploadRec
      /\ d.pc = "stream" /\ d.mode = mode /\ d.received = 0 /\ d.buffered = 0
      /\ d.commits = 0 /\ d.base = 0 /\ d.ended = FALSE
      /\ d.alone = (\A w \in Upload : ~Running(w))
  <2> DEFINE a == \A w \in Upload : ~Running(w)
  <2>1. a \in BOOLEAN
    OBVIOUS
  <2> HIDE DEF a
  <2>2. d = [Waiting EXCEPT !.pc = "stream", !.mode = mode, !.alone = a]
    BY <1>1 DEF a
  <2>3. d = [pc |-> "stream", mode |-> mode, received |-> 0, buffered |-> 0, commits |-> 0,
             base |-> 0, ended |-> FALSE, alone |-> a]
    BY <2>2 DEF Waiting
  <2> QED BY <2>1, <2>3 DEF UploadRec, Pcs, a
<1>3. \A v \in Upload \ {u} :
          /\ up'[v] \in UploadRec
          /\ up'[v].pc = up[v].pc /\ up'[v].mode = up[v].mode
          /\ up'[v].received = up[v].received /\ up'[v].buffered = up[v].buffered
          /\ up'[v].commits = up[v].commits /\ up'[v].base = up[v].base
          /\ up'[v].ended = up[v].ended /\ up'[v].alone = FALSE
  <2> SUFFICES ASSUME NEW v \in Upload \ {u}
               PROVE  /\ up'[v] \in UploadRec
                      /\ up'[v].pc = up[v].pc /\ up'[v].mode = up[v].mode
                      /\ up'[v].received = up[v].received /\ up'[v].buffered = up[v].buffered
                      /\ up'[v].commits = up[v].commits /\ up'[v].base = up[v].base
                      /\ up'[v].ended = up[v].ended /\ up'[v].alone = FALSE
    OBVIOUS
  <2>1. up[v] \in UploadRec
    BY DEF PutInv, TypeOK
  <2>2. up'[v] = [up[v] EXCEPT !.alone = FALSE]
    BY <1>1
  <2> QED BY <2>1, <2>2 DEF UploadRec
<1>4. up[u].commits = 0 /\ up[u].received = 0 /\ up[u].pc = "new"
  BY DEF PutInv, FlowOK, Start
<1>5. UNCHANGED <<table, versions, forgets>>
  BY DEF Start
<1>6. DOMAIN up' = Upload /\ up' = [v \in Upload |-> up'[v]]
  BY <1>1
<1>7. TypeOK'
  <2>1. \A v \in Upload : up'[v] \in UploadRec
    BY <1>2, <1>3
  <2> QED BY <1>5, <1>6, <2>1 DEF PutInv, TypeOK
<1>8. \A v \in Upload : FlowOK(up'[v])
  <2>1. FlowOK(up'[u])
    BY <1>2, ThresholdAssumption, BoundsAssumption DEF FlowOK, Writing
  <2>2. ASSUME NEW v \in Upload \ {u} PROVE FlowOK(up'[v])
    BY <1>3 DEF PutInv, FlowOK
  <2> QED BY <2>1, <2>2
<1>9. VersionsOK'
  BY <1>2, <1>3, <1>5 DEF PutInv, TypeOK, VersionsOK, Exists, NoTable
<1>10. FreshOK'
  BY <1>2, <1>3, <1>5 DEF PutInv, FreshOK
<1>11. AloneOK'
  BY <1>2, <1>3 DEF AloneOK, Running
<1>12. \A v \in Upload : HasRows(v)' <=> HasRows(v)
  BY <1>5 DEF HasRows
<1>13. SmallOK'
  <2>1. ~HasRows(u)
    BY <1>4 DEF PutInv, SmallOK
  <2> QED BY <1>2, <1>3, <1>5, <1>12, <2>1 DEF PutInv, SmallOK
<1>14. WholeOK'
  <2>1. Holds(table.rows, u, 0)
    BY <1>4, HoldsNothing DEF PutInv, SmallOK, TypeOK, HasRows
  <2>2. Flushed(up'[u]) = 0 /\ \A v \in Upload \ {u} : Flushed(up'[v]) = Flushed(up[v])
    BY <1>2, <1>3 DEF Flushed
  <2>3. up[u].mode = "none"
    BY DEF PutInv, FlowOK, Start
  <2>4. (\A v \in Upload : up'[v].mode # "replace") => \A v \in Upload : up[v].mode # "replace"
    BY <1>3, <2>3
  <2> QED BY <1>5, <2>1, <2>2, <2>4 DEF PutInv, WholeOK
<1>15. ReplaceOK'
  BY <1>2, <1>3 DEF ReplaceOK
<1>16. RetriesRepeatNothing'
  <2>1. up[u].mode = "none" /\ up[u].received < Threshold
    BY <1>4, ThresholdAssumption DEF PutInv, FlowOK
  <2>2. (\A v \in Upload : up'[v].mode # "append" /\ up'[v].received < Threshold)
            => \A v \in Upload : up[v].mode # "append" /\ up[v].received < Threshold
    BY <1>3, <2>1
  <2> QED BY <1>12, <2>2 DEF PutInv, RetriesRepeatNothing
<1> QED BY <1>7, <1>8, <1>9, <1>10, <1>11, <1>13, <1>14, <1>15, <1>16, SMTT(30) DEF PutInv
-----------------------------------------------------------------------------
\* What is known of an upload's counters.
LEMMA Counters ==
    ASSUME PutInv, NEW u \in Upload
    PROVE  /\ up[u] \in UploadRec /\ FlowOK(up[u]) /\ up[u].base <= versions
           /\ up[u].received \in Nat /\ up[u].buffered \in Nat /\ up[u].commits \in Nat
           /\ up[u].base \in Nat /\ up[u].ended \in BOOLEAN
  BY DEF PutInv, TypeOK, UploadRec, VersionsOK

LEMMA TableFacts ==
    ASSUME PutInv
    PROVE  /\ versions \in Nat /\ forgets \in Nat
           /\ table.version \in Nat /\ table.rows \in Seq(Row)
           /\ table = [version |-> table.version, rows |-> table.rows]
           /\ table.version <= versions /\ (table.version = 0 <=> ~Exists)
  BY DEF PutInv, TypeOK, VersionsOK

LEMMA ReceiveKeeps ==
    ASSUME PutInv, NEW u \in Upload, Receive(u)
    PROVE  PutInv'
<1>1. PICK n \in 1 .. MaxBatch :
         /\ up[u].pc = "stream"
         /\ up[u].received + n <= MaxRows
         /\ up' = [up EXCEPT ![u].received = @ + n, ![u].buffered = @ + n,
                             ![u].pc = IF FlushDue(up[u].buffered + n) THEN "write" ELSE "stream"]
         /\ UNCHANGED <<table, versions, forgets>>
  BY DEF Receive
<1>2. PICK pc \in {"write", "stream"} : pc = IF FlushDue(up[u].buffered + n) THEN "write" ELSE "stream"
  OBVIOUS
<1>3. PICK d : d = [up[u] EXCEPT !.received = @ + n, !.buffered = @ + n, !.pc = pc]
  OBVIOUS
<1>4. up' = [up EXCEPT ![u] = d]
  BY <1>1, <1>2, <1>3
<1>6. n \in Nat /\ n <= MaxBatch /\ n > 0
  BY <1>1, Bounds
<1>5. /\ d.pc = pc /\ d.received = up[u].received + n /\ d.buffered = up[u].buffered + n
      /\ d.mode = up[u].mode /\ d.alone = up[u].alone /\ d.commits = up[u].commits
      /\ d.base = up[u].base /\ d.ended = up[u].ended
      /\ d \in UploadRec
  <2>1. up[u] \in UploadRec /\ pc \in Pcs
    BY <1>2, Counters DEF Pcs
  <2>2. up[u].received + n \in Nat /\ up[u].buffered + n \in Nat
    BY <1>6, Counters
  <2> QED BY ONLY <1>3, <2>1, <2>2 DEF UploadRec
<1>11. /\ up[u].buffered \in Nat /\ up[u].received \in Nat /\ up[u].commits \in Nat
       /\ FlowOK(up[u]) /\ up[u].base <= versions
  BY Counters
<1>7. /\ pc = "stream" => d.buffered < Threshold
      /\ pc = "write" => d.buffered >= Threshold
  BY <1>2, <1>5, <1>6, <1>11, Bounds DEF FlushDue
<1>8. FlowOK(d)
  BY <1>1, <1>5, <1>6, <1>7, <1>11, Bounds DEF FlowOK, Writing
<1>9. Flushed(d) = Flushed(up[u])
  BY <1>5, <1>6, Counters DEF Flushed
<1>12. d.received >= up[u].received
  BY <1>5, <1>6, <1>11
<1>10. OwnStep(u, d)
  BY <1>1, <1>4, <1>5, <1>8, <1>9, <1>11, <1>12 DEF OwnStep
<1> QED BY <1>10, OwnStepKeeps

\* A step that changes only the stage and what was seen.
LEMMA StageKeeps ==
    ASSUME PutInv, NEW u \in Upload, NEW pc \in Pcs \ {"new"}, NEW base \in Nat, NEW ended \in BOOLEAN,
           up[u].pc \notin {"new", "done", "failed"},
           up' = [up EXCEPT ![u].pc = pc, ![u].base = base, ![u].ended = ended],
           UNCHANGED <<table, versions, forgets>>,
           base <= versions,
           pc = "append" => up[u].commits > 0 \/ up[u].mode = "append",
           pc = "stream" => up[u].buffered < Threshold /\ ~ended,
           pc \in Writing => ended \/ up[u].buffered >= Threshold,
           pc = "done" => up[u].commits > 0 /\ up[u].buffered = 0,
           pc = "overwrite" => up[u].mode = "replace" /\ up[u].commits = 0,
           pc = "load" /\ up[u].mode = "create" => up[u].commits > 0
    PROVE  PutInv'
<1>1. PICK d : d = [up[u] EXCEPT !.pc = pc, !.base = base, !.ended = ended]
  OBVIOUS
<1>2. up' = [up EXCEPT ![u] = d]
  BY <1>1
<1>3. /\ d.pc = pc /\ d.received = up[u].received /\ d.buffered = up[u].buffered
      /\ d.mode = up[u].mode /\ d.alone = up[u].alone /\ d.commits = up[u].commits
      /\ d.base = base /\ d.ended = ended
      /\ d \in UploadRec
  BY <1>1, Counters DEF UploadRec, Pcs
<1>4. FlowOK(d)
  BY <1>3, Counters, Bounds DEF FlowOK, Writing
<1>5. Flushed(d) = Flushed(up[u])
  BY <1>3 DEF Flushed
<1>6. d.received >= up[u].received
  BY <1>3, Counters
<1>7. OwnStep(u, d)
  BY <1>2, <1>3, <1>4, <1>5, <1>6 DEF OwnStep
<1> QED BY <1>7, OwnStepKeeps

LEMMA EndKeeps ==
    ASSUME PutInv, NEW u \in Upload, EndOfStream(u)
    PROVE  PutInv'
<1>1. PICK pc \in {"write", "done"} :
         /\ pc = IF up[u].buffered > 0 \/ up[u].commits = 0 THEN "write" ELSE "done"
         /\ up' = [up EXCEPT ![u].ended = TRUE, ![u].pc = pc]
  BY DEF EndOfStream
<1>2. up' = [up EXCEPT ![u].pc = pc, ![u].base = up[u].base, ![u].ended = TRUE]
  <2>1. up[u] = [up[u] EXCEPT !.base = @]
    BY Counters DEF UploadRec
  <2>2. [up[u] EXCEPT !.ended = TRUE, !.pc = pc]
            = [up[u] EXCEPT !.pc = pc, !.base = up[u].base, !.ended = TRUE]
    BY Counters DEF UploadRec
  <2> QED BY <1>1, <2>2
<1>3. pc = "done" => up[u].commits > 0 /\ up[u].buffered = 0
  BY <1>1, Counters
<1>4. pc \in Pcs \ {"new"} /\ pc # "append" /\ pc # "stream" /\ pc # "overwrite" /\ pc # "load"
  BY <1>1 DEF Pcs
<1>5. up[u].pc \notin {"new", "done", "failed"} /\ UNCHANGED <<table, versions, forgets>>
  BY DEF EndOfStream
<1>6. up[u].base \in Nat /\ up[u].base <= versions
  BY Counters
<1> QED BY ONLY <1>2, <1>3, <1>4, <1>5, <1>6, StageKeeps, PutInv, u \in Upload

LEMMA LookKeeps ==
    ASSUME PutInv, NEW u \in Upload, Look(u)
    PROVE  PutInv'
<1>1. PICK pc \in {"create", "failed", "load"} :
         /\ pc = IF ~Exists THEN "create" ELSE IF FlushMode(u) = "create" THEN "failed" ELSE "load"
         /\ up' = [up EXCEPT ![u].pc = pc]
  BY DEF Look
<1>2. up' = [up EXCEPT ![u].pc = pc, ![u].base = up[u].base, ![u].ended = up[u].ended]
  <2>1. [up[u] EXCEPT !.pc = pc]
            = [up[u] EXCEPT !.pc = pc, !.base = up[u].base, !.ended = up[u].ended]
    BY Counters DEF UploadRec
  <2> QED BY <1>1, <2>1
<1>3. pc = "load" /\ up[u].mode = "create" => up[u].commits > 0
  BY <1>1, Counters DEF FlushMode
<1>4. up[u].ended \/ up[u].buffered >= Threshold
  BY Counters DEF FlowOK, Writing, Look
<1>5. up[u].ended \in BOOLEAN
  BY Counters DEF UploadRec
<1>6. /\ pc \in Pcs \ {"new"}
      /\ pc # "append" /\ pc # "stream" /\ pc # "overwrite" /\ pc # "done"
  BY <1>1 DEF Pcs
<1>7. up[u].pc \notin {"new", "done", "failed"} /\ UNCHANGED <<table, versions, forgets>>
  BY DEF Look
<1>8. up[u].base \in Nat /\ up[u].base <= versions
  BY Counters
<1> QED BY ONLY <1>2, <1>3, <1>4, <1>5, <1>6, <1>7, <1>8, StageKeeps, PutInv, u \in Upload

LEMMA LoadKeeps ==
    ASSUME PutInv, NEW u \in Upload, Load(u)
    PROVE  PutInv'
<1>1. PICK pc \in {"overwrite", "append"} :
         /\ pc = IF FlushMode(u) = "replace" THEN "overwrite" ELSE "append"
         /\ up' = [up EXCEPT ![u].base = table.version, ![u].pc = pc]
  BY DEF Load
<1>2. up' = [up EXCEPT ![u].pc = pc, ![u].base = table.version, ![u].ended = up[u].ended]
  <2>1. [up[u] EXCEPT !.base = table.version, !.pc = pc]
            = [up[u] EXCEPT !.pc = pc, !.base = table.version, !.ended = up[u].ended]
    BY Counters DEF UploadRec
  <2> QED BY <1>1, <2>1
<1>3. up[u].mode = "create" => up[u].commits > 0
  BY Counters DEF FlowOK, Load
<1>4. pc = "overwrite" => up[u].mode = "replace" /\ up[u].commits = 0
  BY <1>1, Counters DEF FlushMode
<1>5. up[u].mode \in {"none", "create", "replace", "append"}
  BY Counters, ModesAssumption DEF UploadRec
<1>6. pc = "append" => up[u].commits > 0 \/ up[u].mode = "append"
  <2>1. up[u].mode # "none"
    BY Counters, ModesAssumption DEF FlowOK, Load
  <2> QED BY <1>1, <1>3, <1>5, <2>1, Counters DEF FlushMode
<1>7. up[u].ended \/ up[u].buffered >= Threshold
  BY Counters DEF FlowOK, Writing, Load
<1>8. up[u].ended \in BOOLEAN
  BY Counters DEF UploadRec
<1>9. pc \in Pcs \ {"new"} /\ pc # "stream" /\ pc # "load" /\ pc # "done"
  BY <1>1 DEF Pcs
<1>10. up[u].pc \notin {"new", "done", "failed"} /\ UNCHANGED <<table, versions, forgets>>
  BY DEF Load
<1>11. table.version \in Nat /\ table.version <= versions
  BY TableFacts
<1> QED BY ONLY <1>2, <1>4, <1>6, <1>7, <1>8, <1>9, <1>10, <1>11, StageKeeps, PutInv, u \in Upload

LEMMA FailKeeps ==
    ASSUME PutInv, NEW u \in Upload,
           up[u].pc \notin {"new", "done", "failed"},
           up' = [up EXCEPT ![u].pc = "failed"], UNCHANGED <<table, versions, forgets>>
    PROVE  PutInv'
<1>1. up' = [up EXCEPT ![u].pc = "failed", ![u].base = up[u].base, ![u].ended = up[u].ended]
  <2>1. [up[u] EXCEPT !.pc = "failed"]
            = [up[u] EXCEPT !.pc = "failed", !.base = up[u].base, !.ended = up[u].ended]
    BY Counters DEF UploadRec
  <2> QED BY <2>1
<1>2. up[u].ended \in BOOLEAN
  BY Counters DEF UploadRec
<1>3. "failed" \notin Writing /\ "failed" \in Pcs \ {"new"}
  BY DEF Writing, Pcs
<1> QED BY <1>1, <1>2, <1>3, StageKeeps, Counters

LEMMA CreateKeeps ==
    ASSUME PutInv, NEW u \in Upload, Create(u)
    PROVE  PutInv'
<1>1. CASE Exists
  <2>1. up[u].pc \notin {"new", "done", "failed"}
    BY DEF Create
  <2>2. up' = [up EXCEPT ![u].pc = "failed"] /\ UNCHANGED <<table, versions, forgets>>
    BY <1>1 DEF Create
  <2> QED BY <2>1, <2>2, FailKeeps
<1>2. CASE ~Exists
  <2> DEFINE c == up[u]
  <2>1. PICK d : d = [c EXCEPT !.pc = "append", !.base = versions + 1]
    OBVIOUS
  <2>2. /\ table.rows = <<>>
        /\ table' = [version |-> versions + 1, rows |-> <<>>] /\ versions' = versions + 1
        /\ table'.version = versions + 1 /\ table'.rows = <<>>
        /\ up' = [up EXCEPT ![u] = d] /\ forgets' = forgets /\ c.pc = "create"
    <3>1. table = NoTable
      BY <1>2 DEF Exists
    <3>2. table.rows = <<>>
      BY <3>1 DEF NoTable
    <3>3. /\ versions' = versions + 1 /\ table' = [version |-> versions + 1, rows |-> <<>>]
          /\ up' = [up EXCEPT ![u].pc = "append", ![u].base = versions + 1]
          /\ forgets' = forgets /\ c.pc = "create"
      BY <1>2 DEF Create, Install
    <3> QED BY <2>1, <3>2, <3>3
  <2>3. /\ d.pc = "append" /\ d.received = c.received /\ d.buffered = c.buffered
        /\ d.mode = c.mode /\ d.alone = c.alone /\ d.commits = c.commits
        /\ d.base = versions + 1 /\ d.ended = c.ended
        /\ d \in UploadRec
    <3>1. "append" \in Pcs /\ versions + 1 \in Nat /\ c \in UploadRec
      BY Counters, TableFacts DEF Pcs
    <3> HIDE DEF c
    <3> QED BY ONLY <2>1, <3>1 DEF UploadRec
  <2>4. \A v \in Upload : up'[v] = IF v = u THEN d ELSE up[v]
    BY <2>2 DEF PutInv, TypeOK
  <2>5. FlowOK(d)
    BY <2>2, <2>3, Counters DEF FlowOK, Writing
  <2>6. versions \in Nat /\ \A v \in Upload : up[v].base <= versions /\ up[v].base \in Nat
    BY Counters, TableFacts
  <2>7. table'.rows = table.rows
    BY <2>2
  <2>8. TypeOK'
    BY <2>2, <2>3, <2>6 DEF PutInv, TypeOK
  <2>9. \A v \in Upload : FlowOK(up'[v])
    BY <2>4, <2>5 DEF PutInv
  <2>10. VersionsOK'
    BY <2>2, <2>3, <2>4, <2>6 DEF VersionsOK, Exists, NoTable
  <2>11. FreshOK'
    <3>1. \A v \in Upload \ {u} : up'[v] = up[v]
      BY <2>4
    <3>2. up'[u].base > 0
      BY <2>3, <2>4, <2>6
    <3> QED BY <2>2, <3>1, <3>2 DEF PutInv, FreshOK
  <2>12. AloneOK'
    BY <2>2, <2>3, <2>4 DEF PutInv, AloneOK, Running
  <2>13. \A v \in Upload : HasRows(v)' <=> HasRows(v)
    BY <2>7 DEF HasRows
  <2>14. SmallOK'
    BY <2>3, <2>4, <2>7, <2>13 DEF PutInv, SmallOK
  <2>15. Flushed(d) = Flushed(c)
    BY <2>3 DEF Flushed
  <2>16. WholeOK'
    BY <2>2, <2>3, <2>4, <2>7, <2>15 DEF PutInv, WholeOK
  <2>17. ReplaceOK'
    BY <1>2, <2>2, <2>3, <2>4 DEF PutInv, ReplaceOK
  <2>18. RetriesRepeatNothing'
    BY <2>3, <2>4, <2>13 DEF PutInv, RetriesRepeatNothing
  <2> QED BY <2>8, <2>9, <2>10, <2>11, <2>12, <2>14, <2>16, <2>17, <2>18 DEF PutInv
<1> QED BY <1>1, <1>2

LEMMA ChunksJoin ==
    ASSUME NEW u \in Upload, NEW n \in Nat, NEW m \in Nat
    PROVE  [i \in 1 .. n |-> <<u, i>>] \o [i \in 1 .. m |-> <<u, n + i>>]
               = [i \in 1 .. n + m |-> <<u, i>>]
<1> DEFINE s == [i \in 1 .. n |-> <<u, i>>]
           t == [i \in 1 .. m |-> <<u, n + i>>]
<1>1. s \in Seq(Row) /\ Len(s) = n /\ t \in Seq(Row) /\ Len(t) = m
  BY ChunkIsRows DEF Row
<1>2. /\ \A i \in 1 .. n : s[i] = <<u, i>>
      /\ \A i \in 1 .. m : t[i] = <<u, n + i>>
  OBVIOUS
<1> HIDE DEF s, t
<1>3. s \o t \in Seq(Row) /\ Len(s \o t) = n + m
  BY <1>1
<1>4. \A i \in 1 .. n + m : (s \o t)[i] = <<u, i>>
  <2> SUFFICES ASSUME NEW i \in 1 .. n + m PROVE (s \o t)[i] = <<u, i>>
    OBVIOUS
  <2>1. CASE i <= n
    BY <1>1, <1>2, <2>1
  <2>2. CASE i > n
    <3>1. i - n \in 1 .. m /\ n + (i - n) = i
      BY <2>2
    <3>2. (s \o t)[i] = t[i - n]
      BY <1>1, <2>2
    <3> QED BY <1>2, <3>1, <3>2
  <2>3. i <= n \/ i > n
    OBVIOUS
  <2> QED BY ONLY <2>1, <2>2, <2>3
<1> DEFINE st == s \o t
<1>5. st = [i \in 1 .. n + m |-> st[i]]
  <2> HIDE DEF st
  <2>1. st \in Seq(Row) /\ Len(st) = n + m
    BY <1>3 DEF st
  <2> QED BY <2>1
<1> QED BY <1>4, <1>5 DEF s, t

LEMMA CommitKeeps ==
    ASSUME PutInv, NEW u \in Upload, CommitChunk(u)
    PROVE  PutInv'
<1> DEFINE c == up[u]
           n == Flushed(c)
           m == c.buffered
           t == [i \in 1 .. m |-> <<u, n + i>>]
           b == IF c.pc = "append" THEN table.rows ELSE <<>>
<1>1. CASE table.version # c.base
  <2>1. up[u].pc \notin {"new", "done", "failed"}
    BY DEF CommitChunk
  <2>2. up' = [up EXCEPT ![u].pc = "failed"] /\ UNCHANGED <<table, versions, forgets>>
    BY <1>1 DEF CommitChunk
  <2> QED BY <2>1, <2>2, FailKeeps
<1>2. CASE table.version = c.base
  <2>1. PICK pc \in {"done", "stream"} : pc = IF c.ended THEN "done" ELSE "stream"
    OBVIOUS
  <2>2. PICK d : d = [c EXCEPT !.commits = @ + 1, !.buffered = 0, !.pc = pc]
    OBVIOUS
  <2>3. /\ table' = [version |-> versions + 1, rows |-> b \o Chunk(u)]
        /\ versions' = versions + 1 /\ forgets' = forgets /\ c.pc \in {"append", "overwrite"}
        /\ up' = [up EXCEPT ![u] = d]
    BY <1>2, <2>1, <2>2 DEF CommitChunk, Install
  <2>4. /\ c \in UploadRec /\ FlowOK(c) /\ c.received \in Nat /\ m \in Nat /\ c.commits \in Nat
        /\ n \in Nat /\ n + m = c.received
    <3>1. /\ c \in UploadRec /\ FlowOK(c) /\ c.received \in Nat /\ m \in Nat /\ c.commits \in Nat
          /\ m <= c.received
      BY Counters DEF FlowOK
    <3> QED BY <3>1 DEF Flushed
  <2>5. /\ d.pc = pc /\ d.received = c.received /\ d.buffered = 0
        /\ d.mode = c.mode /\ d.alone = c.alone /\ d.commits = c.commits + 1
        /\ d.base = c.base /\ d.ended = c.ended
        /\ d \in UploadRec
    <3>1. pc \in Pcs /\ c.commits + 1 \in Nat
      BY <2>1, <2>4 DEF Pcs
    <3> HIDE DEF c
    <3> QED BY ONLY <2>2, <2>4, <3>1, 0 \in Nat DEF UploadRec
  <2>6. \A v \in Upload : up'[v] = IF v = u THEN d ELSE up[v]
    BY <2>3 DEF PutInv, TypeOK
  <2>7. /\ table.rows \in Seq(Row) /\ versions \in Nat /\ table.version \in Nat
        /\ \A v \in Upload : up[v].base <= versions /\ up[v].base \in Nat
    BY Counters, TableFacts
  <2>8. t \in Seq(Row) /\ Len(t) = m /\ \A i \in DOMAIN t : t[i][1] = u
    BY <2>4, ChunkIsRows
  <2>9. Chunk(u) = t
    BY DEF Chunk, Flushed
  <2>10. b \in Seq(Row) /\ (b = table.rows \/ b = <<>>)
    BY <2>7
  <2>11. table'.rows = b \o t /\ table'.version = versions + 1
    BY <2>3, <2>9
  <2>12. b \o t \in Seq(Row)
    BY <2>8, <2>10, RowsAfter
  <2>13. c.commits = 0 => n = 0 /\ m = c.received
    BY <2>4 DEF FlowOK, Flushed
  <2>14. c.pc = "append" /\ c.commits = 0 /\ c.mode # "append" => b = <<>>
    BY <1>2 DEF PutInv, FreshOK
  <2>15. c.pc # "append" => c.pc = "overwrite" /\ c.mode = "replace" /\ c.commits = 0 /\ b = <<>>
    BY <2>3, <2>4 DEF FlowOK
  <2>16. c.received < Threshold => c.commits = 0
    BY <2>3, <2>4, Bounds DEF FlowOK
  <2>17. \A v \in Upload \ {u} : HasRows(v)' => HasRows(v) /\ b = table.rows
    <3> SUFFICES ASSUME NEW v \in Upload \ {u}, HasRows(v)'
                 PROVE  HasRows(v) /\ b = table.rows
      OBVIOUS
    <3>1. \E i \in DOMAIN (b \o t) : (b \o t)[i][1] = v
      BY <2>11 DEF HasRows
    <3>2. \A i \in DOMAIN t : t[i][1] # v
      BY <2>8
    <3> HIDE DEF b, t
    <3>3. \E i \in DOMAIN b : b[i][1] = v
      BY <2>8, <2>10, <3>1, <3>2, HoldsOfOthers
    <3>4. b # <<>>
      BY <3>3
    <3> QED BY <2>10, <3>3, <3>4 DEF HasRows
  <2>18. \A v \in Upload \ {u} : \A k : Holds(b, v, k) => Holds(b \o t, v, k)
    <3> HIDE DEF b, t
    <3> QED BY <2>8, <2>10, HoldsOfOthers
  <2>19. Holds(b, u, n) => Holds(b \o t, u, c.received)
    BY <2>4, <2>10, HoldsMore
  <2> HIDE DEF b, t
  <2>20. TypeOK'
    BY <2>3, <2>5, <2>7, <2>11, <2>12, <2>9 DEF PutInv, TypeOK
  <2>21. \A v \in Upload : FlowOK(up'[v])
    <3>1. c.pc \in Writing /\ c.mode \in Modes
      BY <2>3, <2>4 DEF FlowOK, Writing
    <3>2. ~c.ended => c.received >= Threshold
      BY <2>4, <3>1, Bounds DEF FlowOK
    <3>3. FlowOK(d)
      BY <2>1, <2>4, <2>5, <3>1, <3>2, Bounds DEF FlowOK, Writing
    <3> QED BY <2>6, <3>3 DEF PutInv
  <2>22. VersionsOK'
    <3>1. \A v \in Upload : up'[v].base <= versions + 1
      BY <2>5, <2>6, <2>7
    <3>2. Exists'
      BY <2>7, <2>11 DEF Exists, NoTable
    <3> QED BY <2>3, <2>7, <2>11, <3>1, <3>2 DEF VersionsOK
  <2>23. FreshOK'
    <3> SUFFICES ASSUME NEW v \in Upload, up'[v].pc = "append", up'[v].commits = 0,
                        up'[v].mode # "append"
                 PROVE  up'[v].base > 0 /\ table'.version # up'[v].base
      BY DEF FreshOK
    <3>1. v # u
      BY <2>1, <2>5, <2>6
    <3>2. up'[v] = up[v]
      BY <2>6, <3>1
    <3>3. up[v].base > 0
      BY <3>2 DEF PutInv, FreshOK
    <3> QED BY <2>7, <2>11, <3>2, <3>3
  <2>24. \A v \in Upload \ {u} : up[v].alone => up[v].pc = "new"
    BY <2>3 DEF PutInv, AloneOK, Running
  <2>25. AloneOK'
    BY <2>3, <2>5, <2>6, <2>24 DEF PutInv, AloneOK, Running
  <2>26. SmallOK'
    <3>1. ASSUME NEW v \in Upload \ {u}
          PROVE  /\ up'[v].commits = 0 => ~HasRows(v)'
                 /\ up'[v].received < Threshold /\ HasRows(v)'
                        => Holds(table'.rows, v, up'[v].received)
      BY <2>6, <2>11, <2>17, <2>18 DEF PutInv, SmallOK
    <3>2. up'[u].commits # 0
      BY <2>4, <2>5, <2>6
    <3>3. ASSUME c.received < Threshold PROVE Holds(b \o t, u, c.received)
      <4>1. c.commits = 0 /\ n = 0
        BY <2>13, <2>16, <3>3
      <4>2. ~ \E i \in DOMAIN b : b[i][1] = u
        BY <2>10, <4>1 DEF PutInv, SmallOK, HasRows
      <4> QED BY <2>10, <2>19, <4>1, <4>2, HoldsNothing
    <3>4. up'[u].received = c.received
      BY <2>5, <2>6
    <3> QED BY <2>11, <3>1, <3>2, <3>3, <3>4 DEF SmallOK
  <2>27. Flushed(d) = c.received
    BY <2>4, <2>5 DEF Flushed
  <2>28. WholeOK'
    <3> SUFFICES ASSUME forgets' = 0, \A v \in Upload : up'[v].mode # "replace", NEW v \in Upload
                 PROVE  Holds(table'.rows, v, Flushed(up'[v]))
      BY DEF WholeOK
    <3>1. forgets = 0 /\ \A w \in Upload : up[w].mode # "replace"
      BY <2>3, <2>5, <2>6
    <3>2. \A w \in Upload : Holds(table.rows, w, Flushed(up[w]))
      BY <3>1 DEF PutInv, WholeOK
    <3>3. b = table.rows
      BY <2>15, <3>1 DEF b
    <3>4. CASE v = u
      BY <2>6, <2>11, <2>19, <2>27, <3>2, <3>3, <3>4
    <3>5. CASE v # u
      BY <2>6, <2>11, <2>18, <3>2, <3>3, <3>5
    <3> QED BY <3>4, <3>5
  <2>29. ReplaceOK'
    <3> SUFFICES ASSUME NEW v \in Upload, up'[v].mode = "replace", up'[v].alone, forgets' = 0,
                        up'[v].commits > 0
                 PROVE  Exists' /\ table'.rows = [i \in 1 .. Flushed(up'[v]) |-> <<v, i>>]
      BY DEF ReplaceOK
    <3>1. v = u
      <4>1. ASSUME v # u PROVE FALSE
        <5>1. up[v].alone /\ up[v].commits > 0
          BY <2>6, <4>1
        <5>2. up[v].pc = "new" /\ FlowOK(up[v])
          BY <2>24, <4>1, <5>1 DEF PutInv
        <5> QED BY <5>1, <5>2 DEF FlowOK
      <4> QED BY <4>1
    <3>2. c.mode = "replace" /\ c.alone /\ forgets = 0
      BY <2>3, <2>5, <2>6, <3>1
    <3>3. b = [i \in 1 .. n |-> <<u, i>>]
      <4>1. CASE c.commits = 0
        <5>1. b = <<>> /\ n = 0
          BY <2>13, <2>14, <2>15, <3>2, <4>1
        <5>2. [i \in 1 .. 0 |-> <<u, i>>] = <<>>
          OBVIOUS
        <5> QED BY ONLY <5>1, <5>2
      <4>2. CASE c.commits # 0
        <5>1. table.rows = [i \in 1 .. n |-> <<u, i>>]
          BY <2>4, <3>2, <4>2 DEF PutInv, ReplaceOK
        <5>2. b = table.rows
          BY <2>15, <4>2 DEF b
        <5> QED BY ONLY <5>1, <5>2
      <4> QED BY <4>1, <4>2
    <3>4. b \o t = [i \in 1 .. c.received |-> <<u, i>>]
      <4> HIDE DEF c, n, m
      <4>1. [i \in 1 .. n |-> <<u, i>>] \o [i \in 1 .. m |-> <<u, n + i>>]
                = [i \in 1 .. n + m |-> <<u, i>>]
        BY <2>4, ChunksJoin
      <4> QED BY ONLY <2>4, <3>3, <4>1 DEF t
    <3>5. Exists'
      BY <2>7, <2>11 DEF Exists, NoTable
    <3>6. Flushed(up'[v]) = c.received
      BY <2>6, <2>27, <3>1
    <3> QED BY <2>11, <3>1, <3>4, <3>5, <3>6
  <2>30. RetriesRepeatNothing'
    <3> SUFFICES ASSUME \A v \in Upload : up'[v].mode # "append" /\ up'[v].received < Threshold,
                        NEW v \in Upload, NEW w \in Upload, HasRows(v)', HasRows(w)'
                 PROVE  v = w
      BY DEF RetriesRepeatNothing
    <3>1. c.mode # "append" /\ c.commits = 0
      BY <2>5, <2>6, <2>16
    <3>2. b = <<>>
      BY <2>14, <2>15, <3>1
    <3>3. \A x \in Upload \ {u} : ~HasRows(x)'
      <4> SUFFICES ASSUME NEW x \in Upload \ {u}, HasRows(x)' PROVE FALSE
        OBVIOUS
      <4>1. HasRows(x) /\ table.rows = <<>>
        BY <2>17, <3>2
      <4> QED BY <4>1 DEF HasRows
    <3> QED BY <3>3
  <2> QED BY <2>20, <2>21, <2>22, <2>23, <2>25, <2>26, <2>28, <2>29, <2>30 DEF PutInv
<1> QED BY <1>1, <1>2

LEMMA ForgetKeeps ==
    ASSUME PutInv, Forget
    PROVE  PutInv'
<1>1. table' = NoTable /\ table'.version = 0 /\ table'.rows = <<>>
  BY DEF Forget, NoTable
<1>2. forgets' \in Nat /\ forgets' # 0 /\ versions' = versions /\ up' = up /\ versions \in Nat
  BY TableFacts DEF Forget
<1>3. TypeOK'
  BY <1>1, <1>2 DEF PutInv, TypeOK, NoTable
<1>4. VersionsOK' /\ FreshOK'
  BY <1>1, <1>2 DEF PutInv, VersionsOK, FreshOK, Exists
<1>5. AloneOK'
  BY <1>2 DEF PutInv, AloneOK, Running
<1>6. \A u \in Upload : ~HasRows(u)'
  BY <1>1 DEF HasRows
<1>7. SmallOK' /\ RetriesRepeatNothing'
  BY <1>6 DEF SmallOK, RetriesRepeatNothing
<1>8. WholeOK' /\ ReplaceOK'
  BY <1>2 DEF WholeOK, ReplaceOK
<1> QED BY <1>2, <1>3, <1>4, <1>5, <1>7, <1>8 DEF PutInv
-----------------------------------------------------------------------------
LEMMA StutterKeeps == PutInv /\ UNCHANGED putVars => PutInv'
  BY DEF PutInv, putVars, TypeOK, VersionsOK, FreshOK, AloneOK, SmallOK, WholeOK, ReplaceOK,
         RetriesRepeatNothing, HasRows, Exists, NoTable, Running

LEMMA NextKeeps == PutInv /\ [PutNext]_putVars => PutInv'
<1> SUFFICES ASSUME PutInv, [PutNext]_putVars PROVE PutInv'
  OBVIOUS
<1>1. CASE UNCHANGED putVars
  BY <1>1, StutterKeeps
<1>2. CASE Forget
  BY <1>2, ForgetKeeps
<1>3. ASSUME NEW u \in Upload, Fail(u) PROVE PutInv'
  <2>1. /\ up[u].pc \notin {"new", "done", "failed"}
        /\ up' = [up EXCEPT ![u].pc = "failed"] /\ UNCHANGED <<table, versions, forgets>>
    BY <1>3 DEF Fail
  <2> QED BY <2>1, FailKeeps
<1> QED BY <1>1, <1>2, <1>3, StartKeeps, ReceiveKeeps, EndKeeps, LookKeeps, CreateKeeps,
           LoadKeeps, CommitKeeps DEF PutNext

\* Every reachable state satisfies the inductive invariant.
LEMMA PutAlways == PutSpec => []PutInv
  BY InitInv, NextKeeps, PTL DEF PutSpec

\* do_put never buffers more than a threshold and a batch, however long the
\* stream.
THEOREM BuffersAreBounded == PutSpec => []BufferBounded
<1>1. PutInv => BufferBounded
  BY DEF PutInv, FlowOK, BufferBounded
<1> QED BY <1>1, PutAlways, PTL

\* An upload below the threshold is in the table as a whole, once it is done,
\* or not at all, whatever fails and whoever writes beside it.
THEOREM SmallUploadsAreAtomic == PutSpec => []SmallUploadsAtomic
<1>1. PutInv => SmallUploadsAtomic
  <2> SUFFICES ASSUME PutInv, NEW u \in Upload, up[u].received < Threshold, HasRows(u)
               PROVE  up[u].pc = "done" /\ Holds(table.rows, u, up[u].received)
    BY DEF SmallUploadsAtomic
  <2>1. up[u].commits # 0 /\ Holds(table.rows, u, up[u].received)
    BY DEF PutInv, SmallOK
  <2> QED BY <2>1, Counters DEF FlowOK
<1> QED BY <1>1, PutAlways, PTL

\* Without replaces and drops the rows of each upload are in the table in
\* order, once and without gaps, and all of them when do_put has returned.
THEOREM UploadsAreWhole == PutSpec => []UploadsArriveWhole
<1>1. PutInv => UploadsArriveWhole
  <2> SUFFICES ASSUME PutInv, forgets = 0, \A v \in Upload : up[v].mode # "replace",
                      NEW u \in Upload
               PROVE  /\ \E n \in 0 .. up[u].received : Holds(table.rows, u, n)
                      /\ up[u].pc = "done" => Holds(table.rows, u, up[u].received)
    BY DEF UploadsArriveWhole
  <2>1. Holds(table.rows, u, Flushed(up[u]))
    BY DEF PutInv, WholeOK
  <2>2. /\ Flushed(up[u]) \in 0 .. up[u].received
        /\ up[u].pc = "done" => Flushed(up[u]) = up[u].received
    BY Counters DEF Flushed, FlowOK
  <2> QED BY <2>1, <2>2
<1> QED BY <1>1, PutAlways, PTL

\* A replace alone with its dataset leaves exactly the rows it sent.
THEOREM ReplacesReplace == PutSpec => []ReplaceReplaces
<1>1. PutInv => ReplaceReplaces
  <2> SUFFICES ASSUME PutInv, NEW u \in Upload, up[u].mode = "replace", up[u].pc = "done",
                      up[u].alone, forgets = 0
               PROVE  table.rows = [i \in 1 .. up[u].received |-> <<u, i>>]
    BY DEF ReplaceReplaces
  <2>1. up[u].commits > 0 /\ Flushed(up[u]) = up[u].received
    BY Counters DEF Flushed, FlowOK
  <2>2. table.rows = [i \in 1 .. Flushed(up[u]) |-> <<u, i>>]
    BY <2>1 DEF PutInv, ReplaceOK
  <2> QED BY <2>1, <2>2
<1> QED BY <1>1, PutAlways, PTL

\* Retries of small uploads that create or replace never leave the rows of two
\* attempts.
THEOREM RetriesAreSafe == PutSpec => []RetriesRepeatNothing
  BY PutAlways, PTL DEF PutInv
=============================================================================
