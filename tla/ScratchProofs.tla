--------------------------- MODULE ScratchProofs ---------------------------
(***************************************************************************)
(* Proofs about Scratch, for any calls and any number of faults.           *)
(***************************************************************************)
EXTENDS Scratch, TLAPS

Pcs == {"new", "look", "catalog", "schema", "drop", "create", "describe", "count"} \cup Over

CallRecord == [pc : Pcs, tool : {"none", "ingest", "derive"}, mode : {"none", "create", "replace"},
               alone : BOOLEAN, made : Nat, described : Nat, counted : Nat]

ScratchTypes ==
    /\ catalogMode \in {"shared", "per_tenant"}
    /\ hasCatalog \in BOOLEAN /\ hasSchema \in BOOLEAN
    /\ table \in Nat /\ made \in Nat
    /\ calls \in [Call -> CallRecord]

\* Tables are numbered in the order they are made, so a table that a call
\* finds after its own is its own or a later one.
InOrder(c) ==
    /\ calls[c].pc = "describe" => 0 < calls[c].made /\ calls[c].made <= made
                                   /\ (table = 0 \/ calls[c].made <= table)
    /\ calls[c].pc = "count" => /\ 0 < calls[c].made
                                /\ calls[c].made <= calls[c].described
                                /\ calls[c].described <= made
                                /\ (table = 0 \/ calls[c].described <= table)

\* Only a replace drops, and the schema is there before a drop or a create.
Ready(c) ==
    /\ calls[c].pc = "drop" => calls[c].mode = "replace"
    /\ calls[c].pc \in {"drop", "create"} => hasSchema

ScratchInv ==
    /\ ScratchTypes
    /\ table <= made
    /\ \A c \in Call : InOrder(c) /\ Ready(c)
    /\ OnlyTheWindowLoses
    /\ ReturnedIsNotStale

LEMMA ScratchInitInv == ScratchInit => ScratchInv
<1> SUFFICES ASSUME ScratchInit PROVE ScratchInv
  OBVIOUS
<1>1. NotCalled \in CallRecord
  <2>1. "new" \in Pcs
    BY DEF Pcs
  <2> QED BY <2>1 DEF NotCalled, CallRecord
<1>2. ScratchTypes
  BY <1>1 DEF ScratchInit, ScratchTypes
<1>3. \A c \in Call : calls[c].pc = "new"
  BY DEF ScratchInit, NotCalled
<1>4. table = 0 /\ made = 0
  BY DEF ScratchInit
<1> QED BY <1>2, <1>3, <1>4 DEF ScratchInv, InOrder, Ready, OnlyTheWindowLoses, ReturnedIsNotStale

\* A step that leaves the table and its number alone, and in which a call goes
\* on without having described anything, keeps what relates them.
LEMMA QuietStep ==
  ASSUME ScratchInv, ScratchTypes', UNCHANGED <<table, made>>, hasSchema => hasSchema',
         NEW c \in Call,
         calls'[c].pc \notin {"describe", "count", "done"},
         calls'[c].pc = "drop" => calls'[c].mode = "replace",
         calls'[c].pc \in {"drop", "create"} => hasSchema',
         calls[c].pc # "cut off between drop and create",
         calls[c].mode = "replace" /\ calls[c].pc = "create" =>
             calls'[c].mode = "replace" /\ calls'[c].pc = "cut off between drop and create",
         \A o \in Call \ {c} :
             /\ calls'[o].pc = calls[o].pc /\ calls'[o].mode = calls[o].mode
             /\ calls'[o].made = calls[o].made /\ calls'[o].described = calls[o].described
             /\ calls'[o].counted = calls[o].counted
  PROVE  ScratchInv'
<1>1. ASSUME NEW o \in Call PROVE (InOrder(o) /\ Ready(o))'
  <2>1. CASE o = c
    BY <2>1 DEF InOrder, Ready
  <2>2. CASE o # c
    BY <2>2 DEF ScratchInv, InOrder, Ready
  <2> QED BY <2>1, <2>2
<1>2. OnlyTheWindowLoses'
  BY DEF ScratchInv, OnlyTheWindowLoses
<1>3. ReturnedIsNotStale'
  BY DEF ScratchInv, ReturnedIsNotStale
<1> QED BY <1>1, <1>2, <1>3 DEF ScratchInv

\* Goto changes the program counter of one call and nothing else.
LEMMA GotoOnly ==
  ASSUME ScratchTypes, NEW c \in Call, NEW pc, Goto(c, pc)
  PROVE  /\ calls'[c].pc = pc /\ calls'[c].mode = calls[c].mode
         /\ calls'[c].made = calls[c].made /\ calls'[c].described = calls[c].described
         /\ calls'[c].counted = calls[c].counted
         /\ \A o \in Call \ {c} : calls'[o] = calls[o]
<1>1. calls[c] \in CallRecord
  BY DEF ScratchTypes
<1>2. calls' = [calls EXCEPT ![c] = [calls[c] EXCEPT !.pc = pc]]
  BY DEF Goto
<1>3. calls'[c] = [calls[c] EXCEPT !.pc = pc]
  BY <1>2 DEF ScratchTypes
<1>4. \A o \in Call \ {c} : calls'[o] = calls[o]
  BY <1>2 DEF ScratchTypes
<1> QED BY <1>1, <1>3, <1>4 DEF CallRecord

\* A call that only goes on to a statement in which it has described nothing.
LEMMA GoesOnQuietly ==
  ASSUME ScratchInv, ScratchTypes', UNCHANGED <<table, made>>, hasSchema => hasSchema',
         NEW c \in Call, NEW pc, Goto(c, pc),
         calls[c].pc # "cut off between drop and create",
         pc \notin {"describe", "count", "done"},
         pc = "drop" => calls[c].mode = "replace",
         pc \in {"drop", "create"} => hasSchema',
         calls[c].mode = "replace" /\ calls[c].pc = "create" =>
             pc = "cut off between drop and create"
  PROVE  ScratchInv'
<1>1. ScratchTypes
  BY DEF ScratchInv
<1>2. /\ calls'[c].pc = pc /\ calls'[c].mode = calls[c].mode
      /\ \A o \in Call \ {c} : calls'[o] = calls[o]
  BY <1>1, GotoOnly
<1> QED BY <1>2, QuietStep

LEMMA TypesStep == ScratchInv /\ [ScratchNext]_scratchVars => ScratchTypes'
<1> SUFFICES ASSUME ScratchTypes, [ScratchNext]_scratchVars PROVE ScratchTypes'
  BY DEF ScratchInv
<1>a. ASSUME NEW c \in Call, NEW pc \in Pcs, Goto(c, pc) PROVE calls' \in [Call -> CallRecord]
  BY <1>a, SMTT(30) DEF ScratchTypes, CallRecord, Goto
<1>1. ASSUME NEW c \in Call, BeginScratch(c) PROVE ScratchTypes'
  <2>1. PICK tool \in {"ingest", "derive"}, mode \in {"create", "replace"} :
            calls' = [o \in Call |->
               CASE o = c -> [NotCalled EXCEPT
                                  !.pc = IF Looks(tool, mode) THEN "look" ELSE FirstEnsured,
                                  !.tool = tool, !.mode = mode, !.alone = UnderWay = {}]
                 [] OTHER -> [calls[o] EXCEPT !.alone = @ /\ o \notin UnderWay]]
    BY <1>1 DEF BeginScratch
  <2>2. calls'[c] \in CallRecord
    <3> DEFINE begun == IF Looks(tool, mode) THEN "look" ELSE FirstEnsured
               quiet == UnderWay = {}
    <3>1. calls'[c] = [pc |-> begun, tool |-> tool, mode |-> mode, alone |-> quiet,
                       made |-> 0, described |-> 0, counted |-> 0]
      BY <2>1 DEF NotCalled
    <3>2. begun \in Pcs
      BY DEF FirstEnsured, Pcs
    <3>3. quiet \in BOOLEAN
      OBVIOUS
    <3> HIDE DEF begun, quiet
    <3> QED BY <3>1, <3>2, <3>3 DEF CallRecord
  <2>3. ASSUME NEW o \in Call, o # c PROVE calls'[o] \in CallRecord
    <3> DEFINE alone == calls[o].alone /\ o \notin UnderWay
    <3>1. calls'[o] = [calls[o] EXCEPT !.alone = alone]
      BY <2>1, <2>3
    <3>2. alone \in BOOLEAN
      OBVIOUS
    <3>3. calls[o] \in CallRecord
      BY DEF ScratchTypes
    <3> HIDE DEF alone
    <3> QED BY <3>1, <3>2, <3>3 DEF CallRecord
  <2>4. UNCHANGED <<catalogMode, hasCatalog, hasSchema, table, made>>
    BY <1>1 DEF BeginScratch
  <2>5. calls' = [o \in Call |-> calls'[o]]
    BY <2>1
  <2>6. calls' \in [Call -> CallRecord]
    BY <2>2, <2>3, <2>5
  <2> QED BY <2>4, <2>6 DEF ScratchTypes
<1>2. ASSUME NEW c \in Call, LookScratch(c) PROVE ScratchTypes'
  BY <1>a, <1>2 DEF LookScratch, FirstEnsured, Pcs, Over, ScratchTypes
<1>3. ASSUME NEW c \in Call, EnsureCatalog(c) PROVE ScratchTypes'
  BY <1>a, <1>3 DEF EnsureCatalog, Pcs, ScratchTypes
<1>4. ASSUME NEW c \in Call, EnsureSchema(c) PROVE ScratchTypes'
  BY <1>a, <1>4 DEF EnsureSchema, AfterSchema, Pcs, ScratchTypes
<1>5. ASSUME NEW c \in Call, DropScratch(c) PROVE ScratchTypes'
  BY <1>a, <1>5 DEF DropScratch, Pcs, ScratchTypes
<1>6. ASSUME NEW c \in Call, CreateScratch(c) PROVE ScratchTypes'
  <2>1. CASE table = 0 /\ hasSchema
    <3>1. calls' = [calls EXCEPT ![c].pc = "describe", ![c].made = made + 1]
      BY <1>6, <2>1 DEF CreateScratch
    <3>2. made + 1 \in Nat /\ "describe" \in Pcs
      BY DEF ScratchTypes, Pcs
    <3>3. [calls[c] EXCEPT !.pc = "describe", !.made = made + 1] \in CallRecord
      <4>1. calls[c] \in CallRecord
        BY DEF ScratchTypes
      <4> QED BY <3>2, <4>1 DEF CallRecord
    <3>4. calls' = [calls EXCEPT ![c] = [calls[c] EXCEPT !.pc = "describe", !.made = made + 1]]
      BY <3>1
    <3>5. calls' \in [Call -> CallRecord]
      BY <3>3, <3>4 DEF ScratchTypes
    <3> QED BY <1>6, <2>1, <3>2, <3>5 DEF CreateScratch, ScratchTypes
  <2>2. CASE ~(table = 0 /\ hasSchema)
    BY <1>6, <1>a, <2>2 DEF CreateScratch, Pcs, Over, ScratchTypes
  <2> QED BY <2>1, <2>2
<1>7. ASSUME NEW c \in Call, DescribeScratch(c) PROVE ScratchTypes'
  <2>1. (IF table = 0 THEN "failed" ELSE "count") \in Pcs
    BY DEF Pcs, Over
  <2>2. calls[c] \in CallRecord /\ table \in Nat
    BY DEF ScratchTypes
  <2>3. [calls[c] EXCEPT !.pc = IF table = 0 THEN "failed" ELSE "count", !.described = table]
            \in CallRecord
    BY <2>1, <2>2 DEF CallRecord
  <2>4. calls' \in [Call -> CallRecord]
    BY <1>7, <2>3 DEF DescribeScratch, ScratchTypes
  <2> QED BY <1>7, <2>4 DEF DescribeScratch, ScratchTypes
<1>8. ASSUME NEW c \in Call, CountScratch(c) PROVE ScratchTypes'
  <2>1. (IF table = 0 THEN "failed" ELSE "done") \in Pcs
    BY DEF Pcs, Over
  <2>2. calls[c] \in CallRecord /\ table \in Nat
    BY DEF ScratchTypes
  <2>3. [calls[c] EXCEPT !.pc = IF table = 0 THEN "failed" ELSE "done", !.counted = table]
            \in CallRecord
    BY <2>1, <2>2 DEF CallRecord
  <2>4. calls' \in [Call -> CallRecord]
    BY <1>8, <2>3 DEF CountScratch, ScratchTypes
  <2> QED BY <1>8, <2>4 DEF CountScratch, ScratchTypes
<1>9. ASSUME NEW c \in Call, CutOff(c) PROVE ScratchTypes'
  BY <1>9, <1>a DEF CutOff, Pcs, Over, ScratchTypes
<1>10. CASE UNCHANGED scratchVars
  BY <1>10 DEF scratchVars, ScratchTypes
<1> QED BY <1>1, <1>2, <1>3, <1>4, <1>5, <1>6, <1>7, <1>8, <1>9, <1>10 DEF ScratchNext

\* The two steps of a description.
LEMMA Described ==
  ASSUME ScratchInv, ScratchTypes', UNCHANGED <<hasSchema, table, made>>, NEW c \in Call,
         \/ /\ calls[c].pc = "describe"
            /\ calls'[c].pc = IF table = 0 THEN "failed" ELSE "count"
            /\ calls'[c].described = table
         \/ /\ calls[c].pc = "count"
            /\ calls'[c].pc = IF table = 0 THEN "failed" ELSE "done"
            /\ calls'[c].counted = table /\ calls'[c].described = calls[c].described,
         calls'[c].made = calls[c].made,
         \A o \in Call \ {c} : calls'[o] = calls[o]
  PROVE  ScratchInv'
<1>1. table \in Nat /\ made \in Nat /\ calls[c].made \in Nat /\ table <= made
  BY DEF ScratchInv, ScratchTypes, CallRecord
<1>2. InOrder(c) /\ Ready(c)
  BY DEF ScratchInv
<1>3. ASSUME NEW o \in Call PROVE (InOrder(o) /\ Ready(o))'
  <2>1. CASE o = c
    BY <1>1, <1>2, <2>1 DEF InOrder, Ready
  <2>2. CASE o # c
    BY <2>2 DEF ScratchInv, InOrder, Ready
  <2> QED BY <2>1, <2>2
<1>4. OnlyTheWindowLoses'
  BY DEF ScratchInv, OnlyTheWindowLoses
<1>5. ReturnedIsNotStale'
  BY <1>1, <1>2 DEF ScratchInv, ReturnedIsNotStale, InOrder
<1> QED BY <1>1, <1>3, <1>4, <1>5 DEF ScratchInv

LEMMA ScratchStep == ScratchInv /\ [ScratchNext]_scratchVars => ScratchInv'
<1> SUFFICES ASSUME ScratchInv, [ScratchNext]_scratchVars PROVE ScratchInv'
  OBVIOUS
<1>0. ScratchTypes'
  BY TypesStep
<1>1. ASSUME NEW c \in Call, BeginScratch(c) PROVE ScratchInv'
  <2>1. UNCHANGED <<hasSchema, table, made>>
    BY <1>1 DEF BeginScratch
  <2>2. calls[c].pc = "new"
    BY <1>1 DEF BeginScratch
  <2>3. calls'[c].pc \in {"look", "catalog", "schema"}
    BY <1>1, ZenonT(60) DEF BeginScratch, NotCalled, FirstEnsured
  <2>4. ASSUME NEW o \in Call, o # c
        PROVE  /\ calls'[o].pc = calls[o].pc /\ calls'[o].mode = calls[o].mode
               /\ calls'[o].made = calls[o].made /\ calls'[o].described = calls[o].described
               /\ calls'[o].counted = calls[o].counted
    <3>1. calls'[o] = [calls[o] EXCEPT !.alone = @ /\ o \notin UnderWay]
      BY <1>1, <2>4 DEF BeginScratch
    <3>2. calls[o] \in CallRecord
      BY DEF ScratchInv, ScratchTypes
    <3> QED BY <3>1, <3>2 DEF CallRecord
  <2> QED BY <1>0, <2>1, <2>2, <2>3, <2>4, QuietStep
<1>2. ASSUME NEW c \in Call, LookScratch(c) PROVE ScratchInv'
  <2>1. PICK pc \in {"failed", "refused", "catalog", "schema"} : Goto(c, pc)
    BY <1>2 DEF LookScratch, FirstEnsured
  <2>2. calls[c].pc = "look" /\ UNCHANGED <<hasSchema, table, made>>
    BY <1>2 DEF LookScratch
  <2> QED BY <1>0, <2>1, <2>2, GoesOnQuietly
<1>3. ASSUME NEW c \in Call, EnsureCatalog(c) PROVE ScratchInv'
  <2>1. Goto(c, "schema") /\ calls[c].pc = "catalog" /\ UNCHANGED <<hasSchema, table, made>>
    BY <1>3 DEF EnsureCatalog
  <2> QED BY <1>0, <2>1, GoesOnQuietly
<1>4. ASSUME NEW c \in Call, EnsureSchema(c) PROVE ScratchInv'
  <2>1. Goto(c, AfterSchema(calls[c].mode)) /\ calls[c].pc = "schema" /\ hasSchema'
        /\ UNCHANGED <<table, made>>
    BY <1>4 DEF EnsureSchema
  <2>2. \/ AfterSchema(calls[c].mode) = "create"
        \/ AfterSchema(calls[c].mode) = "drop" /\ calls[c].mode = "replace"
    BY DEF AfterSchema
  <2> QED BY <1>0, <2>1, <2>2, GoesOnQuietly
<1>5. ASSUME NEW c \in Call, CutOff(c) PROVE ScratchInv'
  <2> DEFINE pc == IF calls[c].pc = "create" /\ calls[c].mode = "replace"
                   THEN "cut off between drop and create" ELSE "cut off"
  <2>1. Goto(c, pc) /\ UNCHANGED <<hasSchema, table, made>>
    BY <1>5 DEF CutOff
  <2>2. calls[c].pc # "cut off between drop and create"
    BY <1>5 DEF CutOff, UnderWay, Over
  <2>3. /\ pc \in {"cut off", "cut off between drop and create"}
        /\ calls[c].mode = "replace" /\ calls[c].pc = "create" =>
               pc = "cut off between drop and create"
    OBVIOUS
  <2> HIDE DEF pc
  <2> QED BY <1>0, <2>1, <2>2, <2>3, GoesOnQuietly
<1>6. ASSUME NEW c \in Call, DropScratch(c) PROVE ScratchInv'
  <2>1. /\ calls[c].pc = "drop" /\ table' = 0 /\ made' = made /\ hasSchema' = hasSchema
        /\ Goto(c, "create")
    BY <1>6 DEF DropScratch
  <2>2. made \in Nat /\ ScratchTypes
    BY DEF ScratchInv, ScratchTypes
  <2>3. calls[c].mode = "replace" /\ hasSchema
    BY <2>1 DEF ScratchInv, Ready
  <2>4. /\ calls'[c].pc = "create" /\ calls'[c].mode = "replace"
        /\ \A o \in Call \ {c} : calls'[o] = calls[o]
    BY <2>1, <2>2, <2>3, GotoOnly
  <2>5. ASSUME NEW o \in Call PROVE (InOrder(o) /\ Ready(o))'
    <3>1. CASE o = c
      BY <2>1, <2>3, <2>4, <3>1 DEF InOrder, Ready
    <3>2. CASE o # c
      BY <2>1, <2>2, <2>4, <3>2 DEF ScratchInv, InOrder, Ready
    <3> QED BY <3>1, <3>2
  <2>6. OnlyTheWindowLoses'
    BY <2>4 DEF OnlyTheWindowLoses
  <2>7. ReturnedIsNotStale'
    BY <2>4 DEF ScratchInv, ReturnedIsNotStale
  <2> QED BY <1>0, <2>1, <2>2, <2>5, <2>6, <2>7 DEF ScratchInv
<1>7. ASSUME NEW c \in Call, CreateScratch(c) PROVE ScratchInv'
  <2>1. made \in Nat /\ table \in Nat /\ ScratchTypes /\ calls[c] \in CallRecord
    BY DEF ScratchInv, ScratchTypes
  <2>2. calls[c].pc = "create" /\ hasSchema' = hasSchema /\ hasSchema
    BY <1>7 DEF CreateScratch, ScratchInv, Ready
  <2>3. CASE table = 0
    <3>1. /\ made' = made + 1 /\ table' = made + 1
          /\ calls' = [calls EXCEPT ![c].pc = "describe", ![c].made = made + 1]
      BY <1>7, <2>2, <2>3 DEF CreateScratch
    <3>2. /\ calls'[c].pc = "describe" /\ calls'[c].made = made + 1
          /\ \A o \in Call \ {c} : calls'[o] = calls[o]
      BY <2>1, <3>1 DEF ScratchTypes, CallRecord
    <3>3. ASSUME NEW o \in Call PROVE (InOrder(o) /\ Ready(o))'
      <4>1. CASE o = c
        BY <2>1, <3>1, <3>2, <4>1 DEF InOrder, Ready
      <4>2. CASE o # c
        <5>1. calls[o].made \in Nat /\ calls[o].described \in Nat
          BY DEF ScratchInv, ScratchTypes, CallRecord
        <5>2. calls'[o] = calls[o] /\ InOrder(o) /\ Ready(o)
          BY <3>2, <4>2 DEF ScratchInv
        <5>3. \A n \in Nat : n <= made => n <= table' /\ n <= made'
          BY <2>1, <3>1
        <5> QED BY <2>2, <5>1, <5>2, <5>3 DEF InOrder, Ready
      <4> QED BY <4>1, <4>2
    <3>4. OnlyTheWindowLoses'
      <4>1. table' # 0
        BY <2>1, <3>1
      <4> QED BY <4>1 DEF OnlyTheWindowLoses
    <3>5. ReturnedIsNotStale'
      BY <3>2 DEF ScratchInv, ReturnedIsNotStale
    <3> QED BY <1>0, <2>1, <3>1, <3>3, <3>4, <3>5 DEF ScratchInv
  <2>4. CASE table # 0
    <3>1. Goto(c, "failed") /\ UNCHANGED <<table, made>>
      BY <1>7, <2>4 DEF CreateScratch
    <3>2. ASSUME NEW o \in Call PROVE (InOrder(o) /\ Ready(o))'
      BY <2>1, <2>2, <3>1, GotoOnly DEF ScratchInv, InOrder, Ready
    <3>3. OnlyTheWindowLoses'
      BY <2>4, <3>1 DEF OnlyTheWindowLoses
    <3>4. ReturnedIsNotStale'
      BY <2>1, <3>1, GotoOnly DEF ScratchInv, ReturnedIsNotStale
    <3> QED BY <1>0, <3>1, <3>2, <3>3, <3>4 DEF ScratchInv
  <2> QED BY <2>3, <2>4
<1>8. ASSUME NEW c \in Call, DescribeScratch(c) PROVE ScratchInv'
  <2>1. made \in Nat /\ table \in Nat /\ ScratchTypes /\ calls[c] \in CallRecord
    BY DEF ScratchInv, ScratchTypes
  <2>2. /\ calls[c].pc = "describe" /\ UNCHANGED <<hasSchema, table, made>>
        /\ calls' = [calls EXCEPT ![c].pc = IF table = 0 THEN "failed" ELSE "count",
                                  ![c].described = table]
    BY <1>8 DEF DescribeScratch
  <2>3. /\ calls'[c].pc = IF table = 0 THEN "failed" ELSE "count"
        /\ calls'[c].described = table /\ calls'[c].made = calls[c].made
        /\ \A o \in Call \ {c} : calls'[o] = calls[o]
    BY <2>1, <2>2 DEF ScratchTypes, CallRecord
  <2> QED BY <1>0, <2>1, <2>2, <2>3, Described
<1>9. ASSUME NEW c \in Call, CountScratch(c) PROVE ScratchInv'
  <2>1. made \in Nat /\ table \in Nat /\ ScratchTypes /\ calls[c] \in CallRecord
    BY DEF ScratchInv, ScratchTypes
  <2>2. /\ calls[c].pc = "count" /\ UNCHANGED <<hasSchema, table, made>>
        /\ calls' = [calls EXCEPT ![c].pc = IF table = 0 THEN "failed" ELSE "done",
                                  ![c].counted = table]
    BY <1>9 DEF CountScratch
  <2>3. /\ calls'[c].pc = IF table = 0 THEN "failed" ELSE "done"
        /\ calls'[c].counted = table
        /\ calls'[c].made = calls[c].made /\ calls'[c].described = calls[c].described
        /\ \A o \in Call \ {c} : calls'[o] = calls[o]
    BY <2>1, <2>2 DEF ScratchTypes, CallRecord
  <2> QED BY <1>0, <2>1, <2>2, <2>3, Described
<1>10. CASE UNCHANGED scratchVars
  BY <1>0, <1>10 DEF scratchVars, ScratchInv, InOrder, Ready, OnlyTheWindowLoses,
                     ReturnedIsNotStale
<1> QED BY <1>1, <1>2, <1>3, <1>4, <1>5, <1>6, <1>7, <1>8, <1>9, <1>10 DEF ScratchNext

\* A scratch table that was ever made is missing only in the window of a
\* replace, or after one that was cut off in it.
THEOREM WindowIsTheOnlyLoss == ScratchSpec => []OnlyTheWindowLoses
<1>1. ScratchInit => ScratchInv
  BY ScratchInitInv
<1>2. ScratchInv /\ [ScratchNext]_scratchVars => ScratchInv'
  BY ScratchStep
<1>3. ScratchInv => OnlyTheWindowLoses
  BY DEF ScratchInv
<1> QED BY <1>1, <1>2, <1>3, PTL DEF ScratchSpec

\* Calls that return have made a table and describe none that is older.
THEOREM AnswersAreNotStale == ScratchSpec => []ReturnedIsNotStale
<1>1. ScratchInit => ScratchInv
  BY ScratchInitInv
<1>2. ScratchInv /\ [ScratchNext]_scratchVars => ScratchInv'
  BY ScratchStep
<1>3. ScratchInv => ReturnedIsNotStale
  BY DEF ScratchInv
<1> QED BY <1>1, <1>2, <1>3, PTL DEF ScratchSpec
-----------------------------------------------------------------------------
(***************************************************************************)
(* Who wins a race, and what a call does that has no rival.                *)
(***************************************************************************)

CutOffs == {"cut off", "cut off between drop and create"}

\* A table that is there has a maker that goes on to describe it, has returned,
\* or was cut off: nothing but a missing table makes it fail.
Winner(c) ==
    /\ calls[c].made = table
    /\ \/ calls[c].pc = "describe"
       \/ calls[c].pc = "count" /\ calls[c].described = table
       \/ calls[c].pc = "done" /\ calls[c].counted = table
       \/ calls[c].pc \in CutOffs

WinnerInv == table # 0 => \E c \in Call : Winner(c)

\* What holds of a call while it has the label to itself: no create finds a
\* table, for the call has looked or dropped, and no description misses one.
Unhindered(c) ==
    LET o == calls[c]
    IN  /\ c \in UnderWay => o.mode \in {"create", "replace"}
        /\ o.pc = "look" => Looks(o.tool, o.mode)
        /\ o.alone /\ c \in UnderWay => UnderWay = {c}
        /\ o.alone /\ (catalogMode = "shared" \/ ~Looks(o.tool, o.mode)) =>
               /\ o.pc # "failed" /\ (o.pc = "refused" => o.mode = "create")
               /\ o.pc \in {"catalog", "schema"} /\ o.mode = "create" => table = 0
               /\ o.pc = "create" => table = 0
               /\ o.pc \in {"describe", "count"} => table # 0

RivalInv ==
    /\ ScratchInv
    /\ WinnerInv
    /\ catalogMode = "shared" => hasCatalog
    /\ \A c \in Call : Unhindered(c)

LEMMA RivalInitInv == ScratchInit => RivalInv
<1> SUFFICES ASSUME ScratchInit PROVE RivalInv
  OBVIOUS
<1>1. \A c \in Call : calls[c].pc = "new"
  BY DEF ScratchInit, NotCalled
<1>2. \A c \in Call : Unhindered(c)
  BY <1>1 DEF Unhindered, UnderWay
<1>3. table = 0 /\ (catalogMode = "shared" => hasCatalog)
  BY DEF ScratchInit
<1> QED BY <1>2, <1>3, ScratchInitInv DEF RivalInv, WinnerInv

\* The steps of a call after its first.
GoesOn(c) ==
    \/ LookScratch(c) \/ EnsureCatalog(c) \/ EnsureSchema(c) \/ DropScratch(c)
    \/ CreateScratch(c) \/ DescribeScratch(c) \/ CountScratch(c) \/ CutOff(c)

\* They are of a call under way and leave the others what they are.
LEMMA GoesOnAlone ==
    ASSUME ScratchTypes, NEW c \in Call, GoesOn(c)
    PROVE  /\ c \in UnderWay /\ catalogMode' = catalogMode /\ (hasCatalog => hasCatalog')
           /\ calls'[c].alone = calls[c].alone /\ calls'[c].tool = calls[c].tool
           /\ calls'[c].mode = calls[c].mode /\ calls'[c].pc # "look"
           /\ \A o \in Call \ {c} : calls'[o] = calls[o]
           /\ UnderWay' \subseteq UnderWay
<1>0. calls[c] \in CallRecord /\ calls \in [Call -> CallRecord]
  BY DEF ScratchTypes
<1>1. c \in UnderWay
  BY DEF GoesOn, LookScratch, EnsureCatalog, EnsureSchema, DropScratch, CreateScratch,
         DescribeScratch, CountScratch, CutOff, UnderWay, Over
<1>2. catalogMode' = catalogMode /\ (hasCatalog => hasCatalog')
  <2>1. catalogMode' = catalogMode /\ (hasCatalog' = hasCatalog \/ EnsureCatalog(c))
    BY DEF GoesOn, LookScratch, EnsureCatalog, EnsureSchema, DropScratch, CreateScratch,
           DescribeScratch, CountScratch, CutOff
  <2>2. EnsureCatalog(c) => hasCatalog'
    BY DEF EnsureCatalog
  <2> QED BY <2>1, <2>2
<1>3. ASSUME NEW pc, Goto(c, pc), pc # "look"
      PROVE  /\ calls'[c].alone = calls[c].alone /\ calls'[c].tool = calls[c].tool
             /\ calls'[c].mode = calls[c].mode /\ calls'[c].pc # "look"
             /\ \A o \in Call \ {c} : calls'[o] = calls[o]
  <2>1. calls'[c] = [calls[c] EXCEPT !.pc = pc] /\ \A o \in Call \ {c} : calls'[o] = calls[o]
    BY <1>0, <1>3 DEF Goto
  <2> QED BY <1>0, <1>3, <2>1 DEF CallRecord
<1>4. ASSUME NEW x, calls'[c] = x, x.pc # "look", x.alone = calls[c].alone,
             x.tool = calls[c].tool, x.mode = calls[c].mode,
             \A o \in Call \ {c} : calls'[o] = calls[o]
      PROVE  /\ calls'[c].alone = calls[c].alone /\ calls'[c].tool = calls[c].tool
             /\ calls'[c].mode = calls[c].mode /\ calls'[c].pc # "look"
             /\ \A o \in Call \ {c} : calls'[o] = calls[o]
  BY ONLY <1>4
<1>5. ASSUME calls' = [calls EXCEPT ![c].pc = "describe", ![c].made = made + 1]
      PROVE  /\ calls'[c].alone = calls[c].alone /\ calls'[c].tool = calls[c].tool
             /\ calls'[c].mode = calls[c].mode /\ calls'[c].pc # "look"
             /\ \A o \in Call \ {c} : calls'[o] = calls[o]
  <2> DEFINE x == [calls[c] EXCEPT !.pc = "describe", !.made = made + 1]
  <2>1. calls'[c] = x /\ \A o \in Call \ {c} : calls'[o] = calls[o]
    BY <1>0, <1>5
  <2>2. x.pc = "describe" /\ x.alone = calls[c].alone /\ x.tool = calls[c].tool
        /\ x.mode = calls[c].mode
    BY <1>0 DEF CallRecord
  <2>3. x.pc # "look"
    BY <2>2
  <2> HIDE DEF x
  <2> QED BY <2>1, <2>2, <2>3
<1>6. ASSUME NEW pc, pc # "look", calls' = [calls EXCEPT ![c].pc = pc, ![c].described = table]
      PROVE  /\ calls'[c].alone = calls[c].alone /\ calls'[c].tool = calls[c].tool
             /\ calls'[c].mode = calls[c].mode /\ calls'[c].pc # "look"
             /\ \A o \in Call \ {c} : calls'[o] = calls[o]
  <2> DEFINE x == [calls[c] EXCEPT !.pc = pc, !.described = table]
  <2>1. calls'[c] = x /\ \A o \in Call \ {c} : calls'[o] = calls[o]
    BY <1>0, <1>6
  <2>2. x.pc = pc /\ x.alone = calls[c].alone /\ x.tool = calls[c].tool
        /\ x.mode = calls[c].mode
    BY <1>0 DEF CallRecord
  <2> HIDE DEF x
  <2> QED BY <1>6, <2>1, <2>2, <1>4
<1>7. ASSUME NEW pc, pc # "look", calls' = [calls EXCEPT ![c].pc = pc, ![c].counted = table]
      PROVE  /\ calls'[c].alone = calls[c].alone /\ calls'[c].tool = calls[c].tool
             /\ calls'[c].mode = calls[c].mode /\ calls'[c].pc # "look"
             /\ \A o \in Call \ {c} : calls'[o] = calls[o]
  <2> DEFINE x == [calls[c] EXCEPT !.pc = pc, !.counted = table]
  <2>1. calls'[c] = x /\ \A o \in Call \ {c} : calls'[o] = calls[o]
    BY <1>0, <1>7
  <2>2. x.pc = pc /\ x.alone = calls[c].alone /\ x.tool = calls[c].tool
        /\ x.mode = calls[c].mode
    BY <1>0 DEF CallRecord
  <2> HIDE DEF x
  <2> QED BY <1>7, <2>1, <2>2, <1>4
<1>8. /\ calls'[c].alone = calls[c].alone /\ calls'[c].tool = calls[c].tool
      /\ calls'[c].mode = calls[c].mode /\ calls'[c].pc # "look"
      /\ \A o \in Call \ {c} : calls'[o] = calls[o]
  <2>1. CASE LookScratch(c)
    BY <1>3, <2>1 DEF LookScratch, FirstEnsured
  <2>2. CASE EnsureCatalog(c) \/ EnsureSchema(c) \/ DropScratch(c)
    BY <1>3, <2>2 DEF EnsureCatalog, EnsureSchema, DropScratch, AfterSchema
  <2>3. CASE CreateScratch(c)
    BY <1>3, <1>5, <2>3 DEF CreateScratch
  <2>4. CASE DescribeScratch(c)
    BY <1>6, <2>4 DEF DescribeScratch
  <2>5. CASE CountScratch(c)
    BY <1>7, <2>5 DEF CountScratch
  <2>6. CASE CutOff(c)
    BY <1>3, <2>6 DEF CutOff
  <2> QED BY <2>1, <2>2, <2>3, <2>4, <2>5, <2>6 DEF GoesOn
<1>9. UnderWay' \subseteq UnderWay
  BY <1>1, <1>8 DEF UnderWay
<1> QED BY <1>1, <1>2, <1>8, <1>9

\* A step of a call that is under way neither hinders nor helps one that is
\* unhindered: that one is over, or not yet begun.
LEMMA OthersUnhindered ==
    ASSUME RivalInv, NEW c \in Call, GoesOn(c), NEW o \in Call, o # c
    PROVE  Unhindered(o)'
<1>1. /\ c \in UnderWay /\ catalogMode' = catalogMode /\ calls'[o] = calls[o]
      /\ UnderWay' \subseteq UnderWay
  BY GoesOnAlone DEF RivalInv, ScratchInv
<1>2. Unhindered(o)
  BY DEF RivalInv
<1>3. o \in UnderWay => ~calls[o].alone
  BY <1>1, <1>2 DEF Unhindered
<1>4. o \in UnderWay' <=> o \in UnderWay
  BY <1>1 DEF UnderWay
<1>5. o \notin UnderWay =>
          calls[o].pc \notin {"look", "catalog", "schema", "create", "describe", "count"}
  BY DEF UnderWay, Over
<1> QED BY <1>1, <1>2, <1>3, <1>4, <1>5 DEF Unhindered

\* The call itself stays unhindered.
LEMMA StaysUnhindered ==
    ASSUME RivalInv, NEW c \in Call, GoesOn(c)
    PROVE  Unhindered(c)'
<1>0. ScratchTypes /\ Unhindered(c) /\ Ready(c) /\ (catalogMode = "shared" => hasCatalog)
      /\ calls[c] \in CallRecord /\ made \in Nat
  BY DEF RivalInv, ScratchInv, ScratchTypes
<1>1. /\ c \in UnderWay /\ catalogMode' = catalogMode /\ UnderWay' \subseteq UnderWay
      /\ calls'[c].alone = calls[c].alone /\ calls'[c].tool = calls[c].tool
      /\ calls'[c].mode = calls[c].mode /\ calls'[c].pc # "look"
  BY <1>0, GoesOnAlone
<1>2. /\ calls'[c].alone /\ c \in UnderWay' => UnderWay' = {c}
      /\ calls'[c].mode \in {"create", "replace"}
  BY <1>0, <1>1 DEF Unhindered
<1> SUFFICES ASSUME calls[c].alone, catalogMode = "shared" \/ ~Looks(calls[c].tool, calls[c].mode)
             PROVE  LET o == calls'[c]
                    IN  /\ o.pc # "failed" /\ (o.pc = "refused" => o.mode = "create")
                        /\ o.pc \in {"catalog", "schema"} /\ o.mode = "create" => table' = 0
                        /\ o.pc = "create" => table' = 0
                        /\ o.pc \in {"describe", "count"} => table' # 0
  BY <1>1, <1>2 DEF Unhindered, Looks
<1>3. /\ calls[c].pc # "failed"
      /\ calls[c].pc \in {"catalog", "schema"} /\ calls[c].mode = "create" => table = 0
      /\ calls[c].pc = "create" => table = 0
      /\ calls[c].pc \in {"describe", "count"} => table # 0
      /\ calls[c].pc = "look" => hasCatalog
  BY <1>0 DEF Unhindered
<1>4. CASE LookScratch(c)
  <2> DEFINE pc == IF calls[c].mode = "create" /\ table # 0 THEN "refused" ELSE FirstEnsured
  <2>1. Goto(c, pc) /\ table' = table
    BY <1>3, <1>4 DEF LookScratch
  <2>2. calls'[c].pc = pc
    BY <1>0, <2>1, GotoOnly
  <2> QED BY <1>1, <2>1, <2>2 DEF FirstEnsured
<1>5. CASE EnsureCatalog(c)
  <2>1. Goto(c, "schema") /\ table' = table /\ calls[c].pc = "catalog"
    BY <1>5 DEF EnsureCatalog
  <2>2. calls'[c].pc = "schema"
    BY <1>0, <2>1, GotoOnly
  <2> QED BY <1>1, <1>3, <2>1, <2>2
<1>6. CASE EnsureSchema(c)
  <2>1. Goto(c, AfterSchema(calls[c].mode)) /\ table' = table /\ calls[c].pc = "schema"
    BY <1>6 DEF EnsureSchema
  <2>2. calls'[c].pc = AfterSchema(calls[c].mode)
    BY <1>0, <2>1, GotoOnly
  <2>3. calls[c].mode = "create" \/ calls[c].mode = "replace"
    BY <1>0, <2>1 DEF Unhindered, UnderWay, Over
  <2> QED BY <1>1, <1>3, <2>1, <2>2, <2>3 DEF AfterSchema
<1>7. CASE DropScratch(c)
  <2>1. Goto(c, "create") /\ table' = 0
    BY <1>7 DEF DropScratch
  <2>2. calls'[c].pc = "create"
    BY <1>0, <2>1, GotoOnly
  <2> QED BY <2>1, <2>2
<1>8. CASE CreateScratch(c)
  <2>1. calls[c].pc = "create" /\ hasSchema /\ table = 0
    BY <1>0, <1>3, <1>8 DEF CreateScratch, Ready
  <2>2. /\ table' = made + 1
        /\ calls' = [calls EXCEPT ![c].pc = "describe", ![c].made = made + 1]
    BY <1>8, <2>1 DEF CreateScratch
  <2>3. calls'[c].pc = "describe" /\ table' # 0
    BY <1>0, <2>2 DEF ScratchTypes, CallRecord
  <2> QED BY <2>3
<1>9. CASE DescribeScratch(c)
  <2>1. /\ table # 0 /\ table' = table
        /\ calls' = [calls EXCEPT ![c].pc = "count", ![c].described = table]
    BY <1>3, <1>9 DEF DescribeScratch
  <2>2. calls'[c].pc = "count"
    BY <1>0, <2>1 DEF ScratchTypes, CallRecord
  <2> QED BY <2>1, <2>2
<1>10. CASE CountScratch(c)
  <2>1. /\ table # 0 /\ table' = table
        /\ calls' = [calls EXCEPT ![c].pc = "done", ![c].counted = table]
    BY <1>3, <1>10 DEF CountScratch
  <2>2. calls'[c].pc = "done"
    BY <1>0, <2>1 DEF ScratchTypes, CallRecord
  <2> QED BY <2>2
<1>11. CASE CutOff(c)
  <2>1. PICK pc \in CutOffs : Goto(c, pc)
    BY <1>11 DEF CutOff, CutOffs
  <2>2. calls'[c].pc \in CutOffs
    BY <1>0, <2>1, GotoOnly
  <2> QED BY <2>2 DEF CutOffs
<1> QED BY <1>4, <1>5, <1>6, <1>7, <1>8, <1>9, <1>10, <1>11 DEF GoesOn

\* A call that begins finds the label to itself, or is one of several that do not.
LEMMA BeginUnhindered ==
    ASSUME RivalInv, NEW c \in Call, BeginScratch(c), NEW o \in Call
    PROVE  Unhindered(o)'
<1>0. ScratchTypes /\ Unhindered(o) /\ calls[o] \in CallRecord
  BY SMTT(30) DEF RivalInv, ScratchInv, ScratchTypes
<1>1. PICK tool \in {"ingest", "derive"}, mode \in {"create", "replace"} :
          /\ calls[c].pc = "new"
          /\ calls' = [x \in Call |->
               CASE x = c -> [NotCalled EXCEPT
                                  !.pc = IF Looks(tool, mode) THEN "look" ELSE FirstEnsured,
                                  !.tool = tool, !.mode = mode, !.alone = UnderWay = {}]
                 [] OTHER -> [calls[x] EXCEPT !.alone = @ /\ x \notin UnderWay]]
          /\ catalogMode' = catalogMode /\ table' = table
  BY DEF BeginScratch
<1>2. ASSUME NEW x \in Call, x # c
      PROVE  /\ calls'[x].pc = calls[x].pc /\ calls'[x].tool = calls[x].tool
             /\ calls'[x].mode = calls[x].mode
             /\ calls'[x].alone <=> calls[x].alone /\ x \notin UnderWay
  <2>1. calls'[x] = [calls[x] EXCEPT !.alone = @ /\ x \notin UnderWay]
    BY <1>1, <1>2
  <2>2. calls[x] \in CallRecord
    BY <1>0 DEF ScratchTypes
  <2> QED BY <2>1, <2>2 DEF CallRecord
<1>3. UnderWay' \subseteq UnderWay \cup {c}
  BY <1>2 DEF UnderWay
<1>4. CASE o = c
  <2> DEFINE begun == IF Looks(tool, mode) THEN "look" ELSE FirstEnsured
             quiet == UnderWay = {}
  <2>1. calls'[c] = [pc |-> begun, tool |-> tool, mode |-> mode, alone |-> quiet,
                     made |-> 0, described |-> 0, counted |-> 0]
    BY <1>1 DEF NotCalled
  <2>2. calls'[c].pc = begun /\ calls'[c].tool = tool /\ calls'[c].mode = mode
        /\ calls'[c].alone = quiet
    BY <2>1
  <2>3. calls'[c].alone /\ c \in UnderWay' => UnderWay' = {c}
    BY <1>3, <2>2
  <2>4. begun \in {"look", "catalog", "schema"} /\ (begun = "look" <=> Looks(tool, mode))
    BY DEF FirstEnsured
  <2>5. begun # "look" => mode = "replace"
    BY <2>4 DEF Looks
  <2> HIDE DEF begun, quiet
  <2> QED BY <1>4, <2>2, <2>3, <2>4, <2>5 DEF Unhindered
<1>5. CASE o # c
  <2>1. calls'[o].alone => o \notin UnderWay /\ o \notin UnderWay'
    BY <1>2, <1>5 DEF UnderWay
  <2>2. o \notin UnderWay =>
            calls[o].pc \notin {"look", "catalog", "schema", "create", "describe", "count"}
    BY DEF UnderWay, Over
  <2>3. calls'[o].alone => calls[o].alone
    BY <1>2, <1>5
  <2>4. /\ calls'[o].pc = calls[o].pc /\ calls'[o].tool = calls[o].tool
        /\ calls'[o].mode = calls[o].mode /\ (o \in UnderWay' <=> o \in UnderWay)
    BY <1>2, <1>5 DEF UnderWay
  <2> QED BY <1>0, <1>1, <2>1, <2>2, <2>3, <2>4, ZenonT(60) DEF Unhindered, Looks
<1> QED BY <1>4, <1>5

\* A table keeps a maker that has not failed.
LEMMA WinnerStep ==
    ASSUME RivalInv, NEW c \in Call, BeginScratch(c) \/ GoesOn(c)
    PROVE  WinnerInv'
<1> SUFFICES ASSUME table' # 0 PROVE \E w \in Call : Winner(w)'
  BY DEF WinnerInv
<1>0. ScratchTypes /\ calls[c] \in CallRecord /\ made \in Nat /\ Ready(c)
  BY DEF RivalInv, ScratchInv, ScratchTypes
<1>1. CASE BeginScratch(c)
  <2>1. table' = table /\ calls[c].pc = "new"
    BY <1>1 DEF BeginScratch
  <2>2. PICK w \in Call : Winner(w)
    BY <2>1 DEF RivalInv, WinnerInv
  <2>3. w # c
    BY <2>1, <2>2, ZenonT(60) DEF Winner, CutOffs
  <2>4. calls'[w] = [calls[w] EXCEPT !.alone = @ /\ w \notin UnderWay]
    BY <1>1, <2>3 DEF BeginScratch
  <2>5. calls[w] \in CallRecord
    BY <1>0 DEF ScratchTypes
  <2>6. Winner(w)'
    BY <2>1, <2>2, <2>4, <2>5 DEF Winner, CallRecord
  <2> QED BY <2>6
<1>2. ASSUME table' = table, GoesOn(c), NEW w \in Call, Winner(w), w # c PROVE Winner(w)'
  <2>1. calls'[w] = calls[w]
    BY <1>0, <1>2, GoesOnAlone
  <2> QED BY <1>2, <2>1 DEF Winner
<1>3. ASSUME calls[c].pc \notin {"describe", "count"} \cup Over, GoesOn(c), table' = table
      PROVE  \E w \in Call : Winner(w)'
  <2>1. PICK w \in Call : Winner(w)
    BY <1>3 DEF RivalInv, WinnerInv
  <2>2. w # c
    BY <1>3, <2>1 DEF Winner, CutOffs, Over
  <2> QED BY <1>2, <1>3, <2>1, <2>2
<1>4. CASE LookScratch(c) \/ EnsureCatalog(c) \/ EnsureSchema(c)
  <2>1. calls[c].pc \in {"look", "catalog", "schema"} /\ table' = table
    BY <1>4 DEF LookScratch, EnsureCatalog, EnsureSchema
  <2> QED BY <1>3, <1>4, <2>1 DEF GoesOn, Over
<1>5. ~DropScratch(c)
  BY DEF DropScratch
<1>6. CASE CreateScratch(c)
  <2>1. calls[c].pc = "create" /\ hasSchema
    BY <1>0, <1>6 DEF CreateScratch, Ready
  <2>2. CASE table = 0
    <3>1. /\ table' = made + 1
          /\ calls' = [calls EXCEPT ![c].pc = "describe", ![c].made = made + 1]
      BY <1>6, <2>1, <2>2 DEF CreateScratch
    <3>2. calls'[c].pc = "describe" /\ calls'[c].made = made + 1
      BY <1>0, <3>1 DEF ScratchTypes, CallRecord
    <3>3. Winner(c)'
      BY <3>1, <3>2 DEF Winner
    <3> QED BY <3>3
  <2>3. CASE table # 0
    <3>1. table' = table
      BY <1>6, <2>3 DEF CreateScratch
    <3> QED BY <1>3, <1>6, <2>1, <3>1 DEF GoesOn, Over
  <2> QED BY <2>2, <2>3
<1>7. ASSUME GoesOn(c), table' = table, calls[c].pc \in {"describe", "count"},
             Winner(c) => Winner(c)'
      PROVE  \E w \in Call : Winner(w)'
  <2>1. PICK w \in Call : Winner(w)
    BY <1>7 DEF RivalInv, WinnerInv
  <2> QED BY <1>2, <1>7, <2>1
<1>8. CASE DescribeScratch(c)
  <2>1. /\ table' = table /\ calls[c].pc = "describe"
        /\ calls' = [calls EXCEPT ![c].pc = "count", ![c].described = table]
    BY <1>8 DEF DescribeScratch
  <2>2. calls'[c].pc = "count" /\ calls'[c].described = table /\ calls'[c].made = calls[c].made
    BY <1>0, <2>1 DEF ScratchTypes, CallRecord
  <2>3. Winner(c) => Winner(c)'
    BY <2>1, <2>2 DEF Winner
  <2> QED BY <1>7, <1>8, <2>1, <2>3 DEF GoesOn
<1>9. CASE CountScratch(c)
  <2>1. /\ table' = table /\ calls[c].pc = "count"
        /\ calls' = [calls EXCEPT ![c].pc = "done", ![c].counted = table]
    BY <1>9 DEF CountScratch
  <2>2. calls'[c].pc = "done" /\ calls'[c].counted = table /\ calls'[c].made = calls[c].made
    BY <1>0, <2>1 DEF ScratchTypes, CallRecord
  <2>3. Winner(c) => Winner(c)'
    BY <2>1, <2>2 DEF Winner
  <2> QED BY <1>7, <1>9, <2>1, <2>3 DEF GoesOn
<1>10. CASE CutOff(c)
  <2>1. PICK pc \in CutOffs : Goto(c, pc)
    BY <1>10 DEF CutOff, CutOffs
  <2>2. calls'[c].pc \in CutOffs /\ calls'[c].made = calls[c].made
    BY <1>0, <2>1, GotoOnly
  <2>3. table' = table /\ GoesOn(c)
    BY <1>10 DEF CutOff, GoesOn
  <2>4. Winner(c) => Winner(c)'
    BY <2>2, <2>3 DEF Winner
  <2>5. PICK w \in Call : Winner(w)
    BY <2>3 DEF RivalInv, WinnerInv
  <2> QED BY <1>2, <2>3, <2>4, <2>5
<1> QED BY <1>1, <1>4, <1>5, <1>6, <1>8, <1>9, <1>10 DEF GoesOn

LEMMA RivalStep == RivalInv /\ [ScratchNext]_scratchVars => RivalInv'
<1> SUFFICES ASSUME RivalInv, [ScratchNext]_scratchVars PROVE RivalInv'
  OBVIOUS
<1>1. ScratchInv' /\ ScratchTypes
  BY ScratchStep DEF RivalInv, ScratchInv
<1>2. ASSUME NEW c \in Call, BeginScratch(c) PROVE RivalInv'
  <2>1. catalogMode' = catalogMode /\ hasCatalog' = hasCatalog
    BY <1>2 DEF BeginScratch
  <2> QED BY <1>1, <1>2, <2>1, BeginUnhindered, WinnerStep DEF RivalInv
<1>3. ASSUME NEW c \in Call, GoesOn(c) PROVE RivalInv'
  <2>1. catalogMode' = catalogMode /\ (hasCatalog => hasCatalog')
    BY <1>1, <1>3, GoesOnAlone
  <2>2. \A o \in Call : Unhindered(o)'
    BY <1>3, OthersUnhindered, StaysUnhindered
  <2>3. WinnerInv'
    BY <1>3, WinnerStep
  <2> QED BY <1>1, <2>1, <2>2, <2>3 DEF RivalInv
<1>4. CASE UNCHANGED scratchVars
  BY <1>1, <1>4 DEF scratchVars, RivalInv, WinnerInv, Winner, Unhindered, UnderWay
<1> QED BY <1>2, <1>3, <1>4 DEF ScratchNext, GoesOn

\* Among racing calls that run to their end, the last to have made a table has
\* returned with it.
THEOREM RacesAreWon == ScratchSpec => []SomebodyWins
<1>1. RivalInv => SomebodyWins
  <2> SUFFICES ASSUME RivalInv, made > 0,
                      \A c \in Call : calls[c].pc \in {"new", "done", "refused", "failed"}
               PROVE  \E c \in Call : calls[c].pc = "done" /\ calls[c].made = table
                                                          /\ calls[c].counted = table
    BY DEF SomebodyWins
  <2>1. table # 0
    BY DEF RivalInv, ScratchInv, OnlyTheWindowLoses
  <2>2. PICK c \in Call : Winner(c)
    BY <2>1 DEF RivalInv, WinnerInv
  <2> QED BY <2>2 DEF Winner, CutOffs
<1> QED BY <1>1, RivalInitInv, RivalStep, PTL DEF ScratchSpec

\* A call without a rival does what it was asked.
THEOREM NoRivalNoFailure == ScratchSpec => []AloneSucceeds
<1>1. RivalInv => AloneSucceeds
  BY DEF RivalInv, Unhindered, AloneSucceeds
<1> QED BY <1>1, RivalInitInv, RivalStep, PTL DEF ScratchSpec
=============================================================================
