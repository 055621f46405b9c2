---------------------------- MODULE RequestProofs ----------------------------
(***************************************************************************)
(* Proofs about the parts of a request (Requests), one part after the      *)
(* other, each for every value of its constants.                           *)
(***************************************************************************)
EXTENDS Requests, SequenceTheorems, TLAPS
-----------------------------------------------------------------------------
(***************************************************************************)
(* Shapes: a dataset's columns change only under an outdated probe.        *)
(***************************************************************************)

WriterRecord == [pc : {"new", "create", "load", "commit", "columns", "probe", "ctas", "over"},
                 mode : {"none", "create", "replace", "append"},
                 shape : Shape, base : Nat, read : Nat]

ShapeTypes ==
    /\ dataset \in [version : Nat, shape : Shape, rows : SUBSET Shape]
    /\ source \in [shape : Shape, n : Nat]
    /\ writer \in [Writer -> WriterRecord]
    /\ made \in Nat /\ changes \in Nat

\* What a writer's looks are worth.  Versions are numbered as they are made and
\* changes of the source as they happen, so a writer whose numbers are still
\* those of dataset and source knows their columns.
Informed(o, d, s, m) ==
    /\ o.base <= m /\ o.read <= s.n
    /\ o.pc \in {"commit", "probe"} => o.base > 0
    /\ o.pc \in {"commit", "probe", "ctas"} /\ o.base > 0 /\ o.base = d.version =>
           o.shape = d.shape
    /\ o.pc = "ctas" /\ o.base > 0 /\ o.read = s.n => DOMAIN o.shape = DOMAIN s.shape

ShapeInv ==
    /\ ShapeTypes
    /\ dataset.version <= made
    /\ dataset.rows \subseteq {dataset.shape}
    /\ \A w \in Writer : Informed(writer[w], dataset, source, made)

\* Some shape stands for the columns of no dataset.
LEMMA NoColumnsIsAShape == NoColumns \in Shape
  BY ShapeAssumption DEF NoColumns

\* A writer yet to call is a record that has seen no version and no change.
LEMMA UnbornRecord ==
    Unborn \in WriterRecord /\ Unborn.base = 0 /\ Unborn.read = 0
  BY NoColumnsIsAShape DEF Unborn, WriterRecord

\* The start: no dataset, and nobody has looked at anything.
LEMMA ShapeInitInv == ShapeInit => ShapeInv
<1> SUFFICES ASSUME ShapeInit PROVE ShapeInv
  OBVIOUS
<1>1. ShapeTypes
  BY NoColumnsIsAShape, UnbornRecord DEF ShapeInit, ShapeTypes, NoDataset
<1>2. dataset.version <= made /\ dataset.rows \subseteq {dataset.shape}
  BY DEF ShapeInit, NoDataset
<1>3. ASSUME NEW w \in Writer PROVE Informed(writer[w], dataset, source, made)
  BY DEF ShapeInit, Informed, Unborn, NoDataset, There
<1> QED BY <1>1, <1>2, <1>3 DEF ShapeInv

\* A step of one writer keeps the others informed: it leaves the dataset alone,
\* or makes a version whose number nobody has seen.
LEMMA WriterSteps ==
    ASSUME ShapeInv, NEW w \in Writer, NEW o \in WriterRecord, Step(w, o),
           UNCHANGED <<source, changes>>,
           \/ UNCHANGED <<dataset, made>>
           \/ \E shape \in Shape, kept \in SUBSET Shape :
                  kept \subseteq {shape} /\ Make(shape, kept),
           Informed(o, dataset', source', made')
    PROVE  ShapeInv'
<1> USE DEF ShapeInv
<1>1. writer' \in [Writer -> WriterRecord] /\ writer'[w] = o
      /\ \A v \in Writer \ {w} : writer'[v] = writer[v]
  BY DEF ShapeTypes, Step
<1>2. CASE UNCHANGED <<dataset, made>>
  <2>1. ShapeTypes'
    BY <1>1, <1>2 DEF ShapeTypes
  <2>2. ASSUME NEW v \in Writer PROVE Informed(writer'[v], dataset', source', made')
    BY <1>1, <1>2 DEF Informed, There
  <2> QED BY <1>2, <2>1, <2>2
<1>3. CASE \E shape \in Shape, kept \in SUBSET Shape : kept \subseteq {shape} /\ Make(shape, kept)
  <2>1. PICK shape \in Shape, kept \in SUBSET Shape : kept \subseteq {shape} /\ Make(shape, kept)
    BY <1>3
  <2>2. /\ made \in Nat /\ made' = made + 1 /\ dataset'.version = made + 1
        /\ dataset'.shape = shape /\ dataset'.rows = kept
    BY <2>1 DEF Make, ShapeTypes
  <2>3. ShapeTypes'
    BY <1>1, <2>1, <2>2 DEF ShapeTypes, Make
  <2>4. ASSUME NEW v \in Writer PROVE Informed(writer'[v], dataset', source', made')
    <3>1. CASE v = w
      BY <1>1, <3>1 DEF Informed, There
    <3>2. CASE v # w
      <4>1. writer'[v] = writer[v] /\ writer[v].base \in Nat /\ writer[v].base <= made
        BY <1>1, <3>2 DEF ShapeTypes, WriterRecord, Informed
      <4>2. writer'[v].base <= made' /\ writer'[v].base # dataset'.version
        BY <2>2, <4>1
      <4> QED BY <4>1, <4>2 DEF Informed
    <3> QED BY <3>1, <3>2
  <2> QED BY <2>1, <2>2, <2>3, <2>4
<1> QED BY <1>2, <1>3

\* A writer whose call is over, or has looked at nothing, claims nothing.
LEMMA NothingClaimed ==
    ASSUME ShapeInv, NEW o, o.pc \in {"new", "create", "load", "columns", "over"},
           o.base <= made', o.read <= source'.n
    PROVE  Informed(o, dataset', source', made')
  BY DEF Informed

LEMMA CallEnds ==
    ASSUME ShapeInv, NEW w \in Writer, Ends(w), UNCHANGED <<source, changes>>,
           \/ UNCHANGED <<dataset, made>>
           \/ \E shape \in Shape, kept \in SUBSET Shape :
                  kept \subseteq {shape} /\ Make(shape, kept)
    PROVE  ShapeInv'
<1>1. /\ writer[w] \in WriterRecord /\ writer[w].base <= made /\ writer[w].read <= source.n
      /\ made \in Nat
  BY DEF ShapeInv, ShapeTypes, Informed
<1>2. PICK o : o = [writer[w] EXCEPT !.pc = "over"]
  OBVIOUS
<1>3. /\ o \in WriterRecord /\ o.pc = "over" /\ o.base = writer[w].base
      /\ o.read = writer[w].read
  BY <1>1, <1>2 DEF WriterRecord
<1>4. Step(w, o)
  BY <1>2 DEF Ends, GoTo
<1>5. made' = made \/ made' = made + 1
  BY DEF Make
<1>6. o.base <= made' /\ o.read <= source'.n
  BY <1>1, <1>3, <1>5 DEF WriterRecord
<1>7. Informed(o, dataset', source', made')
  BY <1>3, <1>6, NothingClaimed
<1> QED BY <1>3, <1>4, <1>7, WriterSteps

LEMMA ShapeStep == ShapeInv /\ [ShapeNext]_shapeVars => ShapeInv'
<1> SUFFICES ASSUME ShapeInv, [ShapeNext]_shapeVars PROVE ShapeInv'
  OBVIOUS
<1>0. /\ dataset.version \in Nat /\ dataset.shape \in Shape /\ dataset.rows \in SUBSET Shape
      /\ source.shape \in Shape /\ source.n \in Nat /\ made \in Nat /\ changes \in Nat
      /\ dataset.version <= made /\ dataset.rows \subseteq {dataset.shape}
  BY DEF ShapeInv, ShapeTypes
<1>w. ASSUME NEW w \in Writer
      PROVE  writer[w] \in WriterRecord /\ Informed(writer[w], dataset, source, made)
  BY DEF ShapeInv, ShapeTypes
<1>1. ASSUME NEW w \in Writer, WriteBegins(w) PROVE ShapeInv'
  <2>1. PICK mode \in {"create", "replace", "append"}, shape \in Shape :
            /\ Step(w, [Unborn EXCEPT !.pc = IF There THEN "load" ELSE "create",
                                      !.mode = mode, !.shape = shape])
            /\ UNCHANGED <<dataset, source, made, changes>>
    BY <1>1 DEF WriteBegins
  <2>2. PICK o : o = [Unborn EXCEPT !.pc = IF There THEN "load" ELSE "create",
                                    !.mode = mode, !.shape = shape]
    OBVIOUS
  <2>3. o \in WriterRecord /\ o.pc \in {"load", "create"} /\ o.base = 0 /\ o.read = 0
    BY <2>2, UnbornRecord DEF WriterRecord
  <2>4. Informed(o, dataset', source', made')
    BY <1>0, <2>1, <2>3, NothingClaimed
  <2> QED BY <2>1, <2>2, <2>3, <2>4, WriterSteps
<1>2. ASSUME NEW w \in Writer, WriteCreates(w) PROVE ShapeInv'
  <2>1. CASE There
    BY <1>2, <2>1, CallEnds DEF WriteCreates
  <2>2. CASE ~There
    <3>1. /\ Make(writer[w].shape, {})
          /\ Step(w, [writer[w] EXCEPT !.pc = "commit", !.base = made + 1])
          /\ UNCHANGED <<source, changes>>
      BY <1>2, <2>2 DEF WriteCreates
    <3>2. PICK o : o = [writer[w] EXCEPT !.pc = "commit", !.base = made + 1]
      OBVIOUS
    <3>3. /\ o \in WriterRecord /\ o.pc = "commit" /\ o.base = made + 1
          /\ o.shape = writer[w].shape /\ o.read = writer[w].read
      <4>1. writer[w] \in WriterRecord /\ made + 1 \in Nat
        BY <1>0, <1>w
      <4> QED BY <3>2, <4>1 DEF WriterRecord
    <3>4. Informed(o, dataset', source', made')
      BY <1>0, <1>w, <3>1, <3>3 DEF Informed, Make
    <3>5. writer[w].shape \in Shape /\ {} \in SUBSET Shape
      BY <1>w DEF WriterRecord
    <3> QED BY <3>1, <3>2, <3>3, <3>4, <3>5, WriterSteps
  <2> QED BY <2>1, <2>2
<1>3. ASSUME NEW w \in Writer, WriteLoads(w) PROVE ShapeInv'
  <2>1. CASE There /\ Compatible(writer[w].shape)
    <3>1. /\ Step(w, [writer[w] EXCEPT !.pc = "commit", !.base = dataset.version])
          /\ UNCHANGED <<dataset, source, made, changes>>
      BY <1>3, <2>1 DEF WriteLoads
    <3>2. PICK o : o = [writer[w] EXCEPT !.pc = "commit", !.base = dataset.version]
      OBVIOUS
    <3>3. /\ o \in WriterRecord /\ o.pc = "commit" /\ o.base = dataset.version
          /\ o.shape = writer[w].shape /\ o.read = writer[w].read
      BY <1>0, <1>w, <3>2 DEF WriterRecord
    <3>4. Informed(o, dataset', source', made')
      BY <1>0, <1>w, <2>1, <3>1, <3>3 DEF Informed, There, Compatible
    <3> QED BY <3>1, <3>2, <3>3, <3>4, WriterSteps
  <2>2. CASE ~(There /\ Compatible(writer[w].shape))
    BY <1>3, <2>2, CallEnds DEF WriteLoads
  <2> QED BY <2>1, <2>2
<1>4. ASSUME NEW w \in Writer, WriteCommits(w) PROVE ShapeInv'
  <2>1. CASE dataset.version = writer[w].base
    <3>1. PICK kept : kept = {writer[w].shape}
                               \cup IF writer[w].mode = "append" THEN dataset.rows ELSE {}
      OBVIOUS
    <3>2. Make(dataset.shape, kept) /\ Ends(w) /\ UNCHANGED <<source, changes>>
      BY <1>4, <2>1, <3>1 DEF WriteCommits
    <3>3. writer[w].shape = dataset.shape
      BY <1>4, <1>w, <2>1 DEF WriteCommits, Informed
    <3>4. kept \in SUBSET Shape /\ kept \subseteq {dataset.shape}
      BY <1>0, <3>1, <3>3
    <3> QED BY <1>0, <3>2, <3>4, CallEnds
  <2>2. CASE dataset.version # writer[w].base
    BY <1>4, <2>2, CallEnds DEF WriteCommits
  <2> QED BY <2>1, <2>2
<1>5. ASSUME NEW w \in Writer, DeriveBegins(w) PROVE ShapeInv'
  <2>1. PICK mode \in {"create", "replace"} :
            /\ Step(w, [Unborn EXCEPT !.pc = IF There THEN "columns" ELSE "ctas",
                                      !.mode = mode])
            /\ UNCHANGED <<dataset, source, made, changes>>
    BY <1>5 DEF DeriveBegins
  <2>2. PICK o : o = [Unborn EXCEPT !.pc = IF There THEN "columns" ELSE "ctas", !.mode = mode]
    OBVIOUS
  <2>3. o \in WriterRecord /\ o.pc \in {"columns", "ctas"} /\ o.base = 0 /\ o.read = 0
    BY <2>2, UnbornRecord DEF WriterRecord
  <2>4. Informed(o, dataset', source', made')
    BY <1>0, <2>1, <2>3 DEF Informed
  <2> QED BY <2>1, <2>2, <2>3, <2>4, WriterSteps
<1>6. ASSUME NEW w \in Writer, DeriveLoads(w) PROVE ShapeInv'
  <2>1. CASE There
    <3>1. /\ Step(w, [writer[w] EXCEPT !.pc = "probe", !.shape = dataset.shape,
                                       !.base = dataset.version])
          /\ UNCHANGED <<dataset, source, made, changes>>
      BY <1>6, <2>1 DEF DeriveLoads
    <3>2. PICK o : o = [writer[w] EXCEPT !.pc = "probe", !.shape = dataset.shape,
                                         !.base = dataset.version]
      OBVIOUS
    <3>3. /\ o \in WriterRecord /\ o.pc = "probe" /\ o.base = dataset.version
          /\ o.shape = dataset.shape /\ o.read = writer[w].read
      BY <1>0, <1>w, <3>2 DEF WriterRecord
    <3>4. Informed(o, dataset', source', made')
      BY <1>0, <1>w, <2>1, <3>1, <3>3 DEF Informed, There
    <3> QED BY <3>1, <3>2, <3>3, <3>4, WriterSteps
  <2>2. CASE ~There
    BY <1>6, <2>2, CallEnds DEF DeriveLoads
  <2> QED BY <2>1, <2>2
<1>7. ASSUME NEW w \in Writer, DeriveProbes(w) PROVE ShapeInv'
  <2>1. CASE KeepsColumns(w)
    <3>1. /\ writer[w].pc = "probe"
          /\ Step(w, [writer[w] EXCEPT !.pc = "ctas", !.read = source.n])
          /\ UNCHANGED <<dataset, source, made, changes>>
      BY <1>7, <2>1 DEF DeriveProbes
    <3>2. PICK o : o = [writer[w] EXCEPT !.pc = "ctas", !.read = source.n]
      OBVIOUS
    <3>3. /\ o \in WriterRecord /\ o.pc = "ctas" /\ o.read = source.n
          /\ o.base = writer[w].base /\ o.shape = writer[w].shape
      BY <1>0, <1>w, <3>2 DEF WriterRecord
    <3>4. Informed(o, dataset', source', made')
      BY <1>0, <1>w, <2>1, <3>1, <3>3 DEF Informed, KeepsColumns
    <3> QED BY <3>1, <3>2, <3>3, <3>4, WriterSteps
  <2>2. CASE ~KeepsColumns(w)
    BY <1>7, <2>2, CallEnds DEF DeriveProbes
  <2> QED BY <2>1, <2>2
<1>8. ASSUME NEW w \in Writer, DeriveCommits(w) PROVE ShapeInv'
  <2>1. Ends(w) /\ UNCHANGED <<source, changes>>
        /\ (UNCHANGED <<dataset, made>> \/ Make(source.shape, {source.shape}))
    BY <1>8 DEF DeriveCommits
  <2>2. {source.shape} \in SUBSET Shape
    BY <1>0
  <2> QED BY <1>0, <2>1, <2>2, CallEnds
<1>9. CASE ShapeForget
  <2>1. /\ dataset' = NoDataset /\ changes' = changes + 1 /\ UNCHANGED <<source, writer, made>>
    BY <1>9 DEF ShapeForget
  <2>2. dataset'.version = 0 /\ dataset'.rows = {}
        /\ dataset' \in [version : Nat, shape : Shape, rows : SUBSET Shape]
    BY <2>1, NoColumnsIsAShape DEF NoDataset
  <2>3. ShapeTypes'
    BY <1>0, <2>1, <2>2 DEF ShapeInv, ShapeTypes
  <2>4. ASSUME NEW w \in Writer PROVE Informed(writer'[w], dataset', source', made')
    BY <1>w, <2>1, <2>2 DEF Informed
  <2> QED BY <1>0, <2>1, <2>2, <2>3, <2>4 DEF ShapeInv
<1>10. CASE SourceChanges
  <2>1. /\ source' \in [shape : Shape, n : {source.n + 1}] /\ changes' = changes + 1
        /\ UNCHANGED <<dataset, writer, made>>
    BY <1>10 DEF SourceChanges
  <2>2. source'.n = source.n + 1 /\ source' \in [shape : Shape, n : Nat]
    BY <1>0, <2>1
  <2>3. ShapeTypes'
    BY <1>0, <2>1, <2>2 DEF ShapeInv, ShapeTypes
  <2>4. ASSUME NEW w \in Writer PROVE Informed(writer'[w], dataset', source', made')
    BY <1>0, <1>w, <2>1, <2>2 DEF Informed, WriterRecord
  <2> QED BY <1>0, <2>1, <2>2, <2>3, <2>4 DEF ShapeInv
<1>11. CASE UNCHANGED shapeVars
  BY <1>11 DEF shapeVars, ShapeInv, ShapeTypes
<1> QED BY <1>1, <1>2, <1>3, <1>4, <1>5, <1>6, <1>7, <1>8, <1>9, <1>10, <1>11 DEF ShapeNext

\* The step of ShapesAreKept.
KeptStep ==
    /\ dataset'.rows \subseteq {dataset'.shape}
    /\ There /\ There' /\ dataset'.shape # dataset.shape =>
           \E w \in Writer :
               /\ writer[w].pc = "ctas" /\ writer'[w].pc = "over"
               /\ Outdated(w) \/ DOMAIN dataset'.shape = DOMAIN dataset.shape

\* Only a CTAS brings a table columns other than the ones it had, and one whose
\* numbers are those of dataset and source has compared the two.
LEMMA OnlyCtasReshapes ==
    ASSUME ShapeInv, ShapeNext, There, There', dataset'.shape # dataset.shape
    PROVE  \E w \in Writer :
               /\ writer[w].pc = "ctas" /\ writer'[w].pc = "over"
               /\ Outdated(w) \/ DOMAIN dataset'.shape = DOMAIN dataset.shape
<1>1. PICK w \in Writer : DeriveCommits(w)
  <2>1. ASSUME NEW w \in Writer, WriteCreates(w) PROVE FALSE
    BY <2>1 DEF WriteCreates
  <2>2. ASSUME NEW w \in Writer, WriteCommits(w) PROVE FALSE
    BY <2>2 DEF WriteCommits, Make
  <2>3. ~ShapeForget
    BY DEF ShapeForget, NoDataset, There
  <2> QED BY <2>1, <2>2, <2>3 DEF ShapeNext, WriteBegins, WriteLoads, DeriveBegins, DeriveLoads,
                                  DeriveProbes, SourceChanges
<1>2. writer[w] \in WriterRecord /\ Informed(writer[w], dataset, source, made)
      /\ writer \in [Writer -> WriterRecord] /\ dataset.version \in Nat
  BY DEF ShapeInv, ShapeTypes
<1>3. writer[w].pc = "ctas" /\ dataset'.shape = source.shape
  BY <1>1 DEF DeriveCommits, Make
<1>4. writer'[w].pc = "over"
  BY <1>1, <1>2 DEF DeriveCommits, Ends, GoTo, Step, WriterRecord
<1>5. Outdated(w) \/ DOMAIN dataset'.shape = DOMAIN dataset.shape
  BY <1>2, <1>3 DEF Outdated, Informed, There
<1> QED BY <1>3, <1>4, <1>5
-----------------------------------------------------------------------------
(***************************************************************************)
(* Tickets: a ticket is good for its time, but for the skew of two clocks. *)
(***************************************************************************)

\* Division by a positive number drops less than that number.
LEMMA DivBounds ==
    ASSUME NEW a \in Int, NEW k \in Nat \ {0}
    PROVE  a \div k \in Int /\ k * (a \div k) <= a /\ a < k * (a \div k) + k
  BY SMTT(20)

\* Two moments whose seconds are n + 1 or more apart are more than n seconds
\* apart, and two whose seconds are n or less apart less than n + 1.
LEMMA SecondsApart ==
    ASSUME NEW a \in Int, NEW b \in Int, NEW n \in Int, NEW k \in Nat \ {0}
    PROVE  /\ a \div k + n < b \div k => b - a > n * k
           /\ a \div k + n >= b \div k => b - a < (n + 1) * k
<1> DEFINE q == a \div k
           r == b \div k
<1>1. q \in Int /\ k * q <= a /\ a < k * q + k
  BY DivBounds
<1>2. r \in Int /\ k * r <= b /\ b < k * r + k
  BY DivBounds
<1> HIDE DEF q, r
<1>3. ASSUME NEW x \in Int, NEW y \in Int, x <= y PROVE k * x <= k * y
  BY <1>3, SMT
<1>4. /\ k * (q + n + 1) = k * q + n * k + k
      /\ k * (q + n) = k * q + n * k
      /\ (n + 1) * k = n * k + k
  BY <1>1, SMT
<1>5. /\ k * q \in Int /\ k * r \in Int /\ n * k \in Int /\ (n + 1) * k \in Int
      /\ k * (q + n + 1) \in Int /\ k * (q + n) \in Int
  BY <1>1, <1>2, SMT
<1>6. ASSUME q + n < r PROVE b - a > n * k
  <2>1. q + n + 1 \in Int /\ q + n + 1 <= r
    BY <1>1, <1>2, <1>6
  <2>2. k * (q + n + 1) <= k * r
    BY <1>2, <1>3, <2>1
  <2> QED BY <1>1, <1>2, <1>4, <1>5, <2>2
<1>7. ASSUME q + n >= r PROVE b - a < (n + 1) * k
  <2>1. q + n \in Int /\ r <= q + n
    BY <1>1, <1>2, <1>7
  <2>2. k * r <= k * (q + n)
    BY <1>2, <1>3, <2>1
  <2> QED BY <1>1, <1>2, <1>4, <1>5, <2>2
<1> QED BY <1>6, <1>7 DEF q, r

TicketTypes ==
    /\ now \in Int /\ skew \in -MaxSkew .. MaxSkew
    /\ ticket \in [exp : Int, at : Int, by : {"none", "mcp", "flight"}]
    /\ heard \in [at : Int, says : {"none", "yes", "no"}]

\* What the clock of a server said at a moment.
Then(server, moment) == IF server = "mcp" THEN moment ELSE moment + skew

\* A ticket is the one before all, or expires Ttl seconds after it was signed,
\* by the clock that signed it; and what the Flight server said of it was so
\* by its own clock when it said it.
TicketInv ==
    /\ TicketTypes
    /\ ticket = NoTicket \/
       (ticket.by # "none" /\ ticket.exp = (Then(ticket.by, ticket.at) \div Ticks) + Ttl)
    /\ heard.says # "none" => ticket # NoTicket
    /\ heard.says = "no" => ticket.exp < Then("flight", heard.at) \div Ticks
    /\ heard.says = "yes" => ticket.exp >= Then("flight", heard.at) \div Ticks

\* The start, and every part but this one: no ticket.
LEMMA NoTicketInv ==
    ASSUME now \in Int, skew \in -MaxSkew .. MaxSkew, ticket = NoTicket, heard = NothingHeard
    PROVE  TicketInv
  BY DEF TicketInv, TicketTypes, NoTicket, NothingHeard

\* Every step keeps it.
LEMMA TicketStep == TicketInv /\ [TicketNext]_ticketVars => TicketInv'
<1> SUFFICES ASSUME TicketInv, [TicketNext]_ticketVars PROVE TicketInv'
  OBVIOUS
<1> USE TicketAssumption
<1>0. TicketTypes /\ now + skew \in Int
  BY DEF TicketInv, TicketTypes
<1>1. CASE Tick
  BY <1>0, <1>1 DEF Tick, TicketInv, TicketTypes, Then
<1>s. ASSUME NEW server \in {"mcp", "flight"}
      PROVE  /\ Signed(server) \in [exp : Int, at : Int, by : {"none", "mcp", "flight"}]
             /\ Signed(server).by = server /\ Signed(server).at = now
             /\ Signed(server).exp = (Then(server, now) \div Ticks) + Ttl
  <2>1. now \div Ticks \in Int /\ (now + skew) \div Ticks \in Int
    BY <1>0, DivBounds DEF TicketTypes
  <2> QED BY <1>0, <2>1 DEF Signed, Seconds, Clock, Then, TicketTypes
<1>2. CASE OpenStream
  <2>1. ticket' = Signed("mcp") /\ heard' = heard /\ now' = now /\ skew' = skew
    BY <1>2 DEF OpenStream
  <2>2. heard.says = "none"
    BY <1>2 DEF OpenStream, TicketInv
  <2> QED BY <1>0, <1>s, <2>1, <2>2 DEF TicketInv, TicketTypes, Then, NoTicket
<1>3. CASE GetInfo
  <2>1. ticket' = Signed("flight") /\ heard' = NothingHeard /\ now' = now /\ skew' = skew
    BY <1>3 DEF GetInfo, Reissue
  <2> QED BY <1>0, <1>s, <2>1 DEF TicketInv, TicketTypes, Then, NoTicket, NothingHeard
<1>4. CASE Deny
  BY <1>0, <1>4 DEF Deny, Expired, Seconds, Clock, TicketInv, TicketTypes, Then
<1>5. CASE Redeem
  <2>1. /\ ticket' = ticket /\ now' = now /\ skew' = skew /\ ticket # NoTicket
        /\ heard' = [at |-> now, says |-> "yes"]
    BY <1>5 DEF Redeem
  <2>2. ~(ticket.exp < (now + skew) \div Ticks)
    BY <1>5 DEF Redeem, Expired, Seconds, Clock
  <2>3. ticket.exp \in Int /\ (now + skew) \div Ticks \in Int
    BY <1>0, DivBounds DEF TicketTypes
  <2>4. ticket.exp >= (now + skew) \div Ticks
    BY <2>2, <2>3
  <2> QED BY <1>0, <2>1, <2>4 DEF TicketInv, TicketTypes, Then
<1>6. CASE UNCHANGED ticketVars
  BY <1>6 DEF ticketVars, TicketInv, TicketTypes, Then
<1> QED BY <1>1, <1>2, <1>3, <1>4, <1>5, <1>6 DEF TicketNext

\* The seconds of the two clocks bound the time between signing and answer.
LEMMA TicketInvBounds == TicketInv => TicketsLastTheirTime
<1> SUFFICES ASSUME TicketInv PROVE TicketsLastTheirTime
  OBVIOUS
<1> DEFINE signed == Then(ticket.by, ticket.at)
           asked == Then("flight", heard.at)
           wait == Ttl * Ticks
<1>1. /\ TicketTypes /\ Ttl \in Int /\ Ticks \in Nat \ {0} /\ MaxSkew \in Nat
      /\ wait \in Int /\ (Ttl + 1) * Ticks \in Int
  BY TicketAssumption DEF TicketInv, TicketTypes
<1>2. /\ ticket.at \in Int /\ heard.at \in Int /\ skew \in Int /\ -MaxSkew <= skew /\ skew <= MaxSkew
      /\ signed \in Int /\ asked \in Int
  BY <1>1 DEF TicketTypes, Then
<1>3. heard.says # "none" =>
          /\ ticket.by \in {"mcp", "flight"}
          /\ ticket.exp = (signed \div Ticks) + Ttl
  BY DEF TicketInv, TicketTypes
<1>4. ASSUME ticket.by \in {"mcp", "flight"}
      PROVE  /\ Apart \in Nat
             /\ asked - signed <= heard.at - ticket.at + Apart
             /\ asked - signed >= heard.at - ticket.at - Apart
  BY <1>1, <1>2, <1>4 DEF Then, Apart
<1>5. /\ (signed \div Ticks) + Ttl < asked \div Ticks => asked - signed > wait
      /\ (signed \div Ticks) + Ttl >= asked \div Ticks => asked - signed < (Ttl + 1) * Ticks
  BY <1>1, <1>2, SecondsApart
<1> HIDE DEF signed, asked, wait
<1>6. ASSUME heard.says = "no" PROVE heard.at - ticket.at > wait - Apart
  <2>1. asked - signed > wait
    BY <1>3, <1>5, <1>6 DEF TicketInv, asked
  <2> QED BY <1>1, <1>2, <1>3, <1>4, <1>6, <2>1
<1>7. ASSUME heard.says = "yes" PROVE heard.at - ticket.at < (Ttl + 1) * Ticks + Apart
  <2>1. asked - signed < (Ttl + 1) * Ticks
    BY <1>3, <1>5, <1>7 DEF TicketInv, asked
  <2> QED BY <1>1, <1>2, <1>3, <1>4, <1>7, <2>1
<1> QED BY <1>6, <1>7 DEF TicketsLastTheirTime, wait
-----------------------------------------------------------------------------
(***************************************************************************)
(* Preview: how many rows come back, and what is said of the others.       *)
(***************************************************************************)

\* The LIMIT that goes to Trino, and what is made of its answer.
LimitSent == Wrap(ask.clause, ask.n, Cap(ask.limit))

Fetched == Least(ask.rows, LimitSent)

\* A reply is the one its call and its statement determine.
PreviewInv ==
    /\ ask \in Ask
    /\ sent = {} \/ sent = {LimitSent}
    /\ Answered =>
           /\ LimitSent >= 0
           /\ reply.rows = (IF Cap(ask.limit) < 0 THEN 0 ELSE Least(Fetched, Cap(ask.limit)))
           /\ reply.count = Least(Fetched, Cap(ask.limit))
           /\ reply.truncated = (Fetched > Cap(ask.limit))

LEMMA PreviewInitInv == PreviewInit => PreviewInv
  BY DEF PreviewInit, PreviewInv, NoReply, Answered

\* Every step keeps it.
LEMMA PreviewStep == PreviewInv /\ [PreviewNext]_previewVars => PreviewInv'
<1> SUFFICES ASSUME PreviewInv, [PreviewNext]_previewVars PROVE PreviewInv'
  OBVIOUS
<1>0. ask' = ask
  BY DEF PreviewNext, SendQuery, QueryRefused, Answer, previewVars
<1>1. LimitSent' = LimitSent /\ Fetched' = Fetched
  BY <1>0 DEF LimitSent, Fetched
<1>2. CASE SendQuery
  BY <1>0, <1>1, <1>2 DEF SendQuery, PreviewInv, Answered, LimitSent
<1>3. CASE QueryRefused
  BY <1>0, <1>1, <1>3 DEF QueryRefused, PreviewInv, Answered, NoReply
<1>4. CASE Answer
  <2>1. PICK limit \in sent :
            /\ limit >= 0
            /\ reply' = [status |-> "ok",
                         rows |-> IF Cap(ask.limit) < 0 THEN 0
                                  ELSE Least(Least(ask.rows, limit), Cap(ask.limit)),
                         count |-> Least(Least(ask.rows, limit), Cap(ask.limit)),
                         truncated |-> Least(ask.rows, limit) > Cap(ask.limit)]
    BY <1>4 DEF Answer
  <2>2. limit = LimitSent
    BY <2>1 DEF PreviewInv
  <2>3. sent' = sent
    BY <1>4 DEF Answer
  <2> QED BY <1>0, <1>1, <2>1, <2>2, <2>3 DEF PreviewInv, Answered, Fetched
<1>5. CASE UNCHANGED previewVars
  BY <1>0, <1>1, <1>5 DEF previewVars, PreviewInv, Answered
<1> QED BY <1>2, <1>3, <1>4, <1>5 DEF PreviewNext

\* A cap is the caller's positive limit if that is the lesser, and never more
\* than the setting.
LEMMA CapBounds ==
    ASSUME NEW limit, limit = {} \/ \E n \in Int : limit = {n}
    PROVE  /\ Cap(limit) \in Int /\ Cap(limit) <= RowCap
           /\ \A n \in limit : n > 0 => Cap(limit) > 0 /\ Cap(limit) <= n
           /\ limit = {} => Cap(limit) = RowCap
<1>0. RowCap \in Nat \ {0}
  BY PreviewAssumption
<1>1. CASE limit = {}
  BY <1>0, <1>1 DEF Cap
<1>2. CASE limit # {}
  <2>1. PICK n \in Int : limit = {n}
    BY <1>2
  <2>2. (CHOOSE x \in limit : TRUE) = n
    BY <2>1
  <2>3. Cap(limit) = IF n = 0 THEN RowCap ELSE Least(n, RowCap)
    BY <2>1, <2>2 DEF Cap
  <2> QED BY <1>0, <1>2, <2>1, <2>3 DEF Least
<1> QED BY <1>1, <1>2

\* What is computed from such a cap is exact.
LEMMA PreviewInvExact == PreviewInv => PreviewIsExact
<1> SUFFICES ASSUME PreviewInv, Answered PROVE PreviewIsExact
  BY DEF PreviewIsExact
<1> DEFINE cap == Cap(ask.limit)
<1>1. /\ ask.limit = {} \/ \E n \in Int : ask.limit = {n}
      /\ ask.clause \in {"none", "limit", "fetch"} /\ ask.n \in Nat /\ ask.rows \in Nat
  BY PreviewAssumption DEF PreviewInv, Ask, Clause
<1>2. /\ cap \in Int /\ cap <= RowCap /\ RowCap \in Nat \ {0} /\ MinLimit \in Nat
      /\ \A n \in ask.limit : n > 0 => cap > 0 /\ cap <= n
      /\ ask.limit = {} => cap = RowCap
  BY <1>1, CapBounds, PreviewAssumption
<1>3. ASSUME ask.limit \cap (-MinLimit .. 0) = {} PROVE cap > 0
  <2>1. CASE ask.limit = {}
    BY <1>2, <2>1
  <2>2. CASE ask.limit # {}
    <3>1. PICK n \in Int : ask.limit = {n}
      BY <1>1, <2>2
    <3>2. n >= -MinLimit
      BY <3>1, PreviewAssumption DEF PreviewInv, Ask
    <3>3. n > 0
      BY <1>2, <1>3, <3>1, <3>2
    <3> QED BY <1>2, <3>1, <3>3
  <2> QED BY <2>1, <2>2
<1> HIDE DEF cap
<1>4. /\ LimitSent = (IF ask.clause = "none" THEN cap + 1
                      ELSE IF ask.clause = "limit" /\ ask.n <= cap THEN ask.n ELSE cap)
      /\ Fetched = (IF ask.rows < LimitSent THEN ask.rows ELSE LimitSent)
  BY <1>1 DEF LimitSent, Fetched, Wrap, Least, cap
<1>5. /\ LimitSent >= 0
      /\ reply.rows = (IF cap < 0 THEN 0 ELSE Least(Fetched, cap))
      /\ reply.count = Least(Fetched, cap)
      /\ reply.truncated = (Fetched > cap)
  BY DEF PreviewInv, cap
<1>6. LimitSent \in Nat /\ Fetched \in Nat /\ Fetched <= LimitSent /\ Fetched <= ask.rows
  BY <1>1, <1>2, <1>4, <1>5
<1>7. reply.rows <= RowCap /\ \A n \in ask.limit : n > 0 => reply.rows <= n
  <2>1. CASE cap < 0
    BY <1>1, <1>2, <1>5, <2>1
  <2>2. CASE cap >= 0
    <3>1. reply.rows <= cap /\ reply.rows \in Int
      BY <1>2, <1>5, <1>6, <2>2 DEF Least
    <3> QED BY <1>1, <1>2, <3>1
  <2> QED BY <1>2, <2>1, <2>2
<1>8. ASSUME ask.limit \cap (-MinLimit .. 0) = {},
             ask.clause = "none" \/ (ask.clause = "limit" /\ ask.n <= cap)
      PROVE  /\ reply.rows = Least(OwnRows, cap)
             /\ reply.count = reply.rows
             /\ reply.truncated = (OwnRows > cap)
  <2>1. cap > 0
    BY <1>3, <1>8
  <2>2. /\ reply.rows = Least(Fetched, cap) /\ reply.count = reply.rows
        /\ reply.truncated = (Fetched > cap)
    BY <1>2, <1>5, <2>1
  <2>3. CASE ask.clause = "none"
    <3>1. LimitSent = cap + 1 /\ OwnRows = ask.rows
      BY <1>4, <2>3 DEF OwnRows
    <3>2. Least(Fetched, cap) = Least(ask.rows, cap) /\ (Fetched > cap) = (ask.rows > cap)
      BY <1>1, <1>2, <1>4, <2>1, <3>1 DEF Least
    <3> QED BY <2>2, <3>1, <3>2
  <2>4. CASE ask.clause = "limit" /\ ask.n <= cap
    <3>1. LimitSent = ask.n /\ OwnRows = Least(ask.rows, ask.n)
      BY <1>4, <2>4 DEF OwnRows
    <3>2. Fetched = OwnRows
      BY <1>4, <3>1 DEF Least
    <3> QED BY <2>2, <3>2
  <2> QED BY <1>8, <2>3, <2>4
<1> QED BY <1>7, <1>8 DEF PreviewIsExact, cap
-----------------------------------------------------------------------------
(***************************************************************************)
(* ResultStream: what is returned is whole, what was started is closed.    *)
(***************************************************************************)

StreamTypes ==
    /\ pc \in {"new", "execute", "made", "next", "batch", "drained", "done", "failed"}
    /\ consumer \in {"export", "get"} /\ conn \in {"none", "open", "closed"}
    /\ started \in BOOLEAN /\ object \in {"none", "open", "stored"}
    /\ rows \in Nat /\ fetched \in Nat /\ written \in Nat

\* Where a call is tells how far generator and consumer are: the consumer is at
\* most the one batch behind that it holds, and the generator is drained only
\* when it has pulled every row.
StreamInv ==
    /\ StreamTypes
    /\ fetched <= rows
    /\ pc \in {"new", "execute", "made"} => fetched = 0 /\ ~started
    /\ pc # "new" => conn \in {"open", "closed"}
    /\ pc \in {"new", "execute", "made", "next"} => written = fetched
    /\ pc \in {"drained", "done"} => written = rows /\ conn = "closed"
    /\ pc \in {"next", "batch", "drained"} /\ consumer = "export" => object = "open"
    /\ pc = "done" /\ consumer = "export" => object = "stored"
    /\ Over /\ started => conn = "closed"

LEMMA StreamInitInv == StreamInit => StreamInv
<1> SUFFICES ASSUME StreamInit PROVE StreamInv
  OBVIOUS
<1>1. rows \in Nat
  BY StreamAssumption DEF StreamInit, Fewer
<1>2. /\ pc = "new" /\ fetched = 0 /\ written = 0 /\ conn = "none" /\ object = "none"
      /\ consumer \in {"export", "get"} /\ ~started /\ started \in BOOLEAN
  BY DEF StreamInit
<1>3. StreamTypes
  BY <1>1, <1>2 DEF StreamTypes
<1> QED BY <1>1, <1>2, <1>3 DEF StreamInv, Over

\* Every step keeps it.
LEMMA StreamStep == StreamInv /\ [StreamNext]_streamVars => StreamInv'
<1> SUFFICES ASSUME StreamInv, [StreamNext]_streamVars PROVE StreamInv'
  OBVIOUS
<1> USE DEF StreamInv, StreamTypes, Over
<1>1. CASE Connect
  BY <1>1 DEF Connect
<1>2. CASE Execute
  BY <1>2 DEF Execute
<1>3. CASE Consume
  BY <1>3 DEF Consume
<1>4. CASE NextBatch
  <2>1. /\ fetched' \in Nat /\ fetched' <= rows /\ fetched <= fetched'
        /\ fetched >= rows => fetched' = rows /\ fetched = rows
    BY <1>4, StreamAssumption DEF NextBatch, Fewer
  <2> QED BY <1>4, <2>1 DEF NextBatch
<1>5. CASE Pass
  BY <1>5 DEF Pass
<1>6. CASE Return
  BY <1>6 DEF Return
<1>7. CASE Break
  <2>0. pc # "new" /\ pc \notin {"done", "failed"} /\ conn \in {"open", "closed"}
    BY <1>7 DEF Break
  <2>1. /\ started' \in BOOLEAN /\ conn' \in {"open", "closed"}
        /\ started' => conn' = "closed"
    <3>1. CASE conn' = Abandon /\ started' = started
      BY <2>0, <3>1 DEF Abandon
    <3>2. CASE started' = TRUE /\ conn' = "closed"
      BY <3>2
    <3> QED BY <1>7, <3>1, <3>2 DEF Break
  <2> QED BY <1>7, <2>1 DEF Break
<1>8. CASE UNCHANGED streamVars
  BY <1>8 DEF streamVars
<1> QED BY <1>1, <1>2, <1>3, <1>4, <1>5, <1>6, <1>7, <1>8 DEF StreamNext

LEMMA StreamInvSuffices == StreamInv => ReturnedIsComplete /\ StartedStreamsClose
  BY DEF StreamInv, ReturnedIsComplete, StartedStreamsClose
-----------------------------------------------------------------------------
(***************************************************************************)
(* Tenancy: whose request it is.                                           *)
(***************************************************************************)

\* Settings and caller stay what they are, and the tenant is the one resolved.
TenancyInv ==
    /\ config \in Config /\ caller \in Caller /\ door \in {"proxy", "oauth"}
    /\ tenant = {} \/ tenant = {Resolved(caller)}

LEMMA TenancyInitInv == TenancyInit => TenancyInv
  BY DEF TenancyInit, TenancyInv

LEMMA TenancyStep == TenancyInv /\ [TenancyNext]_tenancyVars => TenancyInv'
<1> SUFFICES ASSUME TenancyInv, [TenancyNext]_tenancyVars PROVE TenancyInv'
  OBVIOUS
<1>1. config' = config /\ caller' = caller /\ door' = door
  BY DEF TenancyNext, Resolve, tenancyVars
<1>2. Resolved(caller)' = Resolved(caller)
  BY <1>1 DEF Resolved, ByHeaders, ByClaims, Claim, HasMap, Provisioned, Mapped
<1>3. tenant' = tenant \/ tenant' = {Resolved(caller)}
  BY DEF TenancyNext, Resolve, tenancyVars
<1> QED BY <1>1, <1>2, <1>3 DEF TenancyInv

\* A private tenant is that of one subject.
LEMMA TenancyIsPrivate == TenancyInv => PrivateIsPrivate
<1> SUFFICES ASSUME TenancyInv, config.mode = "private", door = "proxy" \/ config.claim = "sub",
                    NEW other \in Caller,
                    tenant \ {Refusal} # {}, tenant = {Resolved(other)}
             PROVE  other.subject = caller.subject
  BY DEF PrivateIsPrivate
<1>1. Resolved(caller) = Resolved(other) /\ Resolved(caller) # Refusal
  BY DEF TenancyInv
<1>2. ASSUME NEW who \in Caller, Resolved(who) # Refusal
      PROVE  \E id \in Id : who.subject = {id} /\ Resolved(who) = <<"hash", id>>
  <2>1. who.subject # {} /\ Resolved(who) = Private(Only(who.subject))
    BY <1>2 DEF TenancyInv, Resolved, ByHeaders, ByClaims, Claim
  <2>2. PICK id \in Id : who.subject = {id}
    BY <2>1 DEF Caller, Optional
  <2> QED BY <2>1, <2>2 DEF Private, Only
<1>3. PICK a \in Id : caller.subject = {a} /\ Resolved(caller) = <<"hash", a>>
  BY <1>1, <1>2 DEF TenancyInv
<1>4. PICK b \in Id : other.subject = {b} /\ Resolved(other) = <<"hash", b>>
  BY <1>1, <1>2
<1>5. ASSUME NEW x, NEW y, <<"hash", x>> = <<"hash", y>> PROVE x = y
  <2>1. <<"hash", x>>[2] = x /\ <<"hash", y>>[2] = y
    OBVIOUS
  <2> QED BY <1>5, <2>1
<1>6. a = b
  BY ONLY <1>1, <1>3, <1>4, <1>5
<1> QED BY <1>3, <1>4, <1>6

\* Where it does not count, the caller's word is not looked at.
LEMMA TenancyIgnoresTheWord == TenancyInv => WordDoesNotCount
<1> SUFFICES ASSUME TenancyInv, door = "proxy", Closed, tenant # {}, NEW word \in Optional(Id)
             PROVE  Resolved([caller EXCEPT !.named = word]) = Resolved(caller)
  BY DEF WordDoesNotCount, TenancyInv
<1> DEFINE same == [caller EXCEPT !.named = word]
<1>1. same.subject = caller.subject /\ same.groups = caller.groups
  BY DEF TenancyInv, Caller
<1>2. config.mode \in {"auto", "shared", "private", "mapped"}
  BY DEF TenancyInv, Config
<1> HIDE DEF same
<1>3. Provisioned(same) = Provisioned(caller)
  BY <1>1 DEF Provisioned
<1>4. ByHeaders(same) = ByHeaders(caller)
  BY <1>1, <1>2, <1>3 DEF ByHeaders, Closed
<1> QED BY <1>4 DEF Resolved, same

\* With headers that say what a token says, both doors lead to one tenant.
LEMMA TenancyDoorsAgree == TenancyInv => DoorsAgree
<1> SUFFICES ASSUME TenancyInv, config.mode # "auto", config.claim = "sub",
                    config.subjectHeader, config.groupHeader
             PROVE  ByHeaders(caller) = ByClaims(caller)
  BY DEF DoorsAgree
<1>1. config.mode \in {"shared", "private", "mapped"}
  BY DEF TenancyInv, Config
<1> QED BY <1>1 DEF ByHeaders, ByClaims, Claim, Provisioned
-----------------------------------------------------------------------------
(***************************************************************************)
(* Guard: what a SELECT reads.  Nothing here counts the names a statement  *)
(* uses, so the two of the model stand for any number.                     *)
(***************************************************************************)

Use == [place : Place, table : Table]

QueryTypes ==
    /\ query.read \in BOOLEAN /\ query.scratch \in BOOLEAN
    /\ query.outer \subseteq Name /\ query.inner \subseteq Name
    /\ query.uses \subseteq Use
    /\ query.shared \in {{}, {"ref", "meta"}}

\* The use of a name in the guarded statement.
Rewritten(u) == [u EXCEPT !.table = Qualified(@)]

Acceptable == query.read /\ \A t \in Used : ~Refused(t)

Accepted ==
    [status |-> "accepted",
     uses |-> {Rewritten(u) : u \in query.uses},
     referenced |-> {t.name : t \in {t \in Used : ~IsCte(t) /\ ~IsScratch(t)}},
     scratch |-> {t.name : t \in {t \in Used : IsScratch(t)}}]

\* The guard's word and Trino's are the ones that the statement determines.
GuardInv ==
    /\ QueryTypes
    /\ \/ guarded = NotGuarded
       \/ guarded = [NotGuarded EXCEPT !.status = "refused"] /\ ~Acceptable
       \/ guarded = Accepted /\ Acceptable
    /\ \/ answer = NoAnswer
       \/ guarded = Accepted /\ answer.status = "failed" /\ answer.reads = {}
          /\ \E t \in Tables : Bare(t)
       \/ guarded = Accepted /\ answer = [status |-> "read", reads |-> Tables]
          /\ \A t \in Tables : ~Bare(t)

LEMMA GuardInitInv == GuardInit => GuardInv
<1> SUFFICES ASSUME GuardInit PROVE GuardInv
  OBVIOUS
<1>1. CASE query = NoSelect
  BY <1>1 DEF GuardInit, GuardInv, QueryTypes, NoSelect
<1>2. CASE query \in Select
  <2>1. query.outer \subseteq Name /\ query.inner \subseteq Name
    BY <1>2 DEF Select, AtMostOne
  <2>2. query.uses \subseteq Use
    BY <1>2 DEF Select, Uses, Use
  <2>3. query.read \in BOOLEAN /\ query.scratch \in BOOLEAN /\ query.shared \in {{}, {"ref", "meta"}}
    BY <1>2 DEF Select
  <2> QED BY <2>1, <2>2, <2>3 DEF GuardInit, GuardInv, QueryTypes
<1> QED BY <1>1, <1>2 DEF GuardInit

\* Every step keeps it.
LEMMA GuardStep == GuardInv /\ [GuardNext]_guardVars => GuardInv'
<1> SUFFICES ASSUME GuardInv, [GuardNext]_guardVars PROVE GuardInv'
  OBVIOUS
<1>0. query' = query
  BY DEF GuardNext, Refuse, Accept, Fail, Read, guardVars
<1>1. QueryTypes' /\ Accepted' = Accepted /\ Acceptable' = Acceptable
  BY <1>0 DEF GuardInv, QueryTypes, Accepted, Acceptable, Rewritten, Qualified, Used, Refused,
              IsCte, IsScratch, CteNames, Bare
<1>2. NotGuarded # [NotGuarded EXCEPT !.status = "refused"] /\ NotGuarded # Accepted
      /\ Accepted.status = "accepted" /\ NotGuarded.status # "accepted"
      /\ [NotGuarded EXCEPT !.status = "refused"].status # "accepted"
  BY DEF NotGuarded, Accepted
<1>3. ASSUME guarded' = guarded PROVE Tables' = Tables
  BY <1>0, <1>3 DEF Tables, InScope, Bare
<1>4. CASE Refuse
  <2>1. guarded = NotGuarded /\ ~Acceptable /\ answer' = answer
        /\ guarded' = [NotGuarded EXCEPT !.status = "refused"]
    BY <1>4 DEF Refuse, Acceptable
  <2>2. answer = NoAnswer
    BY <1>2, <2>1 DEF GuardInv
  <2> QED BY <1>1, <2>1, <2>2 DEF GuardInv
<1>5. CASE Accept
  <2>1. guarded = NotGuarded /\ Acceptable /\ answer' = answer /\ guarded' = Accepted
    BY <1>5 DEF Accept, Acceptable, Accepted, Rewritten
  <2>2. answer = NoAnswer
    BY <1>2, <2>1 DEF GuardInv
  <2> QED BY <1>1, <2>1, <2>2 DEF GuardInv
<1>6. CASE Fail
  <2>1. guarded.status = "accepted" /\ guarded' = guarded /\ \E t \in Tables : Bare(t)
        /\ answer' = [NoAnswer EXCEPT !.status = "failed"]
    BY <1>6 DEF Fail
  <2>2. guarded = Accepted
    BY <1>2, <2>1 DEF GuardInv
  <2>3. answer'.status = "failed" /\ answer'.reads = {}
    BY <2>1 DEF NoAnswer
  <2>4. \E t \in Tables' : Bare(t)'
    BY <1>3, <2>1 DEF Bare
  <2> QED BY <1>1, <2>1, <2>2, <2>3, <2>4 DEF GuardInv
<1>7. CASE Read
  <2>1. guarded.status = "accepted" /\ guarded' = guarded /\ \A t \in Tables : ~Bare(t)
    BY <1>7 DEF Read, SessionSchema
  <2>2. guarded = Accepted
    BY <1>2, <2>1 DEF GuardInv
  <2>3. answer' = [status |-> "read",
                   reads |-> {IF Bare(t) THEN [cat |-> "lake", db |-> SessionSchema, name |-> t.name]
                              ELSE t : t \in Tables}]
    BY <1>7 DEF Read
  <2>4. {IF Bare(t) THEN [cat |-> "lake", db |-> SessionSchema, name |-> t.name]
         ELSE t : t \in Tables} = Tables
    BY <2>1
  <2>5. answer' = [status |-> "read", reads |-> Tables]
    BY <2>3, <2>4
  <2>6. \A t \in Tables' : ~Bare(t)'
    BY <1>3, <2>1 DEF Bare
  <2> QED BY <1>1, <1>3, <2>1, <2>2, <2>5, <2>6 DEF GuardInv
<1>8. CASE UNCHANGED guardVars
  <2>1. guarded' = guarded /\ answer' = answer
    BY <1>8 DEF guardVars
  <2>2. (\E t \in Tables' : Bare(t)') = (\E t \in Tables : Bare(t))
        /\ (\A t \in Tables' : ~Bare(t)') = (\A t \in Tables : ~Bare(t))
    BY <1>3, <2>1 DEF Bare
  <2> QED BY <1>1, <1>3, <2>1, <2>2 DEF GuardInv
<1> QED BY <1>4, <1>5, <1>6, <1>7, <1>8 DEF GuardNext

LEMMA TableFields ==
    ASSUME NEW t \in Table
    PROVE  /\ t.cat \in {"", "lake", "other"} /\ t.db \in {"", "own", "ref", "meta", "scratch"}
           /\ t.name \in Name \cup {""} /\ (t.db = "" => t.cat = "")
<1>1. CASE t = TableFunction
  BY <1>1 DEF TableFunction
<1>2. CASE t \in {r \in [cat : {"", "lake", "other"}, db : {"", "own", "ref", "meta", "scratch"},
                         name : Name] : r.db = "" => r.cat = ""}
  BY <1>2
<1> QED BY <1>1, <1>2 DEF Table

\* A name that the guard accepts is left as it is, for that of a WITH query, or
\* becomes the table its author means, which is a readable one.
LEMMA QualifiedIsMeant ==
    ASSUME QueryTypes, NEW t \in Table, ~Refused(t)
    PROVE  /\ IsCte(t) => Qualified(t) = t /\ Bare(t) /\ ~IsScratch(t)
           /\ ~IsCte(t) => /\ Qualified(t) = Meaning(t)
                           /\ Qualified(t) \in Readable /\ ~Bare(Qualified(t))
                           /\ Qualified(t).name = t.name
                           /\ Qualified(t).cat = (IF IsScratch(t) THEN "scratch" ELSE "lake")
<1>1. /\ t.cat \in {"", "lake", "other"} /\ t.db \in {"", "own", "ref", "meta", "scratch"}
      /\ t.name \in Name \cup {""} /\ (t.db = "" => t.cat = "")
  BY TableFields
<1>2. ASSUME IsCte(t) PROVE Qualified(t) = t /\ Bare(t) /\ ~IsScratch(t)
  BY <1>2 DEF Qualified, IsCte, IsScratch, Bare
<1>3. ASSUME ~IsCte(t), IsScratch(t)
      PROVE  /\ Qualified(t) = [cat |-> "scratch", db |-> "own", name |-> t.name]
             /\ Qualified(t) = Meaning(t) /\ t.name \in Name /\ query.scratch
  BY <1>1, <1>3 DEF Qualified, Meaning, IsScratch, Refused
<1>4. ASSUME ~IsCte(t), ~IsScratch(t)
      PROVE  /\ Qualified(t) = [cat |-> "lake", db |-> IF t.db = "" THEN "own" ELSE t.db,
                                name |-> t.name]
             /\ Qualified(t) = Meaning(t) /\ t.name \in Name
             /\ t.db # "" => t.db \in {"own"} \cup (query.shared \ {"meta"})
  <2>1. /\ t.name # "" /\ t.cat # "other" /\ t.db # "meta" /\ t.db \in {"", "own"} \cup query.shared
    BY <1>4 DEF Refused
  <2>2. t.db # "scratch"
    BY <2>1 DEF QueryTypes
  <2>3. Qualified(t) = [cat |-> "lake", db |-> IF t.db = "" THEN "own" ELSE t.db, name |-> t.name]
    BY <1>4 DEF Qualified
  <2>4. Meaning(t) = [cat |-> "lake", db |-> IF t.db = "" THEN "own" ELSE t.db, name |-> t.name]
    BY <1>1, <2>1, <2>2 DEF Meaning
  <2> QED BY <1>1, <2>1, <2>3, <2>4
<1>5. ASSUME ~IsCte(t) PROVE Qualified(t) \in Readable
  <2>1. CASE IsScratch(t)
    BY <1>3, <1>5, <2>1 DEF Readable
  <2>2. CASE ~IsScratch(t)
    <3> DEFINE db == IF t.db = "" THEN "own" ELSE t.db
    <3>1. db \in {"own"} \cup (query.shared \ {"meta"})
      BY <1>4, <1>5, <2>2
    <3>2. Qualified(t) = [cat |-> "lake", db |-> db, name |-> t.name] /\ t.name \in Name
      BY <1>4, <1>5, <2>2
    <3> HIDE DEF db
    <3>3. Qualified(t) \in [cat : {"lake"}, db : {"own"} \cup (query.shared \ {"meta"}), name : Name]
      BY <3>1, <3>2
    <3> QED BY <3>3 DEF Readable
  <2> QED BY <2>1, <2>2
<1>6. ASSUME ~IsCte(t)
      PROVE  /\ Qualified(t) = Meaning(t) /\ ~Bare(Qualified(t))
             /\ Qualified(t).name = t.name
             /\ Qualified(t).cat = (IF IsScratch(t) THEN "scratch" ELSE "lake")
  <2>1. CASE IsScratch(t)
    <3>1. Qualified(t) = [cat |-> "scratch", db |-> "own", name |-> t.name]
          /\ Qualified(t) = Meaning(t)
      BY <1>3, <1>6, <2>1
    <3>2. Qualified(t).cat = "scratch" /\ Qualified(t).name = t.name
      BY <3>1
    <3> QED BY <2>1, <3>1, <3>2 DEF Bare
  <2>2. CASE ~IsScratch(t)
    <3> DEFINE db == IF t.db = "" THEN "own" ELSE t.db
    <3>1. Qualified(t) = [cat |-> "lake", db |-> db, name |-> t.name]
          /\ Qualified(t) = Meaning(t)
      BY <1>4, <1>6, <2>2
    <3> HIDE DEF db
    <3>2. Qualified(t).cat = "lake" /\ Qualified(t).name = t.name
      BY <3>1
    <3> QED BY <2>2, <3>1, <3>2 DEF Bare
  <2> QED BY <2>1, <2>2
<1> QED BY <1>2, <1>5, <1>6

\* The tables of an accepted statement come from the uses of names that mean
\* no WITH query, or stay bare where one holds that the guard did not see.
LEMMA TablesOfAccepted ==
    ASSUME GuardInv, guarded = Accepted
    PROVE  /\ \A u \in query.uses : u \in Use /\ u.table \in Used /\ ~Refused(u.table)
           /\ \A u \in query.uses : ~IsCte(u.table) => Qualified(u.table) \in Tables
           /\ \A t \in Tables : \E u \in query.uses :
                  /\ t = Qualified(u.table)
                  /\ ~IsCte(u.table) \/ ~InScope(u)
<1>1. Acceptable /\ QueryTypes
  <2>1. Accepted.status = "accepted" /\ NotGuarded.status = "none"
        /\ [NotGuarded EXCEPT !.status = "refused"].status = "refused"
    BY DEF Accepted, NotGuarded
  <2> QED BY <2>1 DEF GuardInv
<1>2. \A u \in query.uses : u \in Use /\ u.table \in Used /\ ~Refused(u.table)
  BY <1>1 DEF QueryTypes, Used, Acceptable
<1>3. ASSUME NEW u \in query.uses
      PROVE  /\ Rewritten(u) = [place |-> u.place, table |-> Qualified(u.table)]
             /\ u = [place |-> u.place, table |-> u.table] /\ u.table \in Table
  BY <1>2 DEF Rewritten, Use
<1>4. guarded.uses = {Rewritten(u) : u \in query.uses}
  BY DEF Accepted
<1>5. ASSUME NEW u \in query.uses, ~IsCte(u.table) PROVE Qualified(u.table) \in Tables
  <2>1. ~Bare(Qualified(u.table))
    BY <1>1, <1>2, <1>3, <1>5, QualifiedIsMeant
  <2>2. ~InScope(Rewritten(u)) /\ Rewritten(u).table = Qualified(u.table)
    BY <1>3, <2>1 DEF InScope
  <2> QED BY <1>4, <2>2 DEF Tables
<1>6. ASSUME NEW t \in Tables
      PROVE  \E u \in query.uses : t = Qualified(u.table) /\ (~IsCte(u.table) \/ ~InScope(u))
  <2>1. PICK v \in guarded.uses : ~InScope(v) /\ t = v.table
    BY DEF Tables
  <2>2. PICK u \in query.uses : v = Rewritten(u)
    BY <1>4, <2>1
  <2>3. t = Qualified(u.table)
    BY <1>3, <2>1, <2>2
  <2>4. ASSUME IsCte(u.table) PROVE ~InScope(u)
    <3>1. Qualified(u.table) = u.table
      BY <1>1, <1>2, <1>3, <2>4, QualifiedIsMeant
    <3>2. v = u
      BY <1>3, <2>2, <3>1
    <3> QED BY <2>1, <3>2
  <2> QED BY <2>3, <2>4
<1> QED BY <1>2, <1>5, <1>6

\* What is read is readable.
LEMMA GuardInvReads == GuardInv => ReadsAreOwn
<1> SUFFICES ASSUME GuardInv PROVE ReadsAreOwn
  OBVIOUS
<1>1. CASE answer.reads = {}
  BY <1>1 DEF ReadsAreOwn
<1>2. CASE answer.reads # {}
  <2>1. guarded = Accepted /\ answer.reads = Tables /\ \A t \in Tables : ~Bare(t)
    BY <1>2 DEF GuardInv, NoAnswer
  <2>2. ASSUME NEW t \in Tables PROVE t \in Readable
    <3>1. PICK u \in query.uses : t = Qualified(u.table)
      BY <2>1, TablesOfAccepted
    <3>2. QueryTypes /\ u.table \in Table /\ ~Refused(u.table)
      BY <2>1, TablesOfAccepted DEF GuardInv, Use
    <3>3. ~IsCte(u.table)
      BY <2>1, <3>1, <3>2, QualifiedIsMeant
    <3> QED BY <3>1, <3>2, <3>3, QualifiedIsMeant
  <2> QED BY <2>1, <2>2 DEF ReadsAreOwn
<1> QED BY <1>1, <1>2

\* What is reported is what is read.
LEMMA GuardInvLineage == GuardInv => LineageIsOfReads
<1> SUFFICES ASSUME GuardInv, answer.status = "read" PROVE LineageIsOfReads
  BY DEF LineageIsOfReads
<1>1. guarded = Accepted /\ answer.reads = Tables /\ (\A t \in Tables : ~Bare(t)) /\ QueryTypes
  BY DEF GuardInv, NoAnswer
<1>2. ASSUME NEW u \in query.uses
      PROVE  u.table \in Table /\ ~Refused(u.table) /\ u.table \in Used
  BY <1>1, TablesOfAccepted DEF Use
<1>3. ASSUME NEW u \in query.uses, ~IsCte(u.table)
      PROVE  /\ Qualified(u.table) \in Tables /\ Qualified(u.table).name = u.table.name
             /\ Qualified(u.table).cat = (IF IsScratch(u.table) THEN "scratch" ELSE "lake")
  BY <1>1, <1>2, <1>3, TablesOfAccepted, QualifiedIsMeant
<1>4. ASSUME NEW t \in Tables
      PROVE  \E u \in query.uses : ~IsCte(u.table) /\ t = Qualified(u.table)
  <2>1. PICK u \in query.uses : t = Qualified(u.table)
    BY <1>1, TablesOfAccepted
  <2>2. ~IsCte(u.table)
    BY <1>1, <1>2, <2>1, QualifiedIsMeant
  <2> QED BY <2>1, <2>2
<1>5. ASSUME NEW n
      PROVE  n \in {t.name : t \in {t \in Used : ~IsCte(t) /\ ~IsScratch(t)}}
             <=> n \in {t.name : t \in {t \in Tables : t.cat = "lake"}}
  <2>1. ASSUME NEW t \in Used, ~IsCte(t), ~IsScratch(t)
        PROVE  \E s \in Tables : s.cat = "lake" /\ s.name = t.name
    <3>1. PICK u \in query.uses : t = u.table
      BY DEF Used
    <3> QED BY <1>3, <2>1, <3>1
  <2>2. ASSUME NEW s \in Tables, s.cat = "lake"
        PROVE  \E t \in Used : ~IsCte(t) /\ ~IsScratch(t) /\ s.name = t.name
    <3>1. PICK u \in query.uses : ~IsCte(u.table) /\ s = Qualified(u.table)
      BY <1>4
    <3> QED BY <1>2, <1>3, <2>2, <3>1
  <2> QED BY <2>1, <2>2
<1>6. ASSUME NEW n
      PROVE  n \in {t.name : t \in {t \in Used : IsScratch(t)}}
             <=> n \in {t.name : t \in {t \in Tables : t.cat = "scratch"}}
  <2>1. ASSUME NEW t \in Used, IsScratch(t)
        PROVE  \E s \in Tables : s.cat = "scratch" /\ s.name = t.name
    <3>1. PICK u \in query.uses : t = u.table
      BY DEF Used
    <3>2. ~IsCte(t)
      BY <2>1 DEF IsScratch, IsCte, Bare
    <3> QED BY <1>3, <2>1, <3>1, <3>2
  <2>2. ASSUME NEW s \in Tables, s.cat = "scratch"
        PROVE  \E t \in Used : IsScratch(t) /\ s.name = t.name
    <3>1. PICK u \in query.uses : ~IsCte(u.table) /\ s = Qualified(u.table)
      BY <1>4
    <3> QED BY <1>2, <1>3, <2>2, <3>1
  <2> QED BY <2>1, <2>2
<1>7. /\ guarded.referenced = {t.name : t \in {t \in Used : ~IsCte(t) /\ ~IsScratch(t)}}
      /\ guarded.scratch = {t.name : t \in {t \in Used : IsScratch(t)}}
  BY <1>1 DEF Accepted
<1>8. guarded.referenced = {t.name : t \in {t \in Tables : t.cat = "lake"}}
  BY <1>5, <1>7
<1>9. guarded.scratch = {t.name : t \in {t \in Tables : t.cat = "scratch"}}
  BY <1>6, <1>7
<1> QED BY <1>1, <1>8, <1>9 DEF LineageIsOfReads

\* A use of a name in the scope of its WITH is one of a name the guard knows.
LEMMA ScopeIsKnown ==
    ASSUME QueryTypes, NEW u \in query.uses, InScope(u)
    PROVE  IsCte(u.table)
<1>1. u.place \in Place
  BY DEF QueryTypes, Use
<1> QED BY <1>1 DEF InScope, IsCte, CteNames, Place

\* What is meant and readable is read.
LEMMA GuardInvReadable == GuardInv => ReadableIsRead
<1> SUFFICES ASSUME GuardInv, ~Shadowed PROVE ReadableIsRead
  BY DEF ReadableIsRead
<1>1. QueryTypes
  BY DEF GuardInv
<1>2. ASSUME NEW u \in query.uses PROVE IsCte(u.table) <=> InScope(u)
  BY <1>1, ScopeIsKnown DEF Shadowed
<1>3. ASSUME query.read, Meant \subseteq Readable, guarded.status = "refused" PROVE FALSE
  <2>1. PICK u \in query.uses : Refused(u.table)
    <3>1. ~Acceptable
      BY <1>3 DEF GuardInv, NotGuarded, Accepted
    <3> QED BY <1>3, <3>1 DEF Acceptable, Used
  <2> DEFINE t == u.table
             m == Meaning(t)
  <2>2. ~IsCte(t)
    BY <2>1 DEF Refused
  <2>3. m \in Readable
    BY <1>2, <1>3, <2>2 DEF Meant
  <2>4. /\ t.cat \in {"", "lake", "other"} /\ t.db \in {"", "own", "ref", "meta", "scratch"}
        /\ t.db = "" => t.cat = ""
    <3>1. t \in Table
      BY <1>1 DEF QueryTypes, Use
    <3> QED BY <3>1, TableFields
  <2>5. /\ m.cat = (IF t.cat = "" /\ t.db = "scratch" THEN "scratch"
                    ELSE IF t.cat = "" THEN "lake" ELSE t.cat)
        /\ m.db = (IF t.db = "" \/ (t.cat = "" /\ t.db = "scratch") THEN "own" ELSE t.db)
        /\ m.name = t.name
    BY DEF Meaning
  <2>6. /\ m.name \in Name
        /\ \/ m.cat = "lake" /\ m.db \in {"own"} \cup (query.shared \ {"meta"})
           \/ m.cat = "scratch" /\ query.scratch
    BY <2>3 DEF Readable
  <2>7. /\ Refused(t) <=> \/ t.name = ""
                          \/ /\ ~(query.scratch /\ t.cat = "" /\ t.db = "scratch")
                             /\ \/ t.cat = "other"
                                \/ t.db = "meta"
                                \/ t.db \notin {"", "own"} \cup query.shared
    BY <2>2 DEF Refused, IsScratch
  <2>8. query.shared \in {{}, {"ref", "meta"}}
    BY <1>1 DEF QueryTypes
  <2> HIDE DEF t, m
  <2>9. t.name # ""
    BY <2>5, <2>6, NameAssumption
  <2>10. Refused(t)
    BY <2>1 DEF t
  <2> QED BY ONLY <2>4, <2>5, <2>6, <2>7, <2>8, <2>9, <2>10
<1>4. ASSUME answer.status # "none" PROVE answer = [status |-> "read", reads |-> Meant]
  <2>1. guarded = Accepted
    BY <1>4 DEF GuardInv, NoAnswer
  <2>2. ASSUME NEW u \in query.uses
        PROVE  u.table \in Table /\ ~Refused(u.table)
    BY <2>1, TablesOfAccepted DEF Use
  <2>3. ASSUME NEW t \in Tables
        PROVE  t \in Meant /\ ~Bare(t)
    <3>1. PICK u \in query.uses : t = Qualified(u.table) /\ (~IsCte(u.table) \/ ~InScope(u))
      BY <2>1, TablesOfAccepted
    <3>2. ~IsCte(u.table) /\ ~InScope(u)
      BY <1>2, <3>1
    <3>3. t = Meaning(u.table) /\ ~Bare(t)
      BY <1>1, <2>2, <3>1, <3>2, QualifiedIsMeant
    <3> QED BY <3>2, <3>3 DEF Meant
  <2>4. ASSUME NEW t \in Meant PROVE t \in Tables
    <3>1. PICK u \in query.uses : ~InScope(u) /\ t = Meaning(u.table)
      BY DEF Meant
    <3>2. ~IsCte(u.table)
      BY <1>2, <3>1
    <3>3. t = Qualified(u.table)
      BY <1>1, <2>2, <3>1, <3>2, QualifiedIsMeant
    <3> QED BY <2>1, <3>2, <3>3, TablesOfAccepted
  <2>5. Tables = Meant
    BY <2>3, <2>4
  <2>6. answer = [status |-> "read", reads |-> Tables]
    BY <1>4, <2>3 DEF GuardInv, NoAnswer
  <2> QED BY <2>5, <2>6
<1> QED BY <1>3, <1>4 DEF ReadableIsRead
-----------------------------------------------------------------------------
(***************************************************************************)
(* Staging: what an ingest reads, and of whom.                             *)
(***************************************************************************)

\* What addresses are made of.  (Two strings are named: no prover knows that a
\* literal is in STRING.)
Piece == STRING \cup {"/", "uploads"}

LEMMA PrefixElements ==
    ASSUME NEW s \in Seq(Piece), NEW t \in Seq(Piece), Seqs!IsPrefix(s, t)
    PROVE  Len(s) \in Nat /\ Len(s) <= Len(t) /\ \A i \in 1 .. Len(s) : s[i] = t[i]
<1>1. Len(s) \in Nat /\ Len(t) \in Nat /\ Len(s) <= Len(t)
      /\ SubSeq(s, 1, Len(s)) = SubSeq(t, 1, Len(s))
  BY DEF Seqs!IsPrefix
<1>2. ASSUME NEW i \in 1 .. Len(s) PROVE s[i] = t[i]
  <2>1. SubSeq(s, 1, Len(s))[i] = s[i] /\ SubSeq(t, 1, Len(s))[i] = t[i]
    BY <1>1
  <2> QED BY <1>1, <2>1
<1> QED BY <1>1, <1>2

\* A name under the slash of a tenant is under no other tenant, however alike
\* the two begin, for tenants are without slashes.
LEMMA NamesOfOneTenant ==
    ASSUME NEW base \in Seq(Piece), NEW s \in Seq(Piece \ {"/"}), NEW t \in Seq(Piece \ {"/"}),
           NEW f \in Piece,
           Seqs!IsPrefix((base \o s) \o <<"/">>, (base \o t) \o <<"/", f>>)
    PROVE  s = t
<1> DEFINE p == (base \o s) \o <<"/">>
           a == (base \o t) \o <<"/", f>>
           b == Len(base)
<1>1. /\ s \in Seq(Piece) /\ t \in Seq(Piece)
      /\ Len(s) \in Nat /\ Len(t) \in Nat /\ b \in Nat
      /\ \A i \in 1 .. Len(s) : s[i] # "/"
      /\ \A i \in 1 .. Len(t) : t[i] # "/"
  <2>1. s \in Seq(Piece) /\ t \in Seq(Piece)
    BY SeqMonotonic
  <2>2. /\ \A i \in 1 .. Len(s) : s[i] # "/"
        /\ \A i \in 1 .. Len(t) : t[i] # "/"
    BY ElementOfSeq
  <2> QED BY <2>1, <2>2
<1>2. /\ <<"/">> \in Seq(Piece) /\ Len(<<"/">>) = 1 /\ <<"/">>[1] = "/"
      /\ <<"/", f>> \in Seq(Piece) /\ Len(<<"/", f>>) = 2 /\ <<"/", f>>[1] = "/"
  BY DEF Piece
<1>3. /\ base \o s \in Seq(Piece) /\ Len(base \o s) = b + Len(s)
      /\ \A i \in 1 .. b + Len(s) : (base \o s)[i] = IF i <= b THEN base[i] ELSE s[i - b]
      /\ base \o t \in Seq(Piece) /\ Len(base \o t) = b + Len(t)
      /\ \A i \in 1 .. b + Len(t) : (base \o t)[i] = IF i <= b THEN base[i] ELSE t[i - b]
  BY <1>1, ConcatProperties
<1>4. /\ p \in Seq(Piece) /\ Len(p) = b + Len(s) + 1 /\ p[b + Len(s) + 1] = "/"
      /\ \A i \in 1 .. Len(s) : p[b + i] = s[i]
  BY <1>1, <1>2, <1>3, ConcatProperties
<1>5. /\ a \in Seq(Piece) /\ Len(a) = b + Len(t) + 2 /\ a[b + Len(t) + 1] = "/"
      /\ \A i \in 1 .. Len(t) : a[b + i] = t[i]
  BY <1>1, <1>2, <1>3, ConcatProperties
<1>6. \A i \in 1 .. Len(p) : p[i] = a[i]
  <2>1. Seqs!IsPrefix(p, a)
    OBVIOUS
  <2> HIDE DEF p, a
  <2> QED BY <1>4, <1>5, <2>1, PrefixElements
<1> HIDE DEF p, a, b
<1>7. ~(Len(s) < Len(t))
  <2> SUFFICES ASSUME Len(s) < Len(t) PROVE FALSE
    OBVIOUS
  <2>1. a[b + Len(s) + 1] = t[Len(s) + 1] /\ t[Len(s) + 1] # "/"
    <3>1. Len(s) + 1 \in 1 .. Len(t) /\ b + (Len(s) + 1) = b + Len(s) + 1
      BY <1>1
    <3> QED BY <1>1, <1>5, <3>1
  <2>2. p[b + Len(s) + 1] = a[b + Len(s) + 1]
    BY <1>1, <1>4, <1>6
  <2> QED BY <1>4, <2>1, <2>2
<1>8. ~(Len(t) < Len(s))
  <2> SUFFICES ASSUME Len(t) < Len(s) PROVE FALSE
    OBVIOUS
  <2>1. p[b + Len(t) + 1] = s[Len(t) + 1] /\ s[Len(t) + 1] # "/"
    <3>1. Len(t) + 1 \in 1 .. Len(s) /\ b + (Len(t) + 1) = b + Len(t) + 1
      BY <1>1
    <3> QED BY <1>1, <1>4, <3>1
  <2>2. p[b + Len(t) + 1] = a[b + Len(t) + 1]
    BY <1>1, <1>4, <1>6
  <2> QED BY <1>5, <2>1, <2>2
<1>9. Len(s) = Len(t)
  BY <1>1, <1>7, <1>8
<1>10. ASSUME NEW i \in 1 .. Len(s) PROVE s[i] = t[i]
  <2>1. p[b + i] = s[i] /\ a[b + i] = t[i]
    BY <1>4, <1>5, <1>9
  <2>2. b + i \in 1 .. Len(p)
    BY <1>1, <1>4
  <2> QED BY <1>6, <2>1, <2>2
<1> QED BY <1>1, <1>9, <1>10, SeqEqual

\* The part of an address that tenants share.
Base == StagingPath \o (IF StagingPath = <<>> THEN <<>> ELSE <<"/">>) \o <<"uploads", "/">>

LEMMA HandleForm ==
    ASSUME NEW t \in Tenant, NEW f \in File
    PROVE  /\ Base \in Seq(Piece) /\ t \in Seq(Piece \ {"/"}) /\ f \in Piece
           /\ UploadsOf(t) = Base \o t
           /\ Handle(t, f) = (Base \o t) \o <<"/", f>>
           /\ Handle(t, f) \in Seq(Piece) /\ Handle(t, f) \in Staged
<1>1. Base \in Seq(Piece) /\ t \in Seq(Piece \ {"/"}) /\ f \in Piece
  <2>1. StagingPath \in Seq(Piece) /\ t \in Seq(Piece \ {"/"}) /\ f \in Piece
    BY AddressAssumption, SeqMonotonic DEF Piece
  <2>2. "/" \in Piece /\ "uploads" \in Piece
    BY DEF Piece
  <2>3. <<"uploads", "/">> \in Seq(Piece) /\ <<"/">> \in Seq(Piece) /\ <<>> \in Seq(Piece)
    BY <2>2
  <2>4. (IF StagingPath = <<>> THEN <<>> ELSE <<"/">>) \in Seq(Piece)
    BY <2>3
  <2> QED BY <2>1, <2>3, <2>4, ConcatProperties DEF Base
<1>2. t \in Seq(Piece) /\ <<"/", f>> \in Seq(Piece)
  <2>1. t \in Seq(Piece)
    BY <1>1, SeqMonotonic
  <2>2. <<"/", f>> \in Seq(Piece)
    BY <1>1 DEF Piece
  <2> QED BY <2>1, <2>2
<1>3. UploadsOf(t) = Base \o t
  BY DEF UploadsOf, Base
<1>4. Handle(t, f) = (Base \o t) \o <<"/", f>>
  BY <1>3 DEF Handle
<1>5. Handle(t, f) \in Seq(Piece)
  BY <1>1, <1>2, <1>4, ConcatProperties
<1>6. Handle(t, f) \in Staged
  BY DEF Staged
<1> QED BY <1>1, <1>3, <1>4, <1>5, <1>6

\* Under a tenant's prefix lie the handles of this tenant.
LEMMA WithinUploads ==
    ASSUME NEW s \in Tenant, NEW t \in Tenant, NEW f \in File,
           Within(UploadsOf(s), Handle(t, f))
    PROVE  s = t
<1>1. Seqs!IsPrefix((Base \o s) \o <<"/">>, (Base \o t) \o <<"/", f>>)
  BY HandleForm DEF Within
<1> QED BY <1>1, HandleForm, NamesOfOneTenant

\* No two uploads share an address.
LEMMA HandlesDiffer ==
    ASSUME NEW s \in Tenant, NEW e \in File, NEW t \in Tenant, NEW f \in File,
           Handle(s, e) = Handle(t, f)
    PROVE  s = t /\ e = f
<1>1. Within(UploadsOf(s), Handle(s, e))
  <2> DEFINE q == Base \o s
  <2>1. q \in Seq(Piece) /\ e \in Piece
        /\ UploadsOf(s) = q /\ Handle(s, e) = q \o <<"/", e>>
    <3>1. s \in Seq(Piece)
      BY HandleForm, SeqMonotonic
    <3> QED BY <3>1, HandleForm, ConcatProperties
  <2> HIDE DEF q
  <2>2. /\ q \o <<"/">> \in Seq(Piece) /\ Len(q \o <<"/">>) = Len(q) + 1
        /\ q \o <<"/", e>> \in Seq(Piece) /\ Len(q \o <<"/", e>>) = Len(q) + 2
        /\ Len(q) \in Nat
    BY <2>1 DEF Piece
  <2> DEFINE x == SubSeq(q \o <<"/">>, 1, Len(q) + 1)
             y == SubSeq(q \o <<"/", e>>, 1, Len(q) + 1)
  <2>3. /\ x \in Seq(Piece) /\ y \in Seq(Piece) /\ Len(x) = Len(q) + 1 /\ Len(y) = Len(q) + 1
    BY <2>1, <2>2
  <2>4. ASSUME NEW i \in 1 .. Len(q) + 1 PROVE x[i] = y[i]
    BY <2>1, <2>2
  <2>5. x = y
    <3> HIDE DEF x, y
    <3> QED BY <2>3, <2>4, SeqEqual
  <2> QED BY <2>1, <2>2, <2>5 DEF Within, Seqs!IsPrefix
<1>2. s = t
  BY <1>1, WithinUploads
<1>3. (Base \o s) \o <<"/", e>> = (Base \o s) \o <<"/", f>>
  BY <1>2, HandleForm, ZenonT(60)
<1>4. <<"/", e>> = <<"/", f>>
  <2>1. Base \o s \in Seq(Piece) /\ <<"/", e>> \in Seq(Piece) /\ <<"/", f>> \in Seq(Piece)
    <3>1. Base \in Seq(Piece) /\ s \in Seq(Piece)
      BY HandleForm, SeqMonotonic
    <3>2. <<"/", e>> \in Seq(Piece) /\ <<"/", f>> \in Seq(Piece)
      <4>1. "/" \in Piece
        BY DEF Piece
      <4>2. e \in Piece /\ f \in Piece
        BY HandleForm
      <4> QED BY <4>1, <4>2
    <3> QED BY <3>1, <3>2, ConcatProperties
  <2> QED BY <1>3, <2>1, ConcatSimplifications
<1>5. e = f
  <2>1. <<"/", e>>[2] = e /\ <<"/", f>>[2] = f
    OBVIOUS
  <2> QED BY <1>4, <2>1
<1> QED BY <1>2, <1>5

\* An address under the slash of a prefix is in the prefix's bucket.
LEMMA WithinBucket ==
    ASSUME NEW p \in Seq(Piece), NEW a \in Seq(Piece), Within(p, a)
    PROVE  Bucket(a) = Bucket(p)
<1> DEFINE n == Len(p)
           Before(x) == {i \in DOMAIN x : "/" \notin {x[j] : j \in 1 .. i}}
<1>1. /\ n \in Nat /\ Len(a) \in Nat /\ n + 1 <= Len(a)
      /\ DOMAIN p = 1 .. n /\ DOMAIN a = 1 .. Len(a)
      /\ a[n + 1] = "/" /\ \A i \in 1 .. n : a[i] = p[i]
  <2>1. /\ p \o <<"/">> \in Seq(Piece) /\ Len(p \o <<"/">>) = n + 1
        /\ (p \o <<"/">>)[n + 1] = "/" /\ \A i \in 1 .. n : (p \o <<"/">>)[i] = p[i]
    BY DEF Piece
  <2>2. n + 1 <= Len(a) /\ \A i \in 1 .. n + 1 : (p \o <<"/">>)[i] = a[i]
    <3>1. Seqs!IsPrefix(p \o <<"/">>, a)
      BY DEF Within
    <3> QED BY <2>1, <3>1, PrefixElements
  <2> QED BY <2>1, <2>2, LenProperties
<1> HIDE DEF n
<1>2. ASSUME NEW i \in 1 .. n PROVE {a[j] : j \in 1 .. i} = {p[j] : j \in 1 .. i}
  <2>1. \A j \in 1 .. i : a[j] = p[j]
    BY <1>1
  <2> QED BY <2>1
<1>3. \A i \in Before(a) : i \in 1 .. n
  BY <1>1
<1>4. Before(a) = Before(p)
  BY <1>1, <1>2, <1>3
<1>5. \A i \in Before(p) : a[i] = p[i]
  BY <1>1
<1> QED BY <1>4, <1>5 DEF Bucket
\* What can be at an address.
Object == [by : Tenant \cup {<<>>, <<"lake">>}, size : Int, n : Nat]

UploadsInv ==
    /\ uploads \subseteq [tenant : Tenant, file : File, open : BOOLEAN]
    /\ \A u \in uploads, v \in uploads : u.file = v.file => u = v

\* What is there was put there by the tenant whose handle it is.
StoreInv ==
    /\ store \in [Staged \cup Lake -> Object]
    /\ \A key \in Staged \cup Lake : store[key] = Nothing \/ store[key].n > 0
    /\ \A t \in Tenant, f \in File :
           store[Handle(t, f)].n > 0 => store[Handle(t, f)].by = t

LoadRecord == [pc : {"none", "head", "get", "read"}, tenant : Tenant \cup {<<>>},
               kind : {"none", "upload_handle", "s3_parquet"},
               from : Staged \cup Lake \cup {<<>>},
               seen : Object, got : Object, settled : BOOLEAN]

\* The object is the one that HEAD saw, or one put there after it; and for good
\* the one it saw when nobody could put any more.
Follows(thing, o) ==
    /\ o.seen.size <= IngestCap /\ o.seen.n > 0 /\ thing.n >= o.seen.n
    /\ thing.n = o.seen.n \/ o.settled => thing = o.seen

\* What an ingest that is under way has checked.
LoadInv ==
    /\ load \in LoadRecord
    /\ load.pc # "none" =>
           /\ load.from \in Staged \cup Lake
           /\ load.kind = "upload_handle" =>
                  load.tenant \in Tenant /\ \E f \in File : load.from = Handle(load.tenant, f)
           /\ load.kind = "s3_parquet" =>
                  load.from \in Lake /\
                  \E p \in Permitted : load.from = p \/ Within(p, load.from)
           /\ load.settled =>
                  \E u \in uploads : Handle(u.tenant, u.file) = load.from /\ ~u.open
    /\ load.pc = "get" => Follows(store[load.from], load)
    /\ load.pc = "read" =>
           /\ Follows(load.got, load)
           /\ load.kind = "upload_handle" => load.got.by = load.tenant

StagingInv == UploadsInv /\ StoreInv /\ LoadInv

\* Where nothing was put, and where nothing is under way.
LEMMA NothingIsAnObject ==
    /\ Nothing \in Object /\ Nothing.n = 0
    /\ NoLoad \in LoadRecord /\ NoLoad.pc = "none"
<1>1. Nothing \in Object /\ Nothing.n = 0
  BY DEF Nothing, Object
<1>2. NoLoad \in LoadRecord /\ NoLoad.pc = "none"
  BY <1>1 DEF NoLoad, LoadRecord
<1> QED BY <1>1, <1>2

\* The start: nothing was put, and the lake is none of the tenants' business.
LEMMA StagingInitInv == StagingInit => StagingInv
<1> SUFFICES ASSUME StagingInit PROVE StagingInv
  OBVIOUS
<1>1. PICK size \in 1 .. MaxBytes :
          store = [key \in Staged \cup Lake |->
                     IF key \in Lake THEN [by |-> <<"lake">>, size |-> size, n |-> 1] ELSE Nothing]
  BY DEF StagingInit
<1>2. UploadsInv
  BY DEF StagingInit, UploadsInv
<1>3. StoreInv
  <2> DEFINE lake == [by |-> <<"lake">>, size |-> size, n |-> 1]
  <2>1. lake \in Object /\ lake.n > 0
    BY DEF Object
  <2>2. \A t \in Tenant, f \in File : Handle(t, f) \in Staged /\ Handle(t, f) \notin Lake
    BY LakeAssumption DEF Staged
  <2> HIDE DEF lake
  <2>3. store = [key \in Staged \cup Lake |-> IF key \in Lake THEN lake ELSE Nothing]
    BY <1>1 DEF lake
  <2> QED BY <2>1, <2>2, <2>3, NothingIsAnObject DEF StoreInv
<1>4. LoadInv
  BY NothingIsAnObject DEF StagingInit, LoadInv
<1> QED BY <1>2, <1>3, <1>4 DEF StagingInv
\* A PUT leaves what it does not reach, and what it reaches is later than all
\* that was there.
LEMMA PutStores ==
    ASSUME StoreInv, NEW t \in Tenant, NEW f \in File, NEW size \in 1 .. MaxBytes,
           store' = [store EXCEPT ![Handle(t, f)] = [by |-> t, size |-> size, n |-> @.n + 1]]
    PROVE  /\ StoreInv'
           /\ \A key \in Staged \cup Lake :
                  \/ store'[key] = store[key]
                  \/ key = Handle(t, f) /\ store'[key].n > store[key].n
<1> DEFINE put == [by |-> t, size |-> size, n |-> store[Handle(t, f)].n + 1]
<1>1. Handle(t, f) \in Staged \cup Lake
  BY DEF Staged
<1>2. store[Handle(t, f)].n \in Nat
  BY <1>1 DEF StoreInv, Object
<1>3. put \in Object /\ put.n = store[Handle(t, f)].n + 1 /\ put.by = t
  BY <1>2, StagingAssumption DEF Object
<1>4. store' = [store EXCEPT ![Handle(t, f)] = put]
  OBVIOUS
<1> HIDE DEF put
<1>5. /\ store' \in [Staged \cup Lake -> Object] /\ store'[Handle(t, f)] = put
      /\ \A key \in Staged \cup Lake : key # Handle(t, f) => store'[key] = store[key]
  BY <1>1, <1>3, <1>4 DEF StoreInv
<1>6. \A key \in Staged \cup Lake : store'[key] = Nothing \/ store'[key].n > 0
  BY <1>2, <1>3, <1>5 DEF StoreInv
<1>7. ASSUME NEW s \in Tenant, NEW e \in File, store'[Handle(s, e)].n > 0
      PROVE  store'[Handle(s, e)].by = s
  <2>1. CASE Handle(s, e) = Handle(t, f)
    <3>1. s = t
      BY <2>1, HandlesDiffer
    <3> QED BY <1>3, <1>5, <2>1, <3>1
  <2>2. CASE Handle(s, e) # Handle(t, f)
    <3>1. store'[Handle(s, e)] = store[Handle(s, e)]
      BY <1>5, <2>2, HandleForm
    <3> QED BY <1>7, <3>1 DEF StoreInv
  <2> QED BY <2>1, <2>2
<1>8. StoreInv'
  BY ONLY <1>5, <1>6, <1>7 DEF StoreInv
<1> QED BY <1>2, <1>3, <1>5, <1>8

\* While an upload's URL has expired nobody puts to its address.
LEMMA ExpiredIsClosed ==
    ASSUME UploadsInv, NEW u \in uploads, ~u.open, NEW v \in uploads,
           Handle(v.tenant, v.file) = Handle(u.tenant, u.file)
    PROVE  ~v.open
<1>1. u.tenant \in Tenant /\ u.file \in File /\ v.tenant \in Tenant /\ v.file \in File
  BY DEF UploadsInv
<1>2. u.file = v.file
  BY <1>1, HandlesDiffer
<1>3. u = v
  BY <1>2 DEF UploadsInv
<1> QED BY <1>3

\* A new ticket, and one that expires, leave expired ones expired.
LEMMA UploadsStep ==
    ASSUME UploadsInv, RequestUpload \/ Expire
    PROVE  /\ UploadsInv' /\ store' = store /\ load' = load
           /\ \A u \in uploads : ~u.open => u \in uploads'
<1>1. CASE RequestUpload
  <2>1. PICK owner \in Tenant, file \in File \ {u.file : u \in uploads} :
            /\ uploads' = uploads \cup {[tenant |-> owner, file |-> file, open |-> TRUE]}
            /\ UNCHANGED <<store, load>>
    BY <1>1 DEF RequestUpload
  <2> DEFINE new == [tenant |-> owner, file |-> file, open |-> TRUE]
  <2>2. new \in [tenant : Tenant, file : File, open : BOOLEAN] /\ new.file = file
        /\ \A u \in uploads : u.file # file
    BY <2>1
  <2> HIDE DEF new
  <2>3. uploads' = uploads \cup {new}
    BY <2>1 DEF new
  <2> QED BY <2>1, <2>2, <2>3 DEF UploadsInv
<1>2. CASE Expire
  <2>1. PICK u \in uploads :
            /\ u.open
            /\ uploads' = (uploads \ {u}) \cup {[u EXCEPT !.open = FALSE]}
            /\ UNCHANGED <<store, load>>
    BY <1>2 DEF Expire
  <2> DEFINE closed == [u EXCEPT !.open = FALSE]
  <2>2. closed \in [tenant : Tenant, file : File, open : BOOLEAN] /\ closed.file = u.file
    BY DEF UploadsInv
  <2> HIDE DEF closed
  <2>3. uploads' = (uploads \ {u}) \cup {closed}
    BY <2>1 DEF closed
  <2> QED BY <2>1, <2>2, <2>3 DEF UploadsInv
<1> QED BY <1>1, <1>2

\* Every step keeps it.
LEMMA StagingStep == StagingInv /\ [StagingNext]_stagingVars => StagingInv'
<1> SUFFICES ASSUME StagingInv, [StagingNext]_stagingVars PROVE StagingInv'
  OBVIOUS
<1>0. UploadsInv /\ StoreInv /\ LoadInv /\ load \in LoadRecord
  BY DEF StagingInv, LoadInv
<1>1. CASE RequestUpload \/ Expire
  <2>1. /\ UploadsInv' /\ store' = store /\ load' = load
        /\ \A u \in uploads : ~u.open => u \in uploads'
    BY <1>0, <1>1, UploadsStep
  <2>2. StoreInv'
    BY <1>0, <2>1 DEF StoreInv
  <2>3. LoadInv'
    BY <1>0, <2>1 DEF LoadInv
  <2> QED BY <2>1, <2>2, <2>3 DEF StagingInv
<1>2. CASE Put
  <2>1. PICK u \in uploads, size \in 1 .. MaxBytes :
            /\ u.open
            /\ store' = [store EXCEPT ![Handle(u.tenant, u.file)] =
                             [by |-> u.tenant, size |-> size, n |-> @.n + 1]]
            /\ uploads' = uploads /\ load' = load
    BY <1>2 DEF Put
  <2>2. u.tenant \in Tenant /\ u.file \in File
    BY <1>0, <2>1 DEF UploadsInv
  <2>3. /\ StoreInv'
        /\ \A key \in Staged \cup Lake :
               \/ store'[key] = store[key]
               \/ key = Handle(u.tenant, u.file) /\ store'[key].n > store[key].n
    BY <1>0, <2>1, <2>2, PutStores
  <2>4. ASSUME load.pc = "get" PROVE Follows(store'[load.from], load)
    <3> DEFINE was == store[load.from]
               is == store'[load.from]
    <3>1. load.from \in Staged \cup Lake /\ Follows(was, load)
      BY <1>0, <2>4 DEF LoadInv
    <3>2. was.n \in Nat /\ is.n \in Nat /\ load.seen.n \in Nat
      BY <1>0, <2>3, <3>1 DEF StoreInv, LoadRecord, Object
    <3>3. is = was \/ (load.from = Handle(u.tenant, u.file) /\ is.n > was.n)
      BY <2>3, <3>1
    <3>4. load.settled => load.from # Handle(u.tenant, u.file)
      <4> SUFFICES ASSUME load.settled, load.from = Handle(u.tenant, u.file) PROVE FALSE
        OBVIOUS
      <4>1. PICK v \in uploads : Handle(v.tenant, v.file) = load.from /\ ~v.open
        BY <1>0, <2>4 DEF LoadInv
      <4> QED BY <1>0, <2>1, <4>1, ExpiredIsClosed
    <3> HIDE DEF was, is
    <3>5. Follows(is, load)
      BY <3>1, <3>2, <3>3, <3>4 DEF Follows
    <3> QED BY <3>5 DEF is
  <2>5. LoadInv'
    BY <1>0, <2>1, <2>4 DEF LoadInv
  <2>6. UploadsInv'
    BY <1>0, <2>1 DEF UploadsInv
  <2> QED BY <2>3, <2>5, <2>6 DEF StagingInv
<1>3. CASE BeginLoad
  <2>1. PICK kind \in {"upload_handle", "s3_parquet"}, owner \in Tenant, address \in Staged \cup Lake :
            /\ kind = "upload_handle" <=> address \in Staged
            /\ SourceAllowed(kind, owner, address)
            /\ load' = [NoLoad EXCEPT !.pc = "head", !.tenant = owner, !.kind = kind,
                           !.from = address,
                           !.settled = \E u \in uploads :
                                           Handle(u.tenant, u.file) = address /\ ~u.open]
            /\ UNCHANGED <<uploads, store>>
    BY <1>3 DEF BeginLoad
  <2> DEFINE settled == \E u \in uploads : Handle(u.tenant, u.file) = address /\ ~u.open
  <2>2. settled \in BOOLEAN
    OBVIOUS
  <2>3. load' = [NoLoad EXCEPT !.pc = "head", !.tenant = owner, !.kind = kind,
                           !.from = address, !.settled = settled]
    BY <2>1
  <2>4. settled => \E u \in uploads : Handle(u.tenant, u.file) = address /\ ~u.open
    OBVIOUS
  <2> HIDE DEF settled
  <2>5. /\ load' \in LoadRecord
        /\ load'.pc = "head" /\ load'.tenant = owner /\ load'.kind = kind
        /\ load'.from = address /\ load'.settled = settled
    BY <2>2, <2>3, NothingIsAnObject DEF LoadRecord
  <2>6. ASSUME kind = "upload_handle" PROVE \E f \in File : address = Handle(owner, f)
    <3>1. PICK t \in Tenant, f \in File : address = Handle(t, f)
      BY <2>1, <2>6 DEF Staged
    <3>2. Within(UploadsOf(owner), Handle(t, f))
      BY <2>1, <2>6, <3>1 DEF SourceAllowed
    <3>3. owner = t
      BY <3>2, WithinUploads
    <3> QED BY <3>1, <3>3
  <2>7. ASSUME kind = "s3_parquet"
        PROVE  address \in Lake /\ \E p \in Permitted : address = p \/ Within(p, address)
    BY <2>1, <2>7 DEF SourceAllowed
  <2>8. uploads' = uploads /\ store' = store
    BY <2>1
  <2>9. LoadInv'
    BY <2>1, <2>4, <2>5, <2>6, <2>7, <2>8 DEF LoadInv
  <2> QED BY <1>0, <2>8, <2>9, SMTT(30) DEF StagingInv, UploadsInv, StoreInv
<1>4. CASE AskSize
  <2> DEFINE thing == store[load.from]
  <2>1. load.pc = "head" /\ uploads' = uploads /\ store' = store
    BY <1>4 DEF AskSize
  <2>2. load' = (IF thing # Nothing /\ SizeAllowed(thing)
                 THEN [load EXCEPT !.pc = "get", !.seen = thing] ELSE NoLoad)
    BY <1>4 DEF AskSize
  <2>3. load.from \in Staged \cup Lake
    BY <1>0, <2>1 DEF LoadInv
  <2>4. thing \in Object /\ (thing = Nothing \/ thing.n > 0)
    BY <1>0, <2>3 DEF StoreInv
  <2>5. CASE thing # Nothing /\ SizeAllowed(thing)
    <3>1. thing.size <= IngestCap /\ thing.n > 0 /\ thing.n \in Nat
      BY <2>4, <2>5 DEF SizeAllowed, Object
    <3>0. thing = store[load.from]
      OBVIOUS
    <3> HIDE DEF thing
    <3>2. load' = [load EXCEPT !.pc = "get", !.seen = thing]
      BY <2>2, <2>5
    <3>3. /\ load' \in LoadRecord /\ load'.pc = "get" /\ load'.seen = thing
          /\ load'.from = load.from /\ load'.kind = load.kind /\ load'.tenant = load.tenant
          /\ load'.settled = load.settled
      BY <1>0, <2>4, <3>2 DEF LoadRecord
    <3>4. Follows(store'[load'.from], load')
      BY <2>1, <3>0, <3>1, <3>3 DEF Follows
    <3>5. LoadInv'
      BY <1>0, <2>1, <3>3, <3>4 DEF LoadInv
    <3> QED BY <1>0, <2>1, <3>5 DEF StagingInv, UploadsInv, StoreInv
  <2>6. CASE ~(thing # Nothing /\ SizeAllowed(thing))
    <3>1. load' = NoLoad
      BY <2>2, <2>6
    <3>2. LoadInv'
      BY <3>1, NothingIsAnObject DEF LoadInv
    <3> QED BY <1>0, <2>1, <3>2 DEF StagingInv, UploadsInv, StoreInv
  <2> QED BY <2>5, <2>6
<1>5. CASE ReadObject
  <2> DEFINE thing == store[load.from]
  <2>1. load.pc = "get" /\ uploads' = uploads /\ store' = store
        /\ load' = [load EXCEPT !.pc = "read", !.got = thing]
    BY <1>5 DEF ReadObject
  <2>2. load.from \in Staged \cup Lake /\ Follows(thing, load)
    BY <1>0, <2>1 DEF LoadInv
  <2>3. thing \in Object
    BY <1>0, <2>2 DEF StoreInv
  <2>4. ASSUME load.kind = "upload_handle" PROVE thing.by = load.tenant
    <3>1. PICK f \in File : load.from = Handle(load.tenant, f)
      BY <1>0, <2>1, <2>4 DEF LoadInv
    <3>2. load.tenant \in Tenant
      BY <1>0, <2>1, <2>4 DEF LoadInv
    <3>3. thing.n > 0
      BY <1>0, <2>2, <2>3 DEF Follows, LoadRecord, Object
    <3> QED BY <1>0, <3>1, <3>2, <3>3 DEF StoreInv
  <2> HIDE DEF thing
  <2>5. /\ load' \in LoadRecord /\ load'.pc = "read" /\ load'.got = thing /\ load'.seen = load.seen
        /\ load'.from = load.from /\ load'.kind = load.kind /\ load'.tenant = load.tenant
        /\ load'.settled = load.settled
    BY <1>0, <2>1, <2>3 DEF LoadRecord
  <2>6. Follows(load'.got, load')
    BY <2>2, <2>5 DEF Follows
  <2>7. LoadInv'
    BY <1>0, <2>1, <2>4, <2>5, <2>6 DEF LoadInv
  <2> QED BY <1>0, <2>1, <2>7 DEF StagingInv, UploadsInv, StoreInv
<1>6. CASE UNCHANGED stagingVars
  BY <1>6 DEF stagingVars, StagingInv, UploadsInv, StoreInv, LoadInv
<1> QED BY <1>1, <1>2, <1>3, <1>4, <1>5, <1>6 DEF StagingNext

\* What was checked of an ingest is so of what it reads.
LEMMA StagingInvMeant == StagingInv => StagedReadsAreMeant
<1> SUFFICES ASSUME StagingInv, load.pc = "read" PROVE StagedReadsAreMeant
  BY DEF StagedReadsAreMeant
<1>1. /\ load \in LoadRecord /\ Follows(load.got, load)
      /\ load.kind = "upload_handle" => load.got.by = load.tenant
      /\ load.kind = "s3_parquet" =>
             load.from \in Lake /\ \E p \in Permitted : load.from = p \/ Within(p, load.from)
  BY DEF StagingInv, LoadInv
<1>2. ASSUME load.kind = "s3_parquet" PROVE \E p \in Permitted : Bucket(load.from) = Bucket(p)
  <2>1. PICK p \in Permitted : load.from = p \/ Within(p, load.from)
    BY <1>1, <1>2
  <2>2. p \in Seq(Piece) /\ load.from \in Seq(Piece)
    <3>1. p \in Seq(STRING) /\ load.from \in Seq(STRING)
      BY <1>1, <1>2, AddressAssumption
    <3> QED BY <3>1, SeqMonotonic DEF Piece
  <2>3. Bucket(load.from) = Bucket(p)
    BY <2>1, <2>2, WithinBucket
  <2> QED BY <2>3
<1>3. ASSUME load.got.size > IngestCap PROVE ~load.settled /\ load.got.n > load.seen.n
  <2>1. load.got # load.seen
    BY <1>1, <1>3, StagingAssumption DEF Follows, LoadRecord, Object
  <2>2. load.got.n \in Nat /\ load.seen.n \in Nat
    BY <1>1 DEF LoadRecord, Object
  <2> QED BY <1>1, <2>1, <2>2 DEF Follows
<1> QED BY <1>1, <1>2, <1>3 DEF StagedReadsAreMeant
-----------------------------------------------------------------------------
(***************************************************************************)
(* The parts together: one is at work and keeps its invariant, and the     *)
(* others rest.                                                            *)
(***************************************************************************)

RequestInv ==
    /\ IF part = "tenancy" THEN TenancyInv ELSE TenancyRests
    /\ IF part = "guard" THEN GuardInv ELSE GuardRests
    /\ IF part = "preview" THEN PreviewInv ELSE PreviewRests
    /\ IF part = "ticket" THEN TicketInv ELSE TicketRests
    /\ IF part = "stream" THEN StreamInv ELSE StreamRests
    /\ IF part = "staging" THEN StagingInv ELSE StagingRests
    /\ IF part = "shapes" THEN ShapeInv ELSE ShapesRest

LEMMA RequestInitInv == RequestInit => RequestInv
<1>1. TicketInit => TicketInv
  BY NoTicketInv, TicketAssumption DEF TicketInit
<1> QED BY <1>1, TenancyInitInv, GuardInitInv, PreviewInitInv, StreamInitInv, StagingInitInv,
           ShapeInitInv DEF RequestInit, RequestInv

\* A step is one of the part that is at work.
LEMMA OnePartSteps ==
    ASSUME [RequestNext]_requestVars
    PROVE  /\ part' = part
           /\ [part = "tenancy" /\ TenancyNext]_tenancyVars
           /\ [part = "guard" /\ GuardNext]_guardVars
           /\ [part = "preview" /\ PreviewNext]_previewVars
           /\ [part = "ticket" /\ TicketNext]_ticketVars
           /\ [part = "stream" /\ StreamNext]_streamVars
           /\ [part = "staging" /\ StagingNext]_stagingVars
           /\ [part = "shapes" /\ ShapeNext]_shapeVars
  BY DEF RequestNext, requestVars

LEMMA RequestStep == RequestInv /\ [RequestNext]_requestVars => RequestInv'
<1> SUFFICES ASSUME RequestInv, [RequestNext]_requestVars PROVE RequestInv'
  OBVIOUS
<1>1. IF part' = "tenancy" THEN TenancyInv' ELSE TenancyRests'
  BY OnePartSteps, TenancyStep DEF RequestInv, TenancyRests, tenancyVars
<1>2. IF part' = "guard" THEN GuardInv' ELSE GuardRests'
  BY OnePartSteps, GuardStep DEF RequestInv, GuardRests, guardVars
<1>3. IF part' = "preview" THEN PreviewInv' ELSE PreviewRests'
  BY OnePartSteps, PreviewStep DEF RequestInv, PreviewRests, previewVars
<1>4. IF part' = "ticket" THEN TicketInv' ELSE TicketRests'
  BY OnePartSteps, TicketStep DEF RequestInv, TicketRests, ticketVars
<1>5. IF part' = "stream" THEN StreamInv' ELSE StreamRests'
  BY OnePartSteps, StreamStep DEF RequestInv, StreamRests, streamVars
<1>6. IF part' = "staging" THEN StagingInv' ELSE StagingRests'
  BY OnePartSteps, StagingStep DEF RequestInv, StagingRests, stagingVars
<1>7. IF part' = "shapes" THEN ShapeInv' ELSE ShapesRest'
  BY OnePartSteps, ShapeStep DEF RequestInv, ShapesRest, shapeVars
<1> QED BY <1>1, <1>2, <1>3, <1>4, <1>5, <1>6, <1>7 DEF RequestInv

LEMMA RequestInvAlways == RequestSpec => []RequestInv
  BY RequestInitInv, RequestStep, PTL DEF RequestSpec

LEMMA TenantsAreTheCallers == RequestInv => PrivateIsPrivate /\ WordDoesNotCount /\ DoorsAgree
<1>1. TenancyRests => PrivateIsPrivate /\ WordDoesNotCount /\ DoorsAgree
  BY DEF TenancyRests, PrivateIsPrivate, WordDoesNotCount, DoorsAgree
<1> QED BY <1>1, TenancyIsPrivate, TenancyIgnoresTheWord, TenancyDoorsAgree DEF RequestInv

\* For any identities and settings: private tenants are shared by no two
\* subjects.
THEOREM PrivateTenantsArePrivate == RequestSpec => []PrivateIsPrivate
  BY TenantsAreTheCallers, RequestInvAlways, PTL

\* A client's word changes nothing where it does not count.
THEOREM WordsDoNotCount == RequestSpec => []WordDoesNotCount
  BY TenantsAreTheCallers, RequestInvAlways, PTL

\* Both doors lead a caller to the same tenant.
THEOREM BothDoorsAgree == RequestSpec => []DoorsAgree
  BY TenantsAreTheCallers, RequestInvAlways, PTL

LEMMA SelectsReadTheirOwn == RequestInv => ReadsAreOwn /\ LineageIsOfReads /\ ReadableIsRead
<1>1. GuardRests => GuardInit
  BY DEF GuardRests, GuardInit
<1>2. GuardRests => GuardInv
  BY <1>1, GuardInitInv
<1> QED BY <1>2, GuardInvReads, GuardInvLineage, GuardInvReadable DEF RequestInv

\* For any names of tables and WITH queries, and any number of them in one
\* statement: what an answered statement has read is readable.
THEOREM SelectsReadTheirOwnTables == RequestSpec => []ReadsAreOwn
  BY SelectsReadTheirOwn, RequestInvAlways, PTL

\* What the guard reports for the lineage is what is read.
THEOREM LineageTellsTheReads == RequestSpec => []LineageIsOfReads
  BY SelectsReadTheirOwn, RequestInvAlways, PTL

\* A SELECT that means readable tables only passes the guard, and an answer is
\* what the SELECT means, unless it uses a name of a WITH out of its scope.
THEOREM ReadableTablesAreRead == RequestSpec => []ReadableIsRead
  BY SelectsReadTheirOwn, RequestInvAlways, PTL

\* For any cap, any limits and any number of rows, a preview is exact.
THEOREM PreviewsAreExact == RequestSpec => []PreviewIsExact
<1>1. RequestInv => PreviewIsExact
  <2>1. PreviewRests => PreviewIsExact
    BY DEF PreviewRests, PreviewIsExact, Answered, NoReply
  <2> QED BY <2>1, PreviewInvExact DEF RequestInv
<1> QED BY <1>1, RequestInvAlways, PTL

\* For any lifetime, and any skew that the clocks of the two servers keep to, a
\* ticket is good for its time.
THEOREM TicketsAreGood == RequestSpec => []TicketsLastTheirTime
<1>1. RequestInv => TicketsLastTheirTime
  <2>1. TicketRests => TicketInv
    <3>1. ASSUME now = 0, skew = 0 PROVE now \in Int /\ skew \in -MaxSkew .. MaxSkew
      BY <3>1, TicketAssumption
    <3> QED BY <3>1, NoTicketInv DEF TicketRests
  <2> QED BY <2>1, TicketInvBounds DEF RequestInv
<1> QED BY <1>1, RequestInvAlways, PTL

LEMMA StreamsEndWell == RequestInv => ReturnedIsComplete /\ StartedStreamsClose
<1>1. StreamRests => ReturnedIsComplete /\ StartedStreamsClose
  BY DEF StreamRests, ReturnedIsComplete, StartedStreamsClose
<1> QED BY <1>1, StreamInvSuffices DEF RequestInv

\* For results of any size in batches of any, what a call returns is whole.
THEOREM ResultsAreWhole == RequestSpec => []ReturnedIsComplete
  BY StreamsEndWell, RequestInvAlways, PTL

\* A stream that ran has closed its connection, however it ended.
THEOREM StreamsCloseConnections == RequestSpec => []StartedStreamsClose
  BY StreamsEndWell, RequestInvAlways, PTL

\* For any tenants without slashes in their names, any number of uploads and
\* PUTs, and any prefixes: an ingest reads what is meant, and no more than fits
\* unless its own tenant put more there in between.
THEOREM IngestsReadWhatIsMeant == RequestSpec => []StagedReadsAreMeant
<1>1. RequestInv => StagedReadsAreMeant
  <2>1. StagingRests => StagedReadsAreMeant
    BY DEF StagingRests, StagedReadsAreMeant, NoLoad
  <2> QED BY <2>1, StagingInvMeant DEF RequestInv
<1> QED BY <1>1, RequestInvAlways, PTL

\* For any number of writers, shapes and changes: rows have the columns of their
\* table, and a table keeps its own but under an overtaken probe.
THEOREM ColumnsAreKept == RequestSpec => ShapesAreKept
<1>1. RequestInv /\ RequestInv' /\ [RequestNext]_requestVars => [KeptStep]_shapeVars
  <2> SUFFICES ASSUME RequestInv, RequestInv', [RequestNext]_requestVars, ~UNCHANGED shapeVars
               PROVE  KeptStep
    OBVIOUS
  <2>1. part = "shapes" /\ part' = part /\ ShapeNext
    BY OnePartSteps
  <2>2. ShapeInv /\ ShapeInv'
    BY <2>1 DEF RequestInv
  <2> QED BY <2>1, <2>2, OnlyCtasReshapes DEF ShapeInv, KeptStep
<1>2. RequestSpec => [][KeptStep]_shapeVars
  BY <1>1, RequestInvAlways, PTL DEF RequestSpec
<1> QED BY <1>2 DEF ShapesAreKept, KeptStep
=============================================================================
