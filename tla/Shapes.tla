------------------------------- MODULE Shapes -------------------------------
(***************************************************************************)
(* The columns of a dataset, and who may change them.  write_arrow         *)
(* (core/catalog.py) takes rows only of the columns and types the table    *)
(* has; derive_object (tools/derive.py) probes the SELECT before it        *)
(* replaces a table, by names alone.  Each looks first and commits later,  *)
(* with the calls of others in between.                                    *)
(***************************************************************************)
EXTENDS Integers

CONSTANTS
    Writer,      \* calls that write the dataset
    Shape,       \* functions from column names to types
    MaxChanges   \* bound: forgets of the dataset and changes of what SELECTs read

ASSUME ChangesAssumption == MaxChanges \in Nat
ASSUME ShapeAssumption == Shape # {}

VARIABLES
    \* The dataset: version (0: there is no table), columns, and the shapes of
    \* the rows it holds.
    dataset,
    \* The columns the derives' SELECT has at the moment, and a count of what
    \* has changed under it.
    source,
    \* The writers' calls: what each brings or has looked at.
    writer,
    \* Versions, and changes, so far.
    made, changes

shapeVars == <<dataset, source, writer, made, changes>>

NoColumns == CHOOSE s \in Shape : TRUE

NoDataset == [version |-> 0, shape |-> NoColumns, rows |-> {}]

Unborn == [pc |-> "new", mode |-> "none", shape |-> NoColumns, base |-> 0, read |-> 0]

ShapeInit ==
    /\ dataset = NoDataset
    /\ source \in [shape : Shape, n : {0}]
    /\ writer = [w \in Writer |-> Unborn]
    /\ made = 0 /\ changes = 0

There == dataset.version > 0

Step(w, o) == writer' = [writer EXCEPT ![w] = o]

GoTo(w, place) == Step(w, [writer[w] EXCEPT !.pc = place])

Ends(w) == GoTo(w, "over")

\* A catalog commit that leaves these columns and rows.
Make(shape, rows) ==
    /\ made' = made + 1
    /\ dataset' = [version |-> made + 1, shape |-> shape, rows |-> rows]
-----------------------------------------------------------------------------
\* write_arrow.  Which way it takes depends on the table and the mode.
WriteBegins(w) ==
    \E mode \in {"create", "replace", "append"}, shape \in Shape :
        /\ writer[w].pc = "new"
        /\ mode = "create" => ~There
        /\ Step(w, [Unborn EXCEPT !.pc = IF There THEN "load" ELSE "create",
                                  !.mode = mode, !.shape = shape])
        /\ UNCHANGED <<dataset, source, made, changes>>

WriteCreates(w) ==
    /\ writer[w].pc = "create"
    /\ IF There
       THEN Ends(w) /\ UNCHANGED <<dataset, made>>
       ELSE /\ Make(writer[w].shape, {})
            /\ Step(w, [writer[w] EXCEPT !.pc = "commit", !.base = made + 1])
    /\ UNCHANGED <<source, changes>>

\* Mutant: a type may differ.
SameNames(shape) == DOMAIN shape = DOMAIN dataset.shape

\* _assert_schema_compatible: names and types.
Compatible(shape) == shape = dataset.shape

\* load_table and the check.
WriteLoads(w) ==
    /\ writer[w].pc = "load"
    /\ IF There /\ Compatible(writer[w].shape)
       THEN Step(w, [writer[w] EXCEPT !.pc = "commit", !.base = dataset.version])
       ELSE Ends(w)
    /\ UNCHANGED <<dataset, source, made, changes>>

\* append keeps the rows there are, overwrite does not; refused if another
\* commit came first.
WriteCommits(w) ==
    /\ writer[w].pc = "commit"
    /\ IF dataset.version = writer[w].base
       THEN Make(dataset.shape,
                 {writer[w].shape} \cup IF writer[w].mode = "append" THEN dataset.rows ELSE {})
       ELSE UNCHANGED <<dataset, made>>
    /\ Ends(w)
    /\ UNCHANGED <<source, changes>>
-----------------------------------------------------------------------------
\* derive_object.  Only a replace of a dataset that is there is probed.
DeriveBegins(w) ==
    \E mode \in {"create", "replace"} :
        /\ writer[w].pc = "new"
        /\ mode = "create" => ~There
        /\ Step(w, [Unborn EXCEPT !.pc = IF There THEN "columns" ELSE "ctas", !.mode = mode])
        /\ UNCHANGED <<dataset, source, made, changes>>

\* _assert_replace_keeps_shape: load_schema ...
DeriveLoads(w) ==
    /\ writer[w].pc = "columns"
    /\ IF There
       THEN Step(w, [writer[w] EXCEPT !.pc = "probe", !.shape = dataset.shape,
                                      !.base = dataset.version])
       ELSE Ends(w)
    /\ UNCHANGED <<dataset, source, made, changes>>

KeepsColumns(w) == DOMAIN writer[w].shape = DOMAIN source.shape

\* ... and the SELECT with no rows, whose column names are compared.
DeriveProbes(w) ==
    /\ writer[w].pc = "probe"
    /\ IF KeepsColumns(w)
       THEN Step(w, [writer[w] EXCEPT !.pc = "ctas", !.read = source.n])
       ELSE Ends(w)
    /\ UNCHANGED <<dataset, source, made, changes>>

\* CREATE TABLE AS, exclusive, or CREATE OR REPLACE TABLE AS.
DeriveCommits(w) ==
    /\ writer[w].pc = "ctas"
    /\ IF writer[w].mode = "create" /\ There
       THEN UNCHANGED <<dataset, made>>
       ELSE Make(source.shape, {source.shape})
    /\ Ends(w)
    /\ UNCHANGED <<source, changes>>
-----------------------------------------------------------------------------
ShapeForget ==
    /\ There /\ changes < MaxChanges
    /\ dataset' = NoDataset /\ changes' = changes + 1
    /\ UNCHANGED <<source, writer, made>>

\* Somebody changes what the SELECT reads.
SourceChanges ==
    /\ changes < MaxChanges
    /\ source' \in [shape : Shape, n : {source.n + 1}] /\ changes' = changes + 1
    /\ UNCHANGED <<dataset, writer, made>>

ShapeNext ==
    \/ \E w \in Writer : \/ WriteBegins(w) \/ WriteCreates(w) \/ WriteLoads(w) \/ WriteCommits(w)
                         \/ DeriveBegins(w) \/ DeriveLoads(w) \/ DeriveProbes(w) \/ DeriveCommits(w)
    \/ ShapeForget
    \/ SourceChanges

ShapeSpec == ShapeInit /\ [][ShapeNext]_shapeVars
-----------------------------------------------------------------------------
\* A derive whose probe is out of date when its CTAS commits: the dataset, or
\* what the SELECT reads, has changed since.
Outdated(w) ==
    writer[w].pc = "ctas" /\ (writer[w].base # dataset.version \/ writer[w].read # source.n)

\* "A changed shape is rejected rather than silently evolved": rows always
\* have the columns and types of their table, a table keeps both under every
\* write_arrow and its column names under every derive - except a derive whose
\* probe others have overtaken, which may reshape it.
ShapesAreKept ==
    [][/\ dataset'.rows \subseteq {dataset'.shape}
       /\ There /\ There' /\ dataset'.shape # dataset.shape =>
              \E w \in Writer :
                  /\ writer[w].pc = "ctas" /\ writer'[w].pc = "over"
                  /\ Outdated(w) \/ DOMAIN dataset'.shape = DOMAIN dataset.shape]_shapeVars
=============================================================================
