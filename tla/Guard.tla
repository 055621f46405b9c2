------------------------------- MODULE Guard -------------------------------
(***************************************************************************)
(* How the table names of a SELECT become tables: validate_select          *)
(* (core/sql_guard.py) qualifies or refuses each name, and Trino resolves  *)
(* what is left.  The text is abstracted to where a name stands: in the    *)
(* body of a WITH of the statement, in its main part, or in a subquery     *)
(* with a WITH of its own.  (Neither WITH is RECURSIVE.)                   *)
(***************************************************************************)
CONSTANT Name   \* names of tables and of WITH queries

ASSUME NameAssumption == "" \notin Name

VARIABLES
  query,     \* the statement, and how its caller calls validate_select
  guarded,   \* the GuardedQuery, or that it was refused
  answer     \* what Trino makes of the guarded statement

guardVars == <<query, guarded, answer>>

\* An exp.Table.  "lake" is settings.trino_catalog; "own" is the tenant's
\* namespace, "ref" another schema, "meta" one of _DENY_SCHEMAS.  A table
\* function has no name.
TableFunction == [cat |-> "", db |-> "", name |-> ""]

Table == {TableFunction} \cup
         {t \in [cat : {"", "lake", "other"}, db : {"", "own", "ref", "meta", "scratch"},
                 name : Name] : t.db = "" => t.cat = ""}

Place == {"with", "main", "subquery"}

\* bound: a statement uses at most two names.
Uses == {{}} \cup {{u, v} : u, v \in [place : Place, table : Table]}

AtMostOne(S) == {{}} \cup {{x} : x \in S}

\* outer, inner: the name, if any, that the statement's WITH and the
\* subquery's define.  shared: settings.shared_schemas.  scratch: whether the
\* caller passes the scratch catalog; exports, streams and Flight do not.
Select == [read : {TRUE}, outer : AtMostOne(Name), inner : AtMostOne(Name), uses : Uses,
           shared : {{}, {"ref", "meta"}}, scratch : BOOLEAN]

\* No statement or several, a statement that does not parse, that is no
\* SELECT, or that hides a write.
NoSelect == [read |-> FALSE, outer |-> {}, inner |-> {}, uses |-> {}, shared |-> {},
             scratch |-> FALSE]

NotGuarded == [status |-> "none", uses |-> {}, referenced |-> {}, scratch |-> {}]

NoAnswer == [status |-> "none", reads |-> {}]

GuardInit ==
    /\ query \in Select \cup {NoSelect}
    /\ guarded = NotGuarded /\ answer = NoAnswer

Bare(t) == t.cat = "" /\ t.db = ""

\* Mutant: only the statement's own WITH is looked at.
OuterNamesOnly == query.outer

\* _cte_names: every WITH of the statement, wherever it stands.
CteNames == query.outer \cup query.inner

\* A name taken for a WITH query is left as it is.
IsCte(t) == Bare(t) /\ t.name \in CteNames

\* The reserved alias scratch.<label>.
IsScratch(t) == query.scratch /\ t.cat = "" /\ t.db = "scratch"

\* Mutant: a schema that is listed as shared needs no other check.
RefusedUnlessListed(t) ==
    /\ ~IsCte(t)
    /\ \/ t.name = ""
       \/ /\ ~IsScratch(t)
          /\ t.cat = "other" \/ t.db \notin {"", "own"} \cup query.shared

Refused(t) ==
    /\ ~IsCte(t)
    /\ \/ t.name = ""
       \/ /\ ~IsScratch(t)
          /\ \/ t.cat = "other"
             \/ t.db = "meta"
             \/ t.db \notin {"", "own"} \cup query.shared

\* The name that validate_select puts in the place of one it accepts.
Qualified(t) ==
    CASE IsCte(t)     -> t
      [] IsScratch(t) -> [cat |-> "scratch", db |-> "own", name |-> t.name]
      [] OTHER        -> [cat |-> "lake", db |-> IF t.db = "" THEN "own" ELSE t.db,
                          name |-> t.name]

Used == {u.table : u \in query.uses}

Refuse ==
    /\ guarded = NotGuarded
    /\ ~query.read \/ \E t \in Used : Refused(t)
    /\ guarded' = [NotGuarded EXCEPT !.status = "refused"]
    /\ UNCHANGED <<query, answer>>

Accept ==
    /\ guarded = NotGuarded
    /\ query.read /\ \A t \in Used : ~Refused(t)
    /\ guarded' = [status |-> "accepted",
                   uses |-> {[u EXCEPT !.table = Qualified(@)] : u \in query.uses},
                   referenced |-> {t.name : t \in {t \in Used : ~IsCte(t) /\ ~IsScratch(t)}},
                   scratch |-> {t.name : t \in {t \in Used : IsScratch(t)}}]
    /\ UNCHANGED <<query, answer>>

\* The WITH queries a name can mean at its place, by the scoping rules of SQL.
InScope(u) ==
    /\ Bare(u.table)
    /\ u.table.name \in CASE u.place = "with"     -> {}
                          [] u.place = "main"     -> query.outer
                          [] u.place = "subquery" -> query.outer \cup query.inner

\* Mutant: the session has the tenant's schema.
SessionSchemaOwn == "own"

\* _connect gives the session a catalog and no schema.
SessionSchema == ""

Tables == {u.table : u \in {u \in guarded.uses : ~InScope(u)}}

\* Trino refuses a bare name that is no WITH query of its place.
Fail ==
    /\ guarded.status = "accepted" /\ answer = NoAnswer
    /\ SessionSchema = "" /\ \E t \in Tables : Bare(t)
    /\ answer' = [NoAnswer EXCEPT !.status = "failed"]
    /\ UNCHANGED <<query, guarded>>

Read ==
    /\ guarded.status = "accepted" /\ answer = NoAnswer
    /\ SessionSchema # "" \/ \A t \in Tables : ~Bare(t)
    /\ answer' = [status |-> "read",
                  reads |-> {IF Bare(t) THEN [cat |-> "lake", db |-> SessionSchema, name |-> t.name]
                             ELSE t : t \in Tables}]
    /\ UNCHANGED <<query, guarded>>

GuardNext == Refuse \/ Accept \/ Fail \/ Read

GuardSpec == GuardInit /\ [][GuardNext]_guardVars
-----------------------------------------------------------------------------
\* What a tenant may read: its tables, those of shared schemas that are no
\* metadata, and its scratchpad where the caller allows for it.
Readable ==
    [cat : {"lake"}, db : {"own"} \cup (query.shared \ {"meta"}), name : Name] \cup
    (IF query.scratch THEN [cat : {"scratch"}, db : {"own"}, name : Name] ELSE {})

\* A statement that Trino answers read nothing else, though the guard takes
\* the names of every WITH for names that hold everywhere: where one does
\* not hold, the name stays bare, and a session without schema refuses it.
ReadsAreOwn == answer.reads \subseteq Readable

\* The labels that the guard reports, from which derive takes the parents of
\* its lineage, are exactly the names of the tables that were read.
LineageIsOfReads ==
    answer.status = "read" =>
        /\ guarded.referenced = {t.name : t \in {t \in answer.reads : t.cat = "lake"}}
        /\ guarded.scratch = {t.name : t \in {t \in answer.reads : t.cat = "scratch"}}

\* The table a name stands for to someone who knows SQL and that bare names
\* are the tenant's own, and those of a statement that have a meaning here.
Meaning(t) ==
    [cat |-> IF t.cat = "" /\ t.db = "scratch" THEN "scratch"
             ELSE IF t.cat = "" THEN "lake" ELSE t.cat,
     db |-> IF t.db = "" \/ (t.cat = "" /\ t.db = "scratch") THEN "own" ELSE t.db,
     name |-> t.name]

Meant == {Meaning(u.table) : u \in {u \in query.uses : ~InScope(u)}}

\* A name of a WITH query that is used where that WITH does not hold.
Shadowed == \E u \in query.uses : IsCte(u.table) /\ ~InScope(u)

\* Nothing readable is kept from its owner: a SELECT that names readable
\* tables only, and uses no name of a WITH out of its scope, is answered from
\* the tables it names.
ReadableIsRead ==
    /\ query.read /\ Meant \subseteq Readable /\ ~Shadowed => guarded.status # "refused"
    /\ answer.status # "none" /\ ~Shadowed => answer = [status |-> "read", reads |-> Meant]
=============================================================================
