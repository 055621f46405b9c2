------------------------------ MODULE Preview ------------------------------
(***************************************************************************)
(* The rows a preview returns and what it says of the rows it leaves out:  *)
(* run_query (tools/query.py), the preview of get_object                   *)
(* (tools/objects.py), and wrap_preview (core/sql_guard.py), which both    *)
(* hand the guarded SELECT.  A result is known by its number of rows.      *)
(***************************************************************************)
EXTENDS Integers

CONSTANTS
    RowCap,     \* settings.preview_row_cap
    TotalRows,    \* bound: rows the query has without its own limit
    MinLimit,   \* bound: a caller's limit is no less than -MinLimit
    MaxLimit    \* bound: largest number in a limit, the caller's or the query's

ASSUME PreviewAssumption ==
    RowCap \in Nat \ {0} /\ TotalRows \in Nat /\ MinLimit \in Nat /\ MaxLimit \in Nat

VARIABLES
  ask,     \* the call and the rows there are
  sent,    \* the LIMIT of the statement sent to Trino, {} before that
  reply    \* the PreviewResult, or that the call failed

previewVars == <<ask, sent, reply>>

\* The query's own clause.  FETCH FIRST n ROWS ONLY
\* parses to a node without the expression that wrap_preview reads.
Clause == {"none", "limit", "fetch"}

\* limit: what the caller passes, {} for None.
Ask == {a \in [limit : {{}} \cup {{n} : n \in -MinLimit .. MaxLimit},
               clause : Clause, n : 0 .. MaxLimit, rows : 0 .. TotalRows] :
           a.clause = "fetch" => a.n > 0}

NoReply == [status |-> "none", rows |-> 0, count |-> 0, truncated |-> FALSE]

PreviewInit == ask \in Ask /\ sent = {} /\ reply = NoReply

Least(x, y) == IF x < y THEN x ELSE y

\* min(limit or preview_row_cap, preview_row_cap)
Cap(limit) == IF limit \subseteq {0} THEN RowCap
              ELSE Least(CHOOSE n \in limit : TRUE, RowCap)

\* Mutant: the extra row that tells truncation is not asked for.
WrapWithoutExtra(clause, n, cap) ==
    IF clause = "limit" /\ n <= cap THEN n ELSE cap

\* The LIMIT that wrap_preview leaves in the statement.
Wrap(clause, n, cap) ==
    CASE clause = "none"             -> cap + 1
      [] clause = "limit" /\ n <= cap -> n
      [] OTHER                       -> cap

SendQuery ==
    /\ sent = {}
    /\ sent' = {Wrap(ask.clause, ask.n, Cap(ask.limit))}
    /\ UNCHANGED <<ask, reply>>

\* Trino refuses a negative LIMIT.
QueryRefused ==
    /\ reply = NoReply
    /\ \E limit \in sent : limit < 0
    /\ reply' = [NoReply EXCEPT !.status = "error"]
    /\ UNCHANGED <<ask, sent>>

\* rows[:cap] drops the last -cap rows when cap is negative, but then there
\* are none to drop.
Answer ==
    /\ reply = NoReply
    /\ \E limit \in sent :
           LET cap == Cap(ask.limit)
               got == Least(ask.rows, limit)
           IN  /\ limit >= 0
               /\ reply' = [status |-> "ok",
                            rows |-> IF cap < 0 THEN 0 ELSE Least(got, cap),
                            count |-> Least(got, cap),
                            truncated |-> got > cap]
    /\ UNCHANGED <<ask, sent>>

PreviewNext == SendQuery \/ QueryRefused \/ Answer

PreviewSpec == PreviewInit /\ [][PreviewNext]_previewVars
-----------------------------------------------------------------------------
\* The rows the query itself has.
OwnRows == IF ask.clause \in {"limit", "fetch"} THEN Least(ask.rows, ask.n) ELSE ask.rows

Answered == reply.status = "ok"

\* A preview never has more rows than preview_row_cap, or than a positive limit
\* of the caller's.  And asked for its first rows in the plain way (no clause of
\* its own or a LIMIT within the cap, a limit that is positive or absent), a
\* query answers with all the rows it may and tells exactly if there were more.
PreviewIsExact ==
    LET cap == Cap(ask.limit)
        plain == /\ ask.limit \cap (-MinLimit .. 0) = {}
                 /\ ask.clause = "none" \/ (ask.clause = "limit" /\ ask.n <= cap)
    IN  Answered => /\ reply.rows <= RowCap
                    /\ \A n \in ask.limit : n > 0 => reply.rows <= n
                    /\ plain => /\ reply.rows = Least(OwnRows, cap)
                                /\ reply.count = reply.rows
                                /\ reply.truncated = (OwnRows > cap)

\* "`truncated` is true if more rows exist beyond the cap."
TruncationIsTold ==
    Answered /\ ask.limit = {} /\ OwnRows > RowCap => reply.truncated
=============================================================================
