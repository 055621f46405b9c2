------------------------------ MODULE MCDrift ------------------------------
(***************************************************************************)
(* Values for TLC: which calls the clients of a run make, and symmetry.    *)
(***************************************************************************)
EXTENDS Drift, TLC

CONSTANTS a, b, s1, s2, f1, f2

Symmetry == Permutations(Label)

Looks == {"describe", "forget"} \X {"none"}
Derives == {"derive"} \X {"create", "replace"}
Churn == {<<"ingest", "create">>, <<"forget", "none">>}
FewCalls == Churn \cup {<<"ingest", "replace">>, <<"derive", "create">>, <<"describe", "none">>}
PutCalls == Churn \cup {<<"put", "replace">>, <<"put", "append">>, <<"derive", "create">>}
ToolCalls == Derives \cup Looks \cup {<<"ingest", "create">>, <<"ingest", "replace">>}
AllCalls == ToolCalls \cup {<<"ingest", "append">>} \cup ({"put"} \X Mode)
=============================================================================
