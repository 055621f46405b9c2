------------------------------- MODULE Calls -------------------------------
(***************************************************************************)
(* The calls that write data, numbered in the order they begin.  The       *)
(* program has no such numbers: they let the stores of the model say which *)
(* call a table version, a row or a tag comes from.                        *)
(***************************************************************************)
EXTENDS Namespace

CONSTANT MaxCalls   \* bound: calls that write data

ASSUME MaxCallsAssumption == MaxCalls \in Nat

Call == 1 .. MaxCalls

\* models.SourceKind: how a registry row came to be.  s3_parquet and upload
\* take the same path as inline and are not told apart.
SourceKind == {"inline", "derived", "stream", "reconciled"}
=============================================================================
