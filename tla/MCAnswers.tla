----------------------------- MODULE MCAnswers -----------------------------
(***************************************************************************)
(* Values for TLC: which calls the clients of the run make, and symmetry.  *)
(***************************************************************************)
EXTENDS Answers, TLC

CONSTANTS a, s1, s2

Symmetry == Permutations(Server)

WriteAndLook == {<<"ingest", "create">>, <<"ingest", "replace">>, <<"derive", "replace">>,
                 <<"describe", "none">>, <<"forget", "none">>}
=============================================================================
