---------------------------- MODULE MCRegistryTx ----------------------------
(***************************************************************************)
(* Values for TLC: the sessions in one process, and in two.                *)
(***************************************************************************)
EXTENDS RegistryTx
CONSTANTS s1, s2, s3

OneProcess == [s \in Session |-> s1]
TwoProcesses == [OneProcess EXCEPT ![s3] = s3]
OneAndTwo == {OneProcess, TwoProcesses}
=============================================================================
