----------------------------- MODULE Namespace -----------------------------
(***************************************************************************)
(* The vocabulary every store of memcove shares: one tenant namespace and  *)
(* the labels of its datasets.  Every table, row, edge, tombstone and      *)
(* sweep step of the program is keyed by tenant, so the modules look at    *)
(* one tenant.                                                             *)
(***************************************************************************)
EXTENDS Integers, FiniteSets

CONSTANT Label   \* dataset names of the tenant

ASSUME LabelFinite == IsFiniteSet(Label)
=============================================================================
