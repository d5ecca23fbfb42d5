---------------------------- MODULE MCAiPipeline ------------------------------
(***************************************************************************)
(* Instances of AiPipeline: which faults happen, and whether a             *)
(* reconciliation may overlap itself, differs per configuration.           *)
(***************************************************************************)
EXTENDS AiPipeline, TLC

CONSTANTS poll, reconcile, again

OnePoll == {poll}
OneReconcile == {reconcile}
TwoReconciles == {reconcile, again}

\* Reconciliations are alike.
ReconcileSymmetry == Permutations(TwoReconciles)
===============================================================================
