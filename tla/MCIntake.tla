------------------------------- MODULE MCIntake -------------------------------
(***************************************************************************)
(* Model checking of Intake: either a document, or a batch of two events   *)
(* that is delivered twice, perhaps at the same time.                      *)
(***************************************************************************)
EXTENDS Intake

CONSTANTS e1, e2, d1

MCScenarios == {{d1}, {e1, e2}}

===============================================================================
