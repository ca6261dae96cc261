----------------------------- MODULE MCExecution -----------------------------
(* A small instance of Execution: two policies that may be registered       *)
(* before or during the execution, and two transforms.                       *)
EXTENDS Execution

CONSTANTS p1, p2

MCPolicies == {p1, p2}
=============================================================================
