--------------------------- MODULE MCPolicyCycle ---------------------------
(* Model checking of PolicyCycle on small instances.                       *)
EXTENDS PolicyCycle, TLC
=============================================================================
