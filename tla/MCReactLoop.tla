---------------------------- MODULE MCReactLoop ----------------------------
(* Model checking of ReactLoop on small instances.                         *)
EXTENDS ReactLoop, TLC
=============================================================================
