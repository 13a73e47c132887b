------------------------------ MODULE MCArena ------------------------------
(* Model checking of Arena on small instances.                             *)
EXTENDS Arena, TLC
=============================================================================
