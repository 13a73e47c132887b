------------------------------ MODULE MCSession ------------------------------
(* Model checking of Session on small instances: see the MCSession*.cfg.   *)
EXTENDS Session
=============================================================================
