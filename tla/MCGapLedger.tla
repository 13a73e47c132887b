----------------------------- MODULE MCGapLedger -----------------------------
(* Model checking of GapLedger on small instances.                         *)
EXTENDS GapLedger, TLC

CONSTANTS s1, s2, k1, k2

\* Two keys of two profiles.
TwoProfiles == k1 :> "crowding" @@ k2 :> "engine_freshness"

\* A verification finds nothing or everything.
NoneOrAll == {{}, Keys}

\* Nothing orders the sessions.
Symmetry == Permutations(Sessions)
=============================================================================
