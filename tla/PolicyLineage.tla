---------------------------- MODULE PolicyLineage ----------------------------
(***************************************************************************)
(* What a reader of the policy store may rely on, whatever cycles do, are  *)
(* killed in or fail to write: the active policy only grows, by a patch at *)
(* a time, and a session pins, once and for all, a policy that is active   *)
(* or has been, so that what it ran on is an ancestor of what is active.   *)
(***************************************************************************)
EXTENDS Naturals, Sequences

CONSTANTS Sessions, Patches, Nothing

VARIABLES
  line,   \* the patches that lead from the baseline to the active policy
  pins    \* the policy of each session

lineageVars == <<line, pins>>

Init == line = <<>> /\ pins = [s \in Sessions |-> Nothing]

Promote(patch) ==
  /\ line' = Append(line, patch)
  /\ UNCHANGED pins

Pin(s, n) ==
  /\ pins[s] = Nothing
  /\ pins' = [pins EXCEPT ![s] = SubSeq(line, 1, n)]
  /\ UNCHANGED line

Next ==
  \/ \E patch \in Patches : Promote(patch)
  \/ \E s \in Sessions, n \in 0 .. Len(line) : Pin(s, n)

Spec == Init /\ [][Next]_lineageVars
=============================================================================
