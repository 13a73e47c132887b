------------------------ MODULE MCCapabilityExperiment ------------------------
(* Model checking of CapabilityExperiment on small instances.              *)
EXTENDS CapabilityExperiment, TLC

MCSays == {{}, {"as_of"}}
MCAround == {{}, {"crowding"}}
MCCovered == [w \in Worlds |-> IF w \in Guards THEN {"crowding"} ELSE {"as_of"}]
MCCovers == {{"as_of"}, {"crowding"}}

\* What has been read is not read again. From the selection on only its result matters;
\* of a run what its score and the properties see, and of a pair of runs how they compare.
Summary(run) == <<Score(run), run.complete, run.drifts, Proven(run), Claimed(run)>>
Compared(base, cand) ==
  <<Vetoed(base, cand), Improves(Score(base), Score(cand)), Modest(base, cand), Guarded(base, cand), Earned(base, cand)>>
Seen ==
  LET n == Len(Selected) IN
    [i \in DOMAIN runs |->
       IF i > n THEN Compared(runs[i - n], runs[i])
       ELSE IF i + n <= Len(runs) THEN <<>> ELSE Summary(runs[i])]

MCView ==
  IF phase = "worlds" THEN <<miningVars>>
  ELSE IF phase = "cases" THEN <<phase, approved, miningVars>>
  ELSE IF phase = "rows" THEN <<phase, approved, known, verification, gaps, ledger>>
  ELSE <<phase, Targets, TargetsAreWarranted, decision, Seen>>
=============================================================================
