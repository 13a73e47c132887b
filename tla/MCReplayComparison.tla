-------------------------- MODULE MCReplayComparison --------------------------
(* Model checking of ReplayComparison on small instances.                  *)
EXTENDS ReplayComparison, TLC

Answer(call, shows, traced, whole, by) ==
  [call |-> call, shows |-> shows, traced |-> traced, whole |-> whole, by |-> by]

\* A query that shows the claim or nothing, one that is cut off, and a shell command.
MCObserved ==
  {Answer("query", {"claim"}, TRUE, TRUE, "task"), Answer("query", {}, TRUE, TRUE, "task"),
   Answer("query", {}, TRUE, FALSE, "task"), Answer("shell", {}, FALSE, TRUE, "task")}

\* A verifier reads nothing, or a page, which cannot be replayed.
MCReadings == {<<>>, <<Answer("page", {}, TRUE, TRUE, "verifier")>>}

\* Once the comparison has loaded its inputs nothing depends on the session any more,
\* and of the contents only on what they hold and on their being the same.
MCView ==
  IF pc \in {"idle", "cases", "refused"} THEN <<comparisonVars>>
  ELSE <<pc, held.replayable, held.traces, expectation.content.traces, held = expectation.content,
         expectation.withhold, attempts, runs, report>>
=============================================================================
