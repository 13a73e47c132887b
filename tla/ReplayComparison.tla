--------------------------- MODULE ReplayComparison ---------------------------
(***************************************************************************)
(* eval/live_compare.py and eval/replay_runner.py: a candidate policy is   *)
(* compared with the baseline on a reviewed target and a reviewed guard.   *)
(* Every case is replayed under both policies, with a model that is free   *)
(* to call what it likes and tools that only answer from the case.         *)
(*                                                                         *)
(* The target is imported from a session that goes on meanwhile and is     *)
(* read by a reviewer at some time; the guard is from a session long over. *)
(* A replay is a step of its own: nothing else happens in its process.     *)
(***************************************************************************)
EXTENDS SessionCases

CONSTANTS
  Models,       \* the models that may answer; a response may not name its model
  MaxTurns,     \* requests of one replay
  MaxAttempts,  \* requests of the whole comparison
  Repeats

ComparisonAssumption ==
  /\ MaxAttempts \in Nat \ {0} /\ Repeats \in Nat \ {0} /\ MaxTurns \in Nat \ {0}
ASSUME ComparisonAssumption

Unknown == "unknown"

VARIABLES
  expectation,  \* what the reviewer has read and expects of the target
  pc, held,     \* the comparison: where it is, the content it holds of each case
  attempts,     \* requests claimed so far
  runs,         \* the replays that have ended, in their order
  report        \* comparison.json

compareVars == <<expectation, pc, held, attempts, runs, report>>
comparisonVars == <<sessionVars, cases, compareVars>>

\* A guard that expects a finding, from one call that shows it.
Guard ==
  [gap |-> NoGap, replayable |-> TRUE, hashes |-> <<>>,
   traces |-> SetToSeq({[call |-> c, shows |-> Claims, traced |-> TRUE, whole |-> TRUE, by |-> "task"] : c \in Calls})]
GuardExpectation == [content |-> Guard, kind |-> "guard", withhold |-> FALSE]
NoExpectation == [content |-> Guard, kind |-> "none", withhold |-> FALSE]

Nowhere == [outcome |-> "none", improved |-> FALSE, noRegression |-> FALSE]

CompareInit ==
  /\ CasesInit
  /\ expectation = NoExpectation /\ pc = "idle" /\ held = Guard
  /\ attempts = 0 /\ runs = <<>> /\ report = Nowhere

-----------------------------------------------------------------------------
(* The reviewer, and the inputs of the comparison.                         *)

\* Somebody reads a stored case and expects of it a finding, or that none is made.
Review(g, withhold) ==
  /\ g \in DOMAIN cases /\ pc \in {"idle", "cases"}
  /\ expectation' = [content |-> cases[g], kind |-> "target", withhold |-> withhold]
  /\ UNCHANGED <<sessionVars, cases, pc, held, attempts, runs, report>>

\* The case files are read first...
LoadCases(g) ==
  /\ pc = "idle" /\ g \in DOMAIN cases
  /\ held' = cases[g] /\ pc' = "cases"
  /\ UNCHANGED <<sessionVars, cases, expectation, attempts, runs, report>>

\* bind_cases: an expectation is bound to the content of its case.
Bound == expectation.kind # "none" /\ expectation.content = held

\* ... and then the expectations, which must be about these cases.
LoadExpectations ==
  /\ pc = "cases"
  /\ pc' = IF Bound THEN "replay" ELSE "refused"
  /\ UNCHANGED <<sessionVars, cases, expectation, held, attempts, runs, report>>

-----------------------------------------------------------------------------
(* run_replay_case.                                                        *)

\* What a model may do with a replay: how many requests it takes, which models
\* answer, what is called, how it ends and what it finds.
Behaviours ==
  {b \in [requests : 1 .. MaxTurns, models : SUBSET (Models \cup {Unknown}) \ {{}},
          calls : SUBSET (Calls \cup {"foreign"}), end : {"answer", "cut", "malformed", "raises"},
          findings : SUBSET Claims] :
     /\ Cardinality(b.models) <= b.requests /\ (b.calls # {} => b.requests > 1)
     /\ b.end # "answer" => b.findings = {}}

\* The registry answers a call with the one observation recorded for it.
Matched(content, b) == {c \in b.calls : \E t \in ToSet(content.traces) : t.call = c}
Conflicting(content) ==
  \E t, u \in ToSet(content.traces) : t.call = u.call /\ t.shows # u.shows

Unplayable(content) == ~ content.replayable \/ Conflicting(content)
Exhausted(b) == attempts + b.requests > MaxAttempts

\* What a replay that has not succeeded did is of no further use.
Unfinished(outcome) == [outcome |-> outcome, models |-> {}, consumed |-> {}, findings |-> {}, passed |-> FALSE]
Finished(content, b) ==
  [outcome |-> "success", models |-> b.models, consumed |-> Matched(content, b),
   findings |-> b.findings, passed |-> FALSE]

\* A replay succeeds if the answer is whole and every call was matched. It fails if the
\* case cannot be replayed, a request fails or the budget of the comparison is used up.
Replay(content, b) ==
  IF Unplayable(content) \/ Exhausted(b) \/ b.end = "raises" THEN Unfinished("failed")
  ELSE IF b.calls # Matched(content, b) THEN Unfinished("unscorable")
  ELSE IF b.end = "answer" THEN Finished(content, b) ELSE Unfinished("failed")

\* Requests are claimed before they are made; a case that cannot be replayed makes none.
Claimed(content, b) ==
  IF Unplayable(content) THEN 0
  ELSE IF Exhausted(b) THEN MaxAttempts - attempts ELSE b.requests

-----------------------------------------------------------------------------
(* assess_replay_run.                                                      *)

\* What the observations consumed by a run have shown.
Shown(content, run) == UNION {t.shows : t \in {u \in ToSet(content.traces) : u.call \in run.consumed}}

\* Every call of the case is required, and every finding has to rest on an observation
\* this very run has consumed. A case nobody may find anything in expects none.
Passed(run, expected) ==
  /\ run.outcome = "success"
  /\ \A t \in ToSet(expected.content.traces) : t.call \in run.consumed
  /\ IF expected.withhold THEN run.findings = {} ELSE run.findings # {}
  /\ run.findings \subseteq Shown(expected.content, run)

-----------------------------------------------------------------------------
(* run_live_compare.                                                       *)

\* The order of the replays: case, repeat, variant.
Plan == [i \in 1 .. 4 * Repeats |->
           [case |-> IF i <= 2 * Repeats THEN "target" ELSE "guard",
            repeat |-> ((i - 1) % (2 * Repeats)) \div 2 + 1,
            variant |-> IF i % 2 = 1 THEN "baseline" ELSE "candidate"]]

ContentOf(case) == IF case = "target" THEN held ELSE Guard
ExpectationOf(case) == IF case = "target" THEN expectation ELSE GuardExpectation

\* One replay after the other; everything the comparison works on is in memory by now.
RunNext(b) ==
  /\ pc = "replay" /\ Len(runs) < Len(Plan)
  /\ LET case == Plan[Len(runs) + 1].case
         run == Replay(ContentOf(case), b) IN
       /\ runs' = Append(runs, [run EXCEPT !.passed = Passed(run, ExpectationOf(case))])
       /\ attempts' = attempts + Claimed(ContentOf(case), b)
  /\ UNCHANGED <<sessionVars, cases, expectation, pc, held, report>>

Of(case, variant) == {i \in DOMAIN runs : Plan[i].case = case /\ Plan[i].variant = variant}
Passes(case, variant) == Cardinality({i \in Of(case, variant) : runs[i].passed})

\* Mutation: the models of all runs are compared at once, and what has not ended well
\* has none.
FairOverall ==
  \E m \in Models \cup {Unknown} : UNION {runs[i].models : i \in DOMAIN runs} = {m}

\* Both sides of a pair were answered by one and the same model, which has a name.
Fair ==
  /\ \A i \in DOMAIN runs : runs[i].outcome = "success"
  /\ \A i \in DOMAIN runs : i % 2 = 1 =>
       \E m \in Models : runs[i].models = {m} /\ runs[i + 1].models = {m}

\* A comparison counts only as a whole: if one replay fails or one pair is unfair there
\* is neither an improvement nor the absence of a regression.
Reports ==
  /\ pc = "replay" /\ Len(runs) = Len(Plan)
  /\ pc' = "done"
  /\ report' = [outcome |-> IF Fair THEN "completed" ELSE "failed",
                improved |-> Fair /\ Passes("target", "candidate") > Passes("target", "baseline"),
                noRegression |-> Fair /\ Passes("guard", "candidate") >= Passes("guard", "baseline")]
  /\ UNCHANGED <<sessionVars, cases, expectation, held, attempts, runs>>

-----------------------------------------------------------------------------
(* Before the replays the session, imports and the reviewer go on.         *)

Session ==
  /\ pc \in {"idle", "cases"}
  /\ \/ \E run \in Runs : Completes(run)
     \/ \E run \in Runs, saved \in BOOLEAN : Fails(run, saved)
     \/ \E read \in Readings : Verifies(read)
     \/ \E read \in Readings, torn \in {{}, {"board"}, {"traces"}} : Interrupted(read, torn)
     \/ Import
  /\ UNCHANGED compareVars

CompareNext ==
  \/ Session
  \/ \E g \in DOMAIN cases : LoadCases(g) \/ \E withhold \in BOOLEAN : Review(g, withhold)
  \/ LoadExpectations
  \/ \E b \in Behaviours : RunNext(b)
  \/ Reports

CompareSpec == CompareInit /\ [][CompareNext]_comparisonVars

-----------------------------------------------------------------------------
(* Correctness.                                                            *)

\* An improvement is earned: on the very content its reviewer has read, with every
\* replay whole, each pair answered by one model, all of it within the budget, there is
\* a pair in which the candidate did what was expected and the baseline did not; and
\* whoever found something had been shown it by the case.
ImprovementsAreEarned ==
  report.improved =>
    /\ held = expectation.content /\ held.replayable /\ attempts <= MaxAttempts
    /\ \A i \in 1 .. 4 * Repeats :
         /\ runs[i].outcome = "success"
         /\ runs[i].passed => \A c \in runs[i].findings :
              \E t \in ToSet(ContentOf(Plan[i].case).traces) : c \in t.shows /\ t.call \in runs[i].consumed
    /\ \E k \in 1 .. Repeats :
         LET i == 2 * k - 1 IN
           runs[i + 1].passed /\ ~ runs[i].passed /\ \E m \in Models : runs[i].models \cup runs[i + 1].models = {m}
=============================================================================
