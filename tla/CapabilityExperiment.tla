------------------------- MODULE CapabilityExperiment -------------------------
(***************************************************************************)
(* eval/rsi_cycle.py with research_scoring.py and research_world.py: one   *)
(* experiment takes its targets from the ledger, runs the active policy    *)
(* and then one generated candidate on every selected world, scores the    *)
(* runs against facts the runs never saw, and decides on the promotion.    *)
(*                                                                         *)
(* Sessions and the reviewer of worlds go on while the inputs are read, in *)
(* three steps. Arena has one run in detail; here it is what it leaves to  *)
(* be scored. PolicyCycle has the promotion and the files of the cycle.    *)
(***************************************************************************)
EXTENDS CapabilityMining

CONSTANTS
  Facts,        \* annotated sentences, each of a source of its own, in every world
  Disputed,     \* worlds whose facts contradict a claim that is made in public
  Withholding,  \* worlds in which nothing may be concluded
  MaxFindings   \* findings submitted in one run

ExperimentAssumption == IsFiniteSet(Facts) /\ MaxFindings \in Nat
ASSUME ExperimentAssumption

VARIABLES
  phase,        \* where the cycle is
  approved,     \* the worlds it has loaded
  known,        \* the cases it has loaded
  chosen,       \* its targets, with the row and the case that called for them
  runs,         \* ArenaRuns: of the baseline, then of the candidate
  decision      \* promotion_decision.json

cycleVars == <<phase, approved, known, chosen, runs, decision>>
experimentVars == <<miningVars, cycleVars>>

NoDecision == [status |-> "none", promote |-> FALSE]

ExperimentInit ==
  /\ MiningInit
  /\ phase = "worlds" /\ approved = world /\ known = cases /\ chosen = <<>>
  /\ runs = <<>> /\ decision = NoDecision

-----------------------------------------------------------------------------
(* A run, as it is recorded.                                               *)

\* A finding quotes a sentence of a source, may read it the wrong way round, or says
\* something of its own.
Findings == [of : Facts, exact : BOOLEAN, reversed : BOOLEAN] \ [of : Facts, exact : {FALSE}, reversed : {TRUE}]

\* ground_report withholds a finding whose source has not been read.
Kept(run) == {x \in run.submitted : x.of \in run.research}

\* Which runs a world may see: which sources research and verifier read, what is
\* submitted, what the verifier, who may err, lets pass of it, what the report
\* surfaces or leaves open.
CompleteRuns(w) ==
  {r \in [world : {w}, complete : {TRUE}, drifts : {FALSE}, research : SUBSET Facts, verifier : SUBSET Facts,
          submitted : UNION {kSubset(k, Findings) : k \in 0 .. MaxFindings}, verified : SUBSET Findings,
          surfaces : IF w \in Disputed THEN BOOLEAN ELSE {FALSE},
          withholds : IF w \in Withholding THEN BOOLEAN ELSE {FALSE}] :
     \A x \in r.verified : x \in Kept(r) /\ x.of \in r.verifier}

\* A run that has failed, and one that another model has answered.
OtherRuns(w) ==
  [world : {w}, complete : BOOLEAN, drifts : BOOLEAN, research : {{}}, verifier : {{}}, submitted : {{}},
   verified : {{}}, surfaces : {FALSE}, withholds : {FALSE}]

RunsOf == [w \in Worlds |-> CompleteRuns(w) \cup OtherRuns(w)]

-----------------------------------------------------------------------------
(* score_run.                                                              *)

\* A claim counts if it is a sentence of a source that was read by both and if the
\* verifier has let it pass.
Supported(run, x) == x.exact /\ x.of \in run.research \cap run.verifier /\ x \in run.verified

\* Mutation: only the claims of the delivered report are counted.
UnsupportedKept(run) == Cardinality({x \in Kept(run) : ~ Supported(run, x)})

\* Attempted claims count even if grounding has removed them.
Unsupported(run) == Cardinality({x \in run.submitted : ~ Supported(run, x)})

Recalled(run) == {x.of : x \in {y \in run.submitted : Supported(run, y)}}
Interpreted(run) == {x.of : x \in {y \in run.submitted : Supported(run, y) /\ ~ y.reversed}}
Errors(run) == Cardinality({x \in run.submitted : x.exact /\ x.reversed})

Bit(b) == IF b THEN 1 ELSE 0

\* Sources are of one quality here, so that quality goes with recall.
Score(run) ==
  [recall |-> Cardinality(Recalled(run)), unsupported |-> Unsupported(run), errors |-> Errors(run),
   coverage |-> Cardinality(run.research),
   contradiction |-> Bit(run.world \in Disputed => Facts \subseteq Interpreted(run) /\ run.surfaces),
   withholding |-> Bit(run.world \in Withholding => run.withholds /\ Unsupported(run) = 0 /\ Errors(run) = 0)]

Best == [recall |-> Cardinality(Facts), unsupported |-> 0, errors |-> 0, coverage |-> Cardinality(Facts),
         contradiction |-> 1, withholding |-> 1]

-----------------------------------------------------------------------------
(* compare_arena_runs.                                                     *)

CapabilityDimensions == {"recall", "contradiction", "withholding"}
GuardDimensions == CapabilityDimensions \cup {"coverage"}

NoWorse(old, new, dimensions) == \A d \in dimensions : new[d] >= old[d]
NoMoreErrors(old, new) == new.unsupported <= old.unsupported /\ new.errors <= old.errors

Improves(old, new) ==
  /\ \E d \in CapabilityDimensions : new[d] > old[d]
  /\ NoWorse(old, new, GuardDimensions) /\ NoMoreErrors(old, new)

\* A reason in any world is a veto...
Vetoed(base, cand) ==
  \/ ~ base.complete \/ ~ cand.complete \/ base.drifts \/ cand.drifts
  \/ ~ NoMoreErrors(Score(base), Score(cand))
  \/ ~ NoWorse(Score(base), Score(cand), {"contradiction", "withholding"})
  \/ base.world \in Guards /\ ~ NoWorse(Score(base), Score(cand), GuardDimensions)

\* ... and one target has to improve.
Promotes(base, cand, targets) ==
  /\ \A w \in DOMAIN base : ~ Vetoed(base[w], cand[w])
  /\ \E w \in targets : Improves(Score(base[w]), Score(cand[w]))

-----------------------------------------------------------------------------
(* run_rsi_cycle.                                                          *)

Targets == {chosen[i].world : i \in DOMAIN chosen}
\* The guards come first; in which order worlds are run is of no consequence.
Selected == SetToSeq(Guards) \o SetToSeq(Targets \ Guards)

\* The baseline has run on the selected worlds in their order, then the candidate.
Base == [w \in ToSet(Selected) |-> runs[CHOOSE i \in 1 .. Len(Selected) : Selected[i] = w]]
Cand == [w \in ToSet(Selected) |-> runs[Len(Selected) + CHOOSE i \in 1 .. Len(Selected) : Selected[i] = w]]

Finish(status) ==
  /\ phase' = "done" /\ decision' = [status |-> status, promote |-> status = "promoted"]

LoadWorlds ==
  /\ phase = "worlds" /\ phase' = "cases" /\ approved' = world
  /\ UNCHANGED <<miningVars, known, chosen, runs, decision>>

LoadCases ==
  /\ phase = "cases" /\ phase' = "rows" /\ known' = cases
  /\ UNCHANGED <<miningVars, approved, chosen, runs, decision>>

\* The guards of the engine: there are some, and every one has passed.
EnginePassed(guards) == guards # {} /\ FALSE \notin guards

\* Without a target, or if the guards of the engine fail, no model is called at all.
LoadRows(index, guards) ==
  /\ phase = "rows"
  /\ chosen' = Select(ledger, known, index, approved)
  /\ IF chosen' = <<>> THEN Finish("no_change")
     ELSE IF ~ EnginePassed(guards) THEN Finish("rejected")
     ELSE phase' = "baseline" /\ UNCHANGED decision
  /\ UNCHANGED <<miningVars, approved, known, runs>>

RunWorld(run) ==
  /\ phase \in {"baseline", "candidate"}
  /\ Len(runs) < (IF phase = "baseline" THEN 1 ELSE 2) * Len(Selected)
  /\ runs' = Append(runs, run)
  /\ UNCHANGED <<miningVars, phase, approved, known, chosen, decision>>

NextWorld == Selected[(Len(runs) % Len(Selected)) + 1]

Failing(w) == ~ Base[w].complete \/ Score(Base[w]) # Best

\* What a patch may say: whether it is a valid one, and the worlds it has words of.
Patches == [valid : BOOLEAN, quotes : SUBSET Worlds]

\* Sources, facts and dates of any world that is approved, selected or not.
ContainsWorldAnswers(patch) == patch.quotes \cap DOMAIN approved # {}

\* The one candidate is generated from what the baseline has failed at. An invalid patch
\* ends the cycle, and one that holds answers is refused.
Generate(patch) ==
  /\ phase = "baseline" /\ Len(runs) = Len(Selected)
  /\ IF \E i \in DOMAIN runs : ~ runs[i].complete THEN Finish("rejected")
     ELSE IF \A w \in Targets : ~ Failing(w) THEN Finish("no_change")
     ELSE IF ~ patch.valid THEN Finish("error")
     ELSE IF ContainsWorldAnswers(patch) THEN Finish("rejected")
     ELSE phase' = "candidate" /\ UNCHANGED decision
  /\ UNCHANGED <<miningVars, approved, known, chosen, runs>>

Decide ==
  /\ phase = "candidate" /\ Len(runs) = 2 * Len(Selected)
  /\ Finish(IF Promotes(Base, Cand, Targets) THEN "promoted" ELSE "rejected")
  /\ UNCHANGED <<miningVars, approved, known, chosen, runs>>

\* What goes on outside is of no consequence once the inputs have been read.
Outside ==
  /\ phase \in {"worlds", "cases", "rows"}
  /\ \/ \E s \in Sessions, e \in Evidence \cup {NoEvidence}, says \in Says : Verify(s, e, says)
     \/ \E s \in Sessions : Record(s)
     \/ \E s \in Sessions, around \in Around : Mine(s, around)
     \/ \E i \in DOMAIN ledger, status \in {"OPEN", "CLOSED"} : Settle(i, status)
     \/ \E w \in Worlds, covers \in Covers : Revise(w, covers)
  /\ UNCHANGED cycleVars

ExperimentNext ==
  \/ Outside
  \/ LoadWorlds
  \/ LoadCases
  \/ \E index \in Indexes(known), guards \in SUBSET BOOLEAN : LoadRows(index, guards)
  \/ phase \in {"baseline", "candidate"} /\ \E run \in RunsOf[NextWorld] : RunWorld(run)
  \/ \E patch \in Patches : Generate(patch)
  \/ Decide

ExperimentSpec == ExperimentInit /\ [][ExperimentNext]_experimentVars

-----------------------------------------------------------------------------
(* Correctness.                                                            *)

\* select_worlds_for_open_gaps: every target stands for an OPEN gap of its own, and at
\* the content it is tested with it covers the very capability this gap was classified
\* by, however often worlds, cases, verifications and rows have changed meanwhile.
TargetsAreWarranted ==
  /\ Cardinality(Targets) = Len(chosen)
  /\ \A i \in DOMAIN chosen :
       LET row == chosen[i].row
           occurrence == chosen[i].trigger IN
         /\ row.status = "OPEN" /\ \A j \in 1 .. i - 1 : chosen[j].row # row
         /\ \E capability \in ToSet(Taxonomy) :
              /\ capability \in approved[chosen[i].world].covers
              /\ IF occurrence \in DOMAIN known
                 THEN occurrence[1] = row.session /\ known[occurrence].capability = capability
                 ELSE capability = Classify(row.says, {})

\* What a run has shown, said without its score.
Proven(run) ==
  {f \in Facts : \E x \in run.submitted :
     x.of = f /\ x.exact /\ x \in run.verified /\ f \in run.research /\ f \in run.verifier}
Claimed(run) == Cardinality(run.submitted) - Cardinality({x \in run.submitted : x.exact /\ x \in run.verified})

\* What a candidate owes to the policy before it, in every world and on the guards, and
\* what earns its promotion.
Modest(base, cand) == Claimed(cand) <= Claimed(base)
Guarded(base, cand) == Cardinality(Proven(cand)) >= Cardinality(Proven(base))
Earned(base, cand) ==
  \/ Cardinality(Proven(cand)) > Cardinality(Proven(base))
  \/ cand.world \in Disputed /\ cand.surfaces
  \/ cand.world \in Withholding /\ cand.withholds /\ Claimed(cand) = 0

\* compare_arena_runs: a candidate that is promoted has, in every world that was
\* selected, submitted no more claims it could not prove than the policy before it; on
\* every guard it has proven as much; on some target it has proven more, surfaced a
\* contradiction or withheld a conclusion where it had to.
PromotionsAreEarned ==
  decision.promote =>
    /\ \A w \in ToSet(Selected) : Modest(Base[w], Cand[w])
    /\ \A g \in Guards : Guarded(Base[g], Cand[g])
    /\ \E t \in Targets : Earned(Base[t], Cand[t])
=============================================================================
