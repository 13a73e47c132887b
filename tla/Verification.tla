---------------------------- MODULE Verification ----------------------------
(***************************************************************************)
(* The independent verification of a session's reports: the static audit    *)
(* and the merge of agents/audit.py, the source guard and the run of        *)
(* agents/verifier.py, the ledger of agents/ledger.py, and what             *)
(* Coordinator.verify files when the verifier raises.  The model may answer *)
(* anything: leave evidence out, judge it twice, judge evidence that does   *)
(* not exist, name sources it never read.  The process may be killed.       *)
(*                                                                         *)
(* A finding is known by its identifier, which also stands for its claim.   *)
(***************************************************************************)
EXTENDS Naturals, FiniteSets

CONSTANTS
  Evidence,      \* identifiers of findings
  Unknown,       \* an identifier no report has
  Findings,      \* what a finding may be: [url, named, future, low, category, stance]
  Urls, NoUrl,
  ResearchTraces,   \* what the sub-agents, and verifiers before, may have recorded
  VerifierTraces,   \* what this verifier may record: [tool, url, role, ok]
  Verdicts,      \* what the model may answer: [id, status, source]
  MaxCrashes     \* bound: kills

ASSUME VerificationAssumption ==
  /\ \A f \in Findings : /\ f.url \in Urls \cup {NoUrl}
                         /\ f.named \in BOOLEAN /\ f.future \in BOOLEAN /\ f.low \in BOOLEAN
  /\ Verdicts \subseteq [id : Evidence \cup {Unknown},
                         status : {"verified", "weak", "unchecked", "rejected"},
                         source : Urls \cup {NoUrl, "web_search"}]
  /\ ResearchTraces \cup VerifierTraces
       \subseteq [tool : {"read_url", "web_search", "market_data", "mock"}, url : Urls \cup {NoUrl},
                  role : {"research", "verifier"}, ok : BOOLEAN]
  /\ MaxCrashes \in Nat

VARIABLES
  findings,   \* the findings of the reports
  empty,      \* some complete report has no finding
  unanswered, \* some report leaves a question open
  disk,       \* traces.jsonl
  memory,     \* the traces of this verifier
  report,     \* the report in memory
  file,       \* verification.json
  answered,   \* ghost: the evidence the model gave a verdict on
  pc, crashes

vars == <<findings, empty, unanswered, disk, memory, report, file, answered, pc, crashes>>
reports == <<findings, empty, unanswered>>

Statuses == {"verified", "weak", "unchecked", "rejected"}
Rank(status) == CASE status = "verified" -> 0 [] status = "weak" -> 1
                  [] status = "unchecked" -> 2 [] status = "rejected" -> 3

Reported == DOMAIN findings

\* crashed: the summary says that the verifier crashed.
NoReport == [verdicts |-> {}, missing |-> {}, unsupported |-> {}, overall |-> "none",
             gaps |-> {}, traces |-> {}, crashed |-> FALSE]

-----------------------------------------------------------------------------
(* The audit without a model.                                              *)

MoreConservative(left, right) == IF Rank(left) >= Rank(right) THEN left ELSE right

\* rollup_status.
Rollup(verdicts, missing) ==
  LET statuses == {v.status : v \in verdicts} IN
  CASE verdicts = {} -> "fail"
    [] "rejected" \in statuses -> "fail"
    [] verdicts # {} /\ "rejected" \notin statuses
       /\ (missing # {} \/ statuses \cap {"weak", "unchecked"} # {}) -> "pass_with_caveats"
    [] OTHER -> "pass"

Sourced(f) == IF f.url = NoUrl THEN (IF f.named THEN "weak" ELSE "unchecked") ELSE "verified"

\* Supporting and contradicting findings of one category, of whatever report.
Disputed(e) ==
  {"supporting", "contradicting"}
    \subseteq {findings[o].stance : o \in {x \in Reported : findings[x].category = findings[e].category}}

Static(e) ==
  LET f == findings[e]
      alone == CASE f.future -> "rejected"
                 [] ~ f.future /\ f.low -> MoreConservative(Sourced(f), "weak")
                 [] OTHER -> Sourced(f) IN
  IF Disputed(e) THEN MoreConservative(alone, "weak") ELSE alone

Unsupported(verdicts) == {v.id : v \in {w \in verdicts : w.status \in {"rejected", "unchecked"}}}

StaticMissing ==
  (IF empty THEN {"empty report"} ELSE {}) \cup (IF Reported = {} THEN {"no evidence"} ELSE {})

StaticReport ==
  LET verdicts == {[id |-> e, status |-> Static(e), source |-> NoUrl] : e \in Reported} IN
  [NoReport EXCEPT !.verdicts = verdicts, !.missing = StaticMissing,
                   !.unsupported = Unsupported(verdicts),
                   !.overall = Rollup(verdicts, StaticMissing)]

-----------------------------------------------------------------------------
(* The answer of the model.                                                *)

\* Mutation: evidence the model is silent about keeps its static verdict.
MergedSilent(answer) ==
  {[v EXCEPT !.status = MoreConservative(Static(v.id), v.status)] : v \in {w \in answer : w.id \in Reported}}
    \cup {[id |-> e, status |-> Static(e), source |-> NoUrl] : e \in Reported \ {v.id : v \in answer}}

Merged(answer) ==
  {[v EXCEPT !.status = MoreConservative(Static(v.id), v.status)] : v \in {w \in answer : w.id \in Reported}}
    \cup {[id |-> e, status |-> MoreConservative(Static(e), "unchecked"), source |-> NoUrl] :
            e \in Reported \ {v.id : v \in answer}}

\* merge_verification.
MergedReport(answer, missing) ==
  LET verdicts == Merged(answer)
      all == StaticMissing \cup missing IN
  [NoReport EXCEPT !.verdicts = verdicts, !.missing = all, !.unsupported = Unsupported(verdicts),
                   !.overall = Rollup(verdicts, all)]

-----------------------------------------------------------------------------
(* The guard of claims from the web.                                       *)

Discovered(traces) ==
  {t.url : t \in {x \in traces : \/ x.tool = "read_url"
                                 \/ x.tool \in {"web_search", "market_data"} /\ x.ok}}

ReadByVerifier(traces) ==
  {t.url : t \in {x \in traces : x.tool \in {"read_url", "market_data"} /\ x.role = "verifier" /\ x.ok}}

FromWeb(v, traces) ==
  {findings[v.id].url, v.source} \cap (Discovered(traces) \cup {"web_search"}) # {}

IndependentlyRead(v, traces) ==
  \/ v.source \in ReadByVerifier(traces)
  \/ /\ findings[v.id].url \in Discovered(traces)
     /\ findings[v.id].url \in ReadByVerifier(traces)

Guard(v, traces) ==
  IF v.status = "verified" /\ FromWeb(v, traces) /\ ~ IndependentlyRead(v, traces)
  THEN [v EXCEPT !.status = "unchecked"] ELSE v

\* Mutation: the verdicts change, the status of the whole does not.
GuardedKeepsOverall(r, traces) ==
  LET verdicts == {Guard(v, traces) : v \in r.verdicts} IN
  IF verdicts = r.verdicts THEN r
  ELSE [r EXCEPT !.verdicts = verdicts,
                 !.unsupported = @ \cup Unsupported(verdicts)]

\* _guard_source_discovery.
Guarded(r, traces) ==
  LET verdicts == {Guard(v, traces) : v \in r.verdicts} IN
  IF verdicts = r.verdicts THEN r
  ELSE [r EXCEPT !.verdicts = verdicts,
                 !.unsupported = @ \cup Unsupported(verdicts),
                 !.overall = Rollup(verdicts, r.missing)]

-----------------------------------------------------------------------------
(* The ledger.                                                             *)

Gaps(r, traces) ==
  {[kind |-> "rejected_evidence", of |-> v.id] : v \in {w \in r.verdicts : w.status = "rejected"}}
    \cup {[kind |-> "unchecked_evidence", of |-> v.id] : v \in {w \in r.verdicts : w.status = "unchecked"}}
    \cup {[kind |-> "missing_evidence", of |-> m] : m \in r.missing}
    \cup (IF unanswered THEN {[kind |-> "unanswered_question", of |-> "question"]} ELSE {})
    \cup {[kind |-> "engine_mock", of |-> t.url] : t \in {x \in traces : x.tool = "mock"}}

Finalized(r, traces) == [r EXCEPT !.gaps = Gaps(r, traces), !.traces = traces]

\* What verify files when the verifier raises: the audit, neither merged nor guarded.
Fallback(traces) ==
  Finalized([StaticReport EXCEPT !.overall = IF @ = "fail" THEN "fail" ELSE "pass_with_caveats",
                                 !.crashed = TRUE], traces)

-----------------------------------------------------------------------------
(* The run of the verifier.                                                *)

Init ==
  /\ findings \in UNION {[E -> Findings] : E \in SUBSET Evidence}
  /\ empty \in BOOLEAN /\ unanswered \in BOOLEAN
  /\ disk \in SUBSET ResearchTraces
  /\ memory = {} /\ report = NoReport /\ file = NoReport /\ answered = {}
  /\ pc = "start" /\ crashes = 0

\* Without a finding no model is asked.
Start ==
  /\ pc = "start"
  /\ IF Reported = {} THEN report' = StaticReport /\ pc' = "append"
                      ELSE UNCHANGED report /\ pc' = "loop"
  /\ UNCHANGED <<reports, disk, memory, file, answered, crashes>>

Tool(t) ==
  /\ pc = "loop"
  /\ t \notin memory /\ memory' = memory \cup {t}
  /\ UNCHANGED <<reports, disk, report, file, answered, pc, crashes>>

Answers(answer, missing) ==
  /\ pc = "loop"
  /\ report' = MergedReport(answer, missing) /\ answered' = {v.id : v \in answer} /\ pc' = "append"
  /\ UNCHANGED <<reports, disk, memory, file, crashes>>

\* The loop fails, or its answer is not a report.
AnswerFails ==
  /\ pc = "loop"
  /\ report' = MergedReport({}, {}) /\ answered' = {} /\ pc' = "append"
  /\ UNCHANGED <<reports, disk, memory, file, crashes>>

\* Any other exception, of the loop or of what follows it. What the verifier has
\* observed is lost, but for the part that was kept while it was appended.
VerifierRaises(kept) ==
  /\ pc \in {"loop", "append", "compile"}
  /\ kept \subseteq memory /\ (pc # "append" => kept = {})
  /\ disk' = disk \cup kept /\ memory' = {} /\ report' = NoReport /\ answered' = {}
  /\ file' = Fallback(disk') /\ pc' = "done"
  /\ UNCHANGED <<reports, crashes>>

\* Only what was observed is kept.
Cancelled ==
  /\ pc = "loop"
  /\ disk' = disk \cup memory /\ memory' = {} /\ pc' = "start"
  /\ UNCHANGED <<reports, report, file, answered, crashes>>

AppendTraces ==
  /\ pc = "append"
  /\ disk' = disk \cup memory /\ pc' = "compile"
  /\ UNCHANGED <<reports, memory, report, file, answered, crashes>>

\* Mutation: the traces of the sub-agents are not consulted.
CompileOwnTraces ==
  /\ pc = "compile"
  /\ file' = Finalized(Guarded(report, memory), disk \cup memory) /\ pc' = "done"
  /\ UNCHANGED <<reports, disk, memory, report, answered, crashes>>

\* Mutation: the gaps are those of the report the guard has not seen.
CompileBefore ==
  /\ pc = "compile"
  /\ file' = Guarded(Finalized(report, disk \cup memory), disk \cup memory) /\ pc' = "done"
  /\ UNCHANGED <<reports, disk, memory, report, answered, crashes>>

Compile ==
  /\ pc = "compile"
  /\ file' = Finalized(Guarded(report, disk \cup memory), disk \cup memory) /\ pc' = "done"
  /\ UNCHANGED <<reports, disk, memory, report, answered, crashes>>

\* The next process verifies again.
Crash ==
  /\ crashes < MaxCrashes /\ crashes' = crashes + 1
  /\ pc \in {"loop", "append", "compile"}
  /\ memory' = {} /\ report' = NoReport /\ answered' = {} /\ pc' = "start"
  /\ UNCHANGED <<reports, disk, file>>

\* Bound: two verdicts in one answer, perhaps of the same evidence.
AnswerSets == {{}} \cup {{v, w} : v, w \in Verdicts}

Next ==
  \/ Start
  \/ \E t \in VerifierTraces : Tool(t)
  \/ \E answer \in AnswerSets : \E missing \in SUBSET {"note"} : Answers(answer, missing)
  \/ \E kept \in SUBSET memory : VerifierRaises(kept)
  \/ AnswerFails \/ Cancelled \/ AppendTraces \/ Compile \/ Crash

Spec == Init /\ [][Next]_vars

-----------------------------------------------------------------------------
(* Correctness of the file.                                                *)

Filed == pc = "done"

\* Type invariant.
TypeOK ==
  /\ Reported \subseteq Evidence /\ \A e \in Reported : findings[e] \in Findings
  /\ empty \in BOOLEAN /\ unanswered \in BOOLEAN
  /\ disk \subseteq ResearchTraces \cup VerifierTraces /\ memory \subseteq VerifierTraces
  /\ \A r \in {report, file} :
       /\ \A v \in r.verdicts : v \in [id : Reported, status : Statuses, source : Urls \cup {NoUrl, "web_search"}]
       /\ r.overall \in {"none", "pass", "pass_with_caveats", "fail"} /\ r.unsupported \subseteq Reported
  /\ answered \subseteq Evidence \cup {Unknown}
  /\ pc \in {"start", "loop", "append", "compile", "done"} /\ crashes \in 0 .. MaxCrashes

\* Whatever the model says, no verdict on file is more favourable than the audit of
\* the evidence it is about.
NoVerdictIsRaised ==
  \A v \in file.verdicts : Rank(v.status) >= Rank(Static(v.id))

\* Where the verifier crashed the raw audit is on file: nobody has confirmed or read
\* anything for it, and so it must not be a pass.
VouchedFor == ~ file.crashed \/ file.overall = "pass"

\* All reported evidence has a verdict; and but in the file of a crashed verifier, which
\* is never a pass, only what the model itself vouched for is verified or weak.
SilenceIsNoApproval ==
  Filed /\ Reported # {} =>
    /\ {v.id : v \in file.verdicts} = Reported
    /\ VouchedFor =>
         \A v \in file.verdicts : v.status \in {"verified", "weak"} => v.id \in answered

\* Evidence anybody found on the web, or a verdict that rests on a search, is verified
\* only if a verifier has read the page it is from, or the page the verdict names:
\* searching, and the sub-agent's own reading, are not enough. A file with the audit of
\* a crashed verifier, which the guard has not seen, does not claim so by a pass.
WebClaimsAreRead ==
  VouchedFor =>
    \A v \in file.verdicts :
      /\ v.status = "verified"
      /\ \/ v.source = "web_search"
         \/ \E t \in disk : t.tool # "mock" /\ t.url = findings[v.id].url /\ t.ok
      =>
        \E t \in disk :
          t.role = "verifier" /\ t.ok /\ t.tool # "web_search" /\ t.url \in {v.source, findings[v.id].url}

\* The status of the whole agrees with the verdicts as they were filed: a pass is a
\* verification that ran, with no other verdict than verified and nothing missing, and
\* a failure one that has a rejected verdict or none at all.
OverallAgrees ==
  Filed =>
    /\ file.overall = "pass" <=>
         /\ ~ file.crashed /\ file.verdicts # {} /\ file.missing = {}
         /\ \A v \in file.verdicts : v.status = "verified"
    /\ file.overall = "fail" <=>
         file.verdicts = {} \/ \E v \in file.verdicts : v.status = "rejected"
    /\ Unsupported(file.verdicts) = file.unsupported

\* The gaps are those of the verdicts as they were filed, no more and no less.
GapsAgree ==
  Filed =>
    /\ {g.of : g \in {h \in file.gaps : h.kind \in {"rejected_evidence", "unchecked_evidence"}}}
         = {v.id : v \in {w \in file.verdicts : w.status \notin {"verified", "weak"}}}
    /\ (file.overall = "pass" /\ file.gaps # {}) => unanswered \/ \E t \in disk : t.tool = "mock"

=============================================================================
