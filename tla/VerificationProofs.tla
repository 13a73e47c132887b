------------------------- MODULE VerificationProofs -------------------------
(***************************************************************************)
(* Proofs about Verification for every set of findings, whatever the model   *)
(* answers, whatever the tools return, wherever the verifier raises and      *)
(* wherever the process is killed.                                         *)
(***************************************************************************)
EXTENDS Verification, TLAPS

\* A verdict of this report, no better than the audit of its evidence.
Audited(v) ==
  /\ v \in [id : Reported, status : Statuses, source : Urls \cup {NoUrl, "web_search"}]
  /\ Rank(v.status) >= Rank(Static(v.id))
  /\ v.status \in {"verified", "weak"} => v.id \in answered

\* A report that is not in the ledger yet.
Unfiled(r) ==
  r \in [verdicts : {r.verdicts}, missing : {r.missing}, unsupported : {r.unsupported},
         overall : {r.overall}, gaps : {{}}, traces : {{}}, crashed : {FALSE}]

\* Every finding has a verdict, and the summary is that of the verdicts.
Sound(r) ==
  /\ {v.id : v \in r.verdicts} = Reported
  /\ \A v \in r.verdicts : Audited(v)
  /\ r.unsupported = Unsupported(r.verdicts)
  /\ r.overall = Rollup(r.verdicts, r.missing)

\* The report in memory, once there is one, and the traces that are on disk.
ReportInv ==
  /\ findings \in UNION {[F -> Findings] : F \in SUBSET Evidence}
  /\ disk \subseteq ResearchTraces \cup VerifierTraces /\ memory \subseteq VerifierTraces
  /\ unanswered \in BOOLEAN
  /\ pc \in {"start", "loop", "append", "compile", "done"}
  /\ pc = "loop" => Reported # {}
  /\ pc \in {"append", "compile"} => Unfiled(report)
  /\ pc \in {"append", "compile"} /\ Reported # {} => Sound(report)
  /\ pc \in {"append", "compile"} /\ Reported = {} =>
       report.verdicts = {} /\ report.unsupported = {} /\ report.overall = "fail"
  /\ pc \in {"compile", "done"} => memory \subseteq disk
  /\ pc # "done" => file = NoReport

FileInv == /\ SilenceIsNoApproval /\ NoVerdictIsRaised /\ OverallAgrees /\ GapsAgree /\ WebClaimsAreRead

IInv == ReportInv /\ FileInv

-----------------------------------------------------------------------------
(* The operators.                                                          *)

\* The ranks are numbers, and tell the statuses apart.
LEMMA Ranks ==
  /\ \A s \in Statuses : Rank(s) \in 0 .. 3
  /\ Rank("verified") = 0 /\ Rank("weak") = 1 /\ Rank("unchecked") = 2 /\ Rank("rejected") = 3
BY DEF Rank, Statuses

\* The merge of two statuses is one of them, and no better than either.
LEMMA MergeIsLower ==
  ASSUME NEW l \in Statuses, NEW r \in Statuses
  PROVE  /\ MoreConservative(l, r) \in Statuses
         /\ MoreConservative(l, r) \in {l, r}
         /\ Rank(MoreConservative(l, r)) >= Rank(l) /\ Rank(MoreConservative(l, r)) >= Rank(r)
<1>1. Rank(l) \in Nat /\ Rank(r) \in Nat
  BY Ranks
<1> QED
  BY <1>1 DEF MoreConservative

\* The audit gives a status to every finding.
LEMMA StaticIsStatus ==
  ASSUME ReportInv, NEW e \in Reported
  PROVE  Static(e) \in Statuses
<1>1. findings[e] \in Findings
  BY DEF ReportInv, Reported
<1>2. findings[e].future \in BOOLEAN /\ findings[e].low \in BOOLEAN /\ Sourced(findings[e]) \in Statuses
  BY <1>1, VerificationAssumption DEF Sourced, Statuses
<1>3. "weak" \in Statuses /\ "rejected" \in Statuses
  BY DEF Statuses
<1> DEFINE alone == CASE findings[e].future -> "rejected"
                      [] ~ findings[e].future /\ findings[e].low -> MoreConservative(Sourced(findings[e]), "weak")
                      [] OTHER -> Sourced(findings[e])
<1>4. alone \in Statuses
  BY <1>2, <1>3, MergeIsLower
<1>5. Static(e) = IF Disputed(e) THEN MoreConservative(alone, "weak") ELSE alone
  BY DEF Static
<1> HIDE DEF alone
<1> QED
  BY <1>3, <1>4, <1>5, MergeIsLower

\* The roll-up of verdicts.
LEMMA RollupIs ==
  ASSUME NEW verdicts, NEW missing
  PROVE  /\ verdicts = {} \/ (\E v \in verdicts : v.status = "rejected") => Rollup(verdicts, missing) = "fail"
         /\ Rollup(verdicts, missing) = "fail" => verdicts = {} \/ \E v \in verdicts : v.status = "rejected"
         /\ Rollup(verdicts, missing) = "pass" <=>
              /\ verdicts # {} /\ missing = {}
              /\ \A v \in verdicts : v.status \notin {"rejected", "weak", "unchecked"}
<1> DEFINE statuses == {v.status : v \in verdicts}
<1>1. /\ "rejected" \in statuses <=> \E v \in verdicts : v.status = "rejected"
      /\ statuses \cap {"weak", "unchecked"} # {} <=> \E v \in verdicts : v.status \in {"weak", "unchecked"}
  OBVIOUS
<1>2. CASE verdicts = {}
  BY <1>2 DEF Rollup
<1>3. CASE verdicts # {} /\ "rejected" \in statuses
  BY <1>1, <1>3 DEF Rollup
<1>4. CASE verdicts # {} /\ "rejected" \notin statuses /\ (missing # {} \/ statuses \cap {"weak", "unchecked"} # {})
  <2>1. Rollup(verdicts, missing) = "pass_with_caveats"
    BY <1>4 DEF Rollup
  <2> QED
    BY <1>1, <1>4, <2>1
<1>5. CASE verdicts # {} /\ "rejected" \notin statuses /\ missing = {} /\ statuses \cap {"weak", "unchecked"} = {}
  <2>1. Rollup(verdicts, missing) = "pass"
    BY <1>5 DEF Rollup
  <2> QED
    BY <1>1, <1>5, <2>1
<1> QED
  BY <1>2, <1>3, <1>4, <1>5

\* The merge of an answer gives every finding a verdict that is no better than the audit.
LEMMA MergeIsSound ==
  ASSUME ReportInv, Reported # {}, NEW answer \in SUBSET Verdicts, NEW missing,
         answered' = {v.id : v \in answer}
  PROVE  LET r == MergedReport(answer, missing) IN
         /\ Unfiled(r)
         /\ {v.id : v \in r.verdicts} = Reported
         /\ \A v \in r.verdicts :
              /\ v \in [id : Reported, status : Statuses, source : Urls \cup {NoUrl, "web_search"}]
              /\ Rank(v.status) >= Rank(Static(v.id))
              /\ v.status \in {"verified", "weak"} => v.id \in answered'
         /\ r.unsupported = Unsupported(r.verdicts)
         /\ r.overall = Rollup(r.verdicts, r.missing)
<1> DEFINE judged == {[v EXCEPT !.status = MoreConservative(Static(v.id), v.status)] : v \in {w \in answer : w.id \in Reported}}
           silent == {[id |-> e, status |-> MoreConservative(Static(e), "unchecked"), source |-> NoUrl] :
                        e \in Reported \ {v.id : v \in answer}}
           r == MergedReport(answer, missing)
<1>1. r.verdicts = judged \cup silent
  BY DEF MergedReport, Merged, NoReport
<1>2. Unfiled(r) /\ r.unsupported = Unsupported(r.verdicts) /\ r.overall = Rollup(r.verdicts, r.missing)
  <2> DEFINE merged == Merged(answer)
             all == StaticMissing \cup missing
             unsupported == Unsupported(merged)
             overall == Rollup(merged, all)
  <2>1. r = [NoReport EXCEPT !.verdicts = merged, !.missing = all, !.unsupported = unsupported, !.overall = overall]
    BY DEF MergedReport
  <2> HIDE DEF merged, all, r
  <2> DEFINE un == unsupported
             ov == overall
  <2>2. un = Unsupported(merged) /\ ov = Rollup(merged, all)
    OBVIOUS
  <2> HIDE DEF un, ov
  <2>3. r = [verdicts |-> merged, missing |-> all, unsupported |-> un, overall |-> ov, gaps |-> {}, traces |-> {},
             crashed |-> FALSE]
    BY <2>1, <2>2 DEF NoReport
  <2>4. r.verdicts = merged /\ r.missing = all /\ r.unsupported = un /\ r.overall = ov
    BY <2>3
  <2> QED
    BY <2>2, <2>3, <2>4 DEF Unfiled
<1>3. ASSUME NEW w \in answer, w.id \in Reported
      PROVE  LET v == [w EXCEPT !.status = MoreConservative(Static(w.id), w.status)] IN
             /\ v.id = w.id
             /\ v \in [id : Reported, status : Statuses, source : Urls \cup {NoUrl, "web_search"}]
             /\ Rank(v.status) >= Rank(Static(v.id))
  <2>1. /\ w \in [id : Evidence \cup {Unknown}, status : {"verified", "weak", "unchecked", "rejected"},
                  source : Urls \cup {NoUrl, "web_search"}]
    BY <1>3, VerificationAssumption
  <2>2. Static(w.id) \in Statuses /\ w.status \in Statuses
    BY <1>3, <2>1, StaticIsStatus DEF Statuses
  <2> DEFINE m == MoreConservative(Static(w.id), w.status)
  <2>3. m \in Statuses /\ Rank(m) >= Rank(Static(w.id))
    BY <2>2, MergeIsLower
  <2> HIDE DEF m
  <2>4. LET v == [w EXCEPT !.status = m] IN
          /\ v.id = w.id /\ v.status = m
          /\ v \in [id : Reported, status : Statuses, source : Urls \cup {NoUrl, "web_search"}]
    BY <1>3, <2>1, <2>3
  <2> QED
    BY <2>1, <2>3, <2>4 DEF m
<1>4. ASSUME NEW e \in Reported
      PROVE  LET m == MoreConservative(Static(e), "unchecked") IN
             m \in {"unchecked", "rejected"} /\ Rank(m) >= Rank(Static(e))
  <2>1. Static(e) \in Statuses /\ "unchecked" \in Statuses
    BY StaticIsStatus DEF Statuses
  <2> DEFINE m == MoreConservative(Static(e), "unchecked")
  <2>2. m \in Statuses /\ Rank(m) >= Rank(Static(e)) /\ Rank(m) >= 2
    BY <2>1, MergeIsLower, Ranks
  <2> HIDE DEF m
  <2>3. m \in {"unchecked", "rejected"}
    BY <2>2, Ranks DEF Statuses
  <2> QED
    BY <2>2, <2>3 DEF m
<1>5. ASSUME NEW v \in judged \cup silent
      PROVE  /\ v \in [id : Reported, status : Statuses, source : Urls \cup {NoUrl, "web_search"}]
             /\ Rank(v.status) >= Rank(Static(v.id))
             /\ v.status \in {"verified", "weak"} => v.id \in answered'
  <2>1. CASE v \in judged
    <3>1. PICK w \in answer : w.id \in Reported /\ v = [w EXCEPT !.status = MoreConservative(Static(w.id), w.status)]
      BY <2>1
    <3>2. /\ v.id = w.id /\ Rank(v.status) >= Rank(Static(v.id))
          /\ v \in [id : Reported, status : Statuses, source : Urls \cup {NoUrl, "web_search"}]
      BY <1>3, <3>1
    <3> QED
      BY <3>1, <3>2
  <2>2. CASE v \in silent
    <3>1. PICK e \in Reported : v = [id |-> e, status |-> MoreConservative(Static(e), "unchecked"), source |-> NoUrl]
      BY <2>2
    <3>2. v.id = e /\ v.status = MoreConservative(Static(e), "unchecked") /\ v.source = NoUrl
      BY <3>1
    <3>3. v.status \in {"unchecked", "rejected"} /\ Rank(v.status) >= Rank(Static(v.id))
      BY <1>4, <3>2
    <3> QED
      BY <3>1, <3>2, <3>3 DEF Statuses
  <2> QED
    BY <2>1, <2>2
<1>6. {v.id : v \in judged \cup silent} = Reported
  <2>1. ASSUME NEW e \in Reported PROVE \E v \in judged \cup silent : v.id = e
    <3>1. CASE \E w \in answer : w.id = e
      <4>1. PICK w \in answer : w.id = e
        BY <3>1
      <4> DEFINE v == [w EXCEPT !.status = MoreConservative(Static(w.id), w.status)]
      <4>2. v \in judged /\ v.id = e
        BY <1>3, <4>1
      <4> QED
        BY <4>2
    <3>2. CASE ~ \E w \in answer : w.id = e
      <4> DEFINE v == [id |-> e, status |-> MoreConservative(Static(e), "unchecked"), source |-> NoUrl]
      <4>1. v \in silent /\ v.id = e
        BY <3>2
      <4> QED
        BY <4>1
    <3> QED
      BY <3>1, <3>2
  <2> QED
    BY <1>5, <2>1
<1> QED
  BY <1>1, <1>2, <1>5, <1>6

\* The audit's own report.
LEMMA StaticFields ==
  LET r == StaticReport IN
  /\ Unfiled(r)
  /\ r.verdicts = {[id |-> e, status |-> Static(e), source |-> NoUrl] : e \in Reported} /\ r.missing = StaticMissing
  /\ r.unsupported = Unsupported(r.verdicts) /\ r.overall = Rollup(r.verdicts, r.missing)
<1> DEFINE verdicts == {[id |-> e, status |-> Static(e), source |-> NoUrl] : e \in Reported}
           missing == StaticMissing
           un == Unsupported(verdicts)
           overall == Rollup(verdicts, missing)
<1>1. StaticReport = [NoReport EXCEPT !.verdicts = verdicts, !.missing = missing, !.unsupported = un, !.overall = overall]
  BY DEF StaticReport
<1>2. un = Unsupported(verdicts) /\ overall = Rollup(verdicts, missing) /\ missing = StaticMissing
  OBVIOUS
<1> HIDE DEF verdicts, missing, un, overall
<1>3. StaticReport = [verdicts |-> verdicts, missing |-> missing, unsupported |-> un, overall |-> overall, gaps |-> {},
                      traces |-> {}, crashed |-> FALSE]
  BY <1>1 DEF NoReport
<1>4. /\ StaticReport.verdicts = verdicts /\ StaticReport.missing = missing
      /\ StaticReport.unsupported = un /\ StaticReport.overall = overall
  BY <1>3
<1> HIDE DEF StaticReport
<1>5. Unfiled(StaticReport)
  BY <1>3, <1>4 DEF Unfiled
<1> QED
  BY <1>2, <1>4, <1>5 DEF verdicts

-----------------------------------------------------------------------------
(* The guard and the ledger.                                               *)

\* The guard makes a verified verdict unchecked or leaves the verdict alone.
LEMMA GuardLowers ==
  ASSUME ReportInv, NEW v, Audited(v), NEW traces
  PROVE  LET g == Guard(v, traces) IN
         /\ Audited(g) /\ g.id = v.id /\ g.source = v.source
         /\ g = v \/ (v.status = "verified" /\ g.status = "unchecked")
         /\ g.status = "verified" => ~ FromWeb(v, traces) \/ IndependentlyRead(v, traces)
<1>1. CASE v.status = "verified" /\ FromWeb(v, traces) /\ ~ IndependentlyRead(v, traces)
  <2> DEFINE g == [v EXCEPT !.status = "unchecked"]
  <2>1. /\ g \in [id : Reported, status : Statuses, source : Urls \cup {NoUrl, "web_search"}]
        /\ g.id = v.id /\ g.source = v.source /\ g.status = "unchecked"
    BY DEF Audited, Statuses
  <2>2. Guard(v, traces) = g
    BY <1>1 DEF Guard
  <2> HIDE DEF g
  <2>3. Rank(v.status) = 0 /\ Rank(g.status) = 2
    BY <1>1, <2>1, Ranks
  <2>4. Rank(Static(v.id)) \in Nat /\ Rank(v.status) >= Rank(Static(v.id))
    BY StaticIsStatus, Ranks DEF Audited
  <2>5. Rank(g.status) >= Rank(Static(g.id))
    BY <2>1, <2>3, <2>4
  <2> QED
    BY <1>1, <2>1, <2>2, <2>5 DEF Audited
<1>2. CASE ~ (v.status = "verified" /\ FromWeb(v, traces) /\ ~ IndependentlyRead(v, traces))
  BY <1>2 DEF Guard
<1> QED
  BY <1>1, <1>2

\* What is filed of a report.
LEMMA FiledFields ==
  ASSUME NEW r, Unfiled(r), NEW traces
  PROVE  LET f == Finalized(Guarded(r, traces), traces)
             verdicts == {Guard(v, traces) : v \in r.verdicts} IN
         /\ f.verdicts = verdicts /\ f.missing = r.missing
         /\ f.unsupported = IF verdicts = r.verdicts THEN r.unsupported ELSE r.unsupported \cup Unsupported(verdicts)
         /\ f.overall = IF verdicts = r.verdicts THEN r.overall ELSE Rollup(verdicts, r.missing)
         /\ f.gaps = Gaps(f, traces) /\ f.crashed = FALSE
<1> DEFINE verdicts == {Guard(v, traces) : v \in r.verdicts}
           g == Guarded(r, traces)
           f == [g EXCEPT !.gaps = Gaps(g, traces), !.traces = traces]
<1> HIDE DEF verdicts
<1>1. /\ Unfiled(g) /\ g.verdicts = verdicts /\ g.missing = r.missing
      /\ g.unsupported = IF verdicts = r.verdicts THEN r.unsupported ELSE r.unsupported \cup Unsupported(verdicts)
      /\ g.overall = IF verdicts = r.verdicts THEN r.overall ELSE Rollup(verdicts, r.missing)
  <2>1. CASE verdicts = r.verdicts
    <3>1. g = r
      BY <2>1 DEF Guarded, verdicts
    <3> HIDE DEF g
    <3> QED
      BY <2>1, <3>1
  <2>2. CASE verdicts # r.verdicts
    <3> DEFINE un == r.unsupported \cup Unsupported(verdicts)
               ov == Rollup(verdicts, r.missing)
    <3>1. g = [r EXCEPT !.verdicts = verdicts, !.unsupported = un, !.overall = ov]
      BY <2>2 DEF Guarded, verdicts
    <3>2. un = r.unsupported \cup Unsupported(verdicts) /\ ov = Rollup(verdicts, r.missing)
      OBVIOUS
    <3> HIDE DEF un, ov, g
    <3>3. Unfiled(g) /\ g.verdicts = verdicts /\ g.missing = r.missing /\ g.unsupported = un /\ g.overall = ov
      <4> DEFINE q == [r EXCEPT !.verdicts = verdicts, !.unsupported = un, !.overall = ov]
      <4>1. Unfiled(q) /\ q.verdicts = verdicts /\ q.missing = r.missing /\ q.unsupported = un /\ q.overall = ov
        <5>1. q \in [verdicts : {verdicts}, missing : {r.missing}, unsupported : {un}, overall : {ov},
                      gaps : {{}}, traces : {{}}, crashed : {FALSE}]
          BY DEF Unfiled
        <5> HIDE DEF q
        <5> QED
          BY <5>1 DEF Unfiled
      <4>2. g = q
        BY <3>1
      <4> HIDE DEF q
      <4> QED
        BY <4>1, <4>2
    <3> QED
      BY <2>2, <3>2, <3>3
  <2> QED
    BY <2>1, <2>2
<1> HIDE DEF g
<1>2. /\ f.verdicts = g.verdicts /\ f.missing = g.missing /\ f.unsupported = g.unsupported /\ f.overall = g.overall
      /\ f.gaps = Gaps(g, traces) /\ f.crashed = FALSE
  <2> DEFINE d == Gaps(g, traces)
  <2> HIDE DEF d
  <2>1. LET q == [g EXCEPT !.gaps = d, !.traces = traces] IN
        /\ q.verdicts = g.verdicts /\ q.missing = g.missing /\ q.unsupported = g.unsupported
        /\ q.overall = g.overall /\ q.gaps = d /\ q.crashed = FALSE
    <3>1. Unfiled(g)
      BY <1>1
    <3> QED
      BY <3>1 DEF Unfiled
  <2> QED
    BY <2>1 DEF d
<1>3. Finalized(g, traces) = f
  BY DEF Finalized
<1> HIDE DEF f
<1>4. Gaps(g, traces) = Gaps(f, traces)
  BY <1>2 DEF Gaps
<1> QED
  BY <1>1, <1>2, <1>3, <1>4 DEF g, verdicts

\* The gaps of a report whose verdicts have a status.
LEMMA GapsAre ==
  ASSUME NEW r, NEW traces, \A v \in r.verdicts : v.status \in Statuses
  PROVE  /\ {g.of : g \in {h \in Gaps(r, traces) : h.kind \in {"rejected_evidence", "unchecked_evidence"}}}
              = {v.id : v \in {w \in r.verdicts : w.status \notin {"verified", "weak"}}}
         /\ Gaps(r, traces) # {} /\ r.missing = {} /\ (\A v \in r.verdicts : v.status = "verified")
              => unanswered \/ \E t \in traces : t.tool = "mock"
<1> DEFINE gaps == Gaps(r, traces)
           of(kind) == {g \in gaps : g.kind = kind}
<1>1. ASSUME NEW g \in gaps
      PROVE  \/ g.kind = "rejected_evidence" /\ \E v \in r.verdicts : v.status = "rejected" /\ g.of = v.id
             \/ g.kind = "unchecked_evidence" /\ \E v \in r.verdicts : v.status = "unchecked" /\ g.of = v.id
             \/ g.kind = "missing_evidence" /\ r.missing # {}
             \/ g.kind = "unanswered_question" /\ unanswered
             \/ g.kind = "engine_mock" /\ \E t \in traces : t.tool = "mock"
  <2>1. CASE g \in {[kind |-> "rejected_evidence", of |-> v.id] : v \in {w \in r.verdicts : w.status = "rejected"}}
    BY <2>1
  <2>2. CASE g \in {[kind |-> "unchecked_evidence", of |-> v.id] : v \in {w \in r.verdicts : w.status = "unchecked"}}
    BY <2>2
  <2>3. CASE g \in {[kind |-> "missing_evidence", of |-> m] : m \in r.missing}
    BY <2>3
  <2>4. CASE g \in IF unanswered THEN {[kind |-> "unanswered_question", of |-> "question"]} ELSE {}
    BY <2>4
  <2>5. CASE g \in {[kind |-> "engine_mock", of |-> t.url] : t \in {x \in traces : x.tool = "mock"}}
    BY <2>5
  <2> QED
    BY <2>1, <2>2, <2>3, <2>4, <2>5 DEF Gaps
<1>2. ASSUME NEW v \in r.verdicts, v.status = "rejected"
      PROVE  \E g \in gaps : g.kind = "rejected_evidence" /\ g.of = v.id
  <2> DEFINE g == [kind |-> "rejected_evidence", of |-> v.id]
  <2>1. g \in gaps
    BY <1>2 DEF Gaps
  <2> QED
    BY <2>1
<1>3. ASSUME NEW v \in r.verdicts, v.status = "unchecked"
      PROVE  \E g \in gaps : g.kind = "unchecked_evidence" /\ g.of = v.id
  <2> DEFINE g == [kind |-> "unchecked_evidence", of |-> v.id]
  <2>1. g \in gaps
    BY <1>3 DEF Gaps
  <2> QED
    BY <2>1
<1> HIDE DEF gaps
<1>4. {g.of : g \in {h \in gaps : h.kind \in {"rejected_evidence", "unchecked_evidence"}}}
        = {v.id : v \in {w \in r.verdicts : w.status \notin {"verified", "weak"}}}
  <2>1. ASSUME NEW v \in r.verdicts, v.status \notin {"verified", "weak"}
        PROVE  \E g \in gaps : g.kind \in {"rejected_evidence", "unchecked_evidence"} /\ g.of = v.id
    BY <1>2, <1>3, <2>1 DEF Statuses
  <2>2. ASSUME NEW g \in gaps, g.kind \in {"rejected_evidence", "unchecked_evidence"}
        PROVE  \E v \in r.verdicts : v.status \notin {"verified", "weak"} /\ g.of = v.id
    BY <1>1, <2>2
  <2> QED
    BY <2>1, <2>2
<1>5. gaps # {} /\ r.missing = {} /\ (\A v \in r.verdicts : v.status = "verified")
        => unanswered \/ \E t \in traces : t.tool = "mock"
  BY <1>1
<1> QED
  BY <1>4, <1>5 DEF gaps

-----------------------------------------------------------------------------
(* The steps.                                                              *)

\* As long as nothing is on file there is nothing to be wrong.
LEMMA NothingFiled ==
  ASSUME file = NoReport, pc # "done"
  PROVE  FileInv
<1>1. file.verdicts = {}
  BY DEF NoReport
<1> QED
  BY <1>1 DEF FileInv, SilenceIsNoApproval, NoVerdictIsRaised, OverallAgrees, GapsAgree, WebClaimsAreRead, Filed

LEMMA InitHolds ==
  ASSUME Init
  PROVE  IInv
<1>1. ReportInv
  <2>1. disk \subseteq ResearchTraces \cup VerifierTraces /\ memory \subseteq VerifierTraces
    BY DEF Init
  <2> QED
    BY <2>1 DEF Init, ReportInv
<1>2. FileInv
  BY NothingFiled DEF Init
<1> QED
  BY <1>1, <1>2 DEF IInv

\* What is filed holds the guarded verdicts of a sound report.
LEMMA CompileHolds ==
  ASSUME ReportInv, Compile
  PROVE  FileInv'
<1> DEFINE verdicts == {Guard(v, disk) : v \in report.verdicts}
<1>1. /\ pc = "compile" /\ pc' = "done" /\ disk \cup memory = disk /\ Unfiled(report)
      /\ UNCHANGED <<findings, empty, unanswered, disk, answered>>
  BY DEF Compile, ReportInv, reports
<1>2. file' = Finalized(Guarded(report, disk), disk)
  BY <1>1 DEF Compile
<1>3. /\ file'.verdicts = verdicts /\ file'.missing = report.missing
      /\ file'.unsupported = IF verdicts = report.verdicts THEN report.unsupported
                             ELSE report.unsupported \cup Unsupported(verdicts)
      /\ file'.overall = IF verdicts = report.verdicts THEN report.overall ELSE Rollup(verdicts, report.missing)
      /\ file'.gaps = Gaps(file', disk) /\ file'.crashed = FALSE
  BY <1>1, <1>2, FiledFields
<1>4. report.verdicts = {} => Reported = {}
  BY <1>1 DEF ReportInv, Sound
<1>5. \A v \in report.verdicts : Audited(v)
  BY <1>1 DEF ReportInv, Sound
<1>6. ASSUME NEW g \in verdicts
      PROVE  /\ Audited(g)
             /\ \E v \in report.verdicts :
                  /\ g = Guard(v, disk) /\ g.id = v.id /\ g.source = v.source
                  /\ g = v \/ (v.status = "verified" /\ g.status = "unchecked")
                  /\ g.status = "verified" => ~ FromWeb(v, disk) \/ IndependentlyRead(v, disk)
  <2>1. PICK v \in report.verdicts : g = Guard(v, disk)
    OBVIOUS
  <2>2. Audited(v)
    BY <1>5
  <2> QED
    BY <2>1, <2>2, GuardLowers
<1>7. ASSUME NEW v \in report.verdicts
      PROVE  Guard(v, disk).id = v.id /\ Guard(v, disk) \in verdicts
             /\ (Guard(v, disk) = v \/ v.status = "verified")
  BY <1>5, GuardLowers
<1>8. \A g \in verdicts : g.status \in Statuses
  BY <1>6 DEF Audited
<1> HIDE DEF verdicts
<1>9. SilenceIsNoApproval'
  <2>1. SUFFICES ASSUME Reported # {}
                 PROVE  /\ {v.id : v \in verdicts} = Reported
                        /\ \A v \in verdicts : v.status \in {"verified", "weak"} => v.id \in answered
    BY <1>1, <1>3 DEF SilenceIsNoApproval, Reported
  <2>2. {v.id : v \in report.verdicts} = Reported
    BY <1>1, <2>1 DEF ReportInv, Sound
  <2>3. {v.id : v \in verdicts} = {v.id : v \in report.verdicts}
    BY <1>6, <1>7
  <2> QED
    BY <1>6, <2>2, <2>3 DEF Audited
<1>10. NoVerdictIsRaised'
  <2>1. ASSUME NEW e PROVE Static(e)' = Static(e)
    BY <1>1 DEF Static, Sourced, Disputed, Reported
  <2> QED
    BY <1>3, <1>6, <2>1 DEF NoVerdictIsRaised, Audited
<1>11. Unsupported(verdicts) = file'.unsupported
  <2>1. report.unsupported = Unsupported(report.verdicts)
    BY <1>1 DEF ReportInv, Sound, Unsupported
  <2>2. Unsupported(report.verdicts) \subseteq Unsupported(verdicts)
    BY <1>7 DEF Unsupported
  <2> QED
    BY <1>3, <2>1, <2>2
<1>12. /\ file'.overall = "pass" <=> /\ verdicts # {} /\ report.missing = {}
                                     /\ \A v \in verdicts : v.status = "verified"
       /\ file'.overall = "fail" <=> verdicts = {} \/ \E v \in verdicts : v.status = "rejected"
  <2>1. CASE Reported = {}
    <3>1. report.verdicts = {} /\ report.overall = "fail"
      BY <1>1, <2>1 DEF ReportInv
    <3>2. verdicts = {}
      BY <3>1 DEF verdicts
    <3> QED
      BY <1>3, <3>1, <3>2
  <2>2. CASE Reported # {}
    <3>1. file'.overall = Rollup(verdicts, report.missing)
      BY <1>1, <1>3, <2>2 DEF ReportInv, Sound
    <3> QED
      BY <1>8, <3>1, RollupIs DEF Statuses
  <2> QED
    BY <2>1, <2>2
<1>13. OverallAgrees'
  BY <1>3, <1>11, <1>12 DEF OverallAgrees, Unsupported
<1>14. GapsAgree'
  <2>1. {g.of : g \in {h \in file'.gaps : h.kind \in {"rejected_evidence", "unchecked_evidence"}}}
          = {v.id : v \in {w \in file'.verdicts : w.status \notin {"verified", "weak"}}}
    BY <1>3, <1>8, GapsAre
  <2>2. (file'.overall = "pass" /\ file'.gaps # {}) => unanswered \/ \E t \in disk : t.tool = "mock"
    BY <1>3, <1>8, <1>12, GapsAre
  <2> QED
    BY <1>1, <2>1, <2>2 DEF GapsAgree
<1>15. WebClaimsAreRead'
  <2>1. SUFFICES ASSUME NEW g \in verdicts, g.status = "verified",
                        \/ g.source = "web_search"
                        \/ \E t \in disk : t.tool # "mock" /\ t.url = findings[g.id].url /\ t.ok
                 PROVE  \E t \in disk : /\ t.role = "verifier" /\ t.ok /\ t.tool # "web_search"
                                       /\ t.url \in {g.source, findings[g.id].url}
    BY <1>1, <1>3 DEF WebClaimsAreRead
  <2>2. PICK v \in report.verdicts :
               /\ g.id = v.id /\ g.source = v.source
               /\ ~ FromWeb(v, disk) \/ IndependentlyRead(v, disk)
    BY <1>6, <2>1
  <2>3. \A t \in disk : t.tool \in {"read_url", "web_search", "market_data", "mock"}
    BY VerificationAssumption DEF ReportInv
  <2>4. FromWeb(v, disk)
    BY <2>1, <2>2, <2>3 DEF FromWeb, Discovered
  <2>5. \E u \in {g.source, findings[g.id].url} : u \in ReadByVerifier(disk)
    BY <2>2, <2>4 DEF IndependentlyRead
  <2> QED
    BY <2>5 DEF ReadByVerifier
<1> QED
  BY <1>9, <1>10, <1>13, <1>14, <1>15 DEF FileInv

\* The file of a crashed verifier has the verdicts of the audit, and is no pass.
LEMMA FallbackHolds ==
  ASSUME ReportInv, NEW kept, VerifierRaises(kept)
  PROVE  FileInv'
<1> DEFINE verdicts == {[id |-> e, status |-> Static(e), source |-> NoUrl] : e \in Reported}
           overall == IF StaticReport.overall = "fail" THEN "fail" ELSE "pass_with_caveats"
           gaps == Gaps([StaticReport EXCEPT !.overall = overall, !.crashed = TRUE], disk')
<1>1. /\ UNCHANGED <<findings, empty, unanswered>> /\ file' = Fallback(disk')
  BY DEF VerifierRaises, reports
<1>2. /\ file'.verdicts = verdicts /\ file'.missing = StaticMissing /\ file'.unsupported = Unsupported(verdicts)
      /\ file'.overall = overall /\ file'.crashed = TRUE /\ file'.gaps = Gaps(file', disk')
      /\ StaticReport.overall = Rollup(verdicts, StaticMissing)
  <2>1. /\ Unfiled(StaticReport) /\ StaticReport.verdicts = verdicts /\ StaticReport.missing = StaticMissing
        /\ StaticReport.unsupported = Unsupported(verdicts) /\ StaticReport.overall = Rollup(verdicts, StaticMissing)
    BY StaticFields
  <2>2. file' = [[StaticReport EXCEPT !.overall = overall, !.crashed = TRUE] EXCEPT !.gaps = gaps, !.traces = disk']
    BY <1>1 DEF Fallback, Finalized
  <2> DEFINE r == [StaticReport EXCEPT !.overall = overall, !.crashed = TRUE]
  <2> HIDE DEF StaticReport, verdicts, overall, gaps
  <2>3. /\ r \in [verdicts : {StaticReport.verdicts}, missing : {StaticReport.missing},
                  unsupported : {StaticReport.unsupported}, overall : {overall}, gaps : {{}}, traces : {{}},
                  crashed : {TRUE}]
    BY <2>1 DEF Unfiled
  <2>4. file' = [r EXCEPT !.gaps = gaps, !.traces = disk']
    BY <2>2
  <2>5. gaps = Gaps(r, disk')
    BY DEF gaps
  <2> HIDE DEF r
  <2>6. /\ file'.verdicts = StaticReport.verdicts /\ file'.missing = StaticReport.missing
        /\ file'.unsupported = StaticReport.unsupported /\ file'.overall = overall /\ file'.crashed = TRUE
        /\ file'.gaps = gaps /\ r.verdicts = StaticReport.verdicts /\ r.missing = StaticReport.missing
    BY <2>3, <2>4
  <2>7. Gaps(r, disk') = Gaps(file', disk')
    BY <2>6 DEF Gaps
  <2> QED
    BY <2>1, <2>5, <2>6, <2>7
<1>3. ASSUME NEW v \in verdicts
      PROVE  v.id \in Reported /\ v.status = Static(v.id) /\ v.status \in Statuses
  BY StaticIsStatus
<1>4. {v.id : v \in verdicts} = Reported
  <2>1. ASSUME NEW e \in Reported PROVE \E v \in verdicts : v.id = e
    <3> DEFINE v == [id |-> e, status |-> Static(e), source |-> NoUrl]
    <3>1. v \in verdicts /\ v.id = e
      OBVIOUS
    <3> QED
      BY <3>1
  <2> QED
    BY <1>3, <2>1
<1>5. overall \in {"fail", "pass_with_caveats"} /\ (overall = "fail" <=> StaticReport.overall = "fail")
  OBVIOUS
<1> HIDE DEF verdicts, overall
<1>6. SilenceIsNoApproval' /\ WebClaimsAreRead'
  BY <1>1, <1>2, <1>4, <1>5 DEF SilenceIsNoApproval, WebClaimsAreRead, VouchedFor, Reported
<1>7. NoVerdictIsRaised'
  <2>1. ASSUME NEW e PROVE Static(e)' = Static(e)
    BY <1>1 DEF Static, Sourced, Disputed, Reported
  <2>2. ASSUME NEW v \in verdicts PROVE Rank(v.status) >= Rank(Static(v.id))
    BY <1>3, Ranks
  <2> QED
    BY <1>2, <2>1, <2>2 DEF NoVerdictIsRaised
<1>8. OverallAgrees'
  BY <1>2, <1>5, RollupIs DEF OverallAgrees, Unsupported
<1>9. GapsAgree'
  <2>1. {g.of : g \in {h \in file'.gaps : h.kind \in {"rejected_evidence", "unchecked_evidence"}}}
          = {v.id : v \in {w \in file'.verdicts : w.status \notin {"verified", "weak"}}}
    BY <1>2, <1>3, GapsAre
  <2> QED
    BY <1>2, <1>5, <2>1 DEF GapsAgree
<1> QED
  BY <1>6, <1>7, <1>8, <1>9 DEF FileInv

\* The steps before anything is filed.
LEMMA ReportHolds ==
  ASSUME ReportInv, Next
  PROVE  ReportInv'
<1> USE DEF reports
<1>1. CASE Start
  <2>1. CASE Reported = {}
    <3>1. report' = StaticReport /\ pc' = "append" /\ UNCHANGED <<findings, disk, memory, file, unanswered>>
      BY <1>1, <2>1 DEF Start
    <3>2. Unfiled(StaticReport) /\ StaticReport.verdicts = {} /\ StaticReport.unsupported = {}
      BY <2>1, StaticFields DEF Unsupported
    <3>3. StaticReport.overall = "fail"
      BY <3>2, StaticFields, RollupIs
    <3> QED
      BY <1>1, <2>1, <3>1, <3>2, <3>3 DEF Start, ReportInv, Unfiled, Reported
  <2>2. CASE Reported # {}
    BY <1>1, <2>2 DEF Start, ReportInv, Reported
  <2> QED
    BY <2>1, <2>2
<1>2. ASSUME NEW t \in VerifierTraces, Tool(t) PROVE ReportInv'
  <2>1. pc = "loop" /\ pc' = "loop" /\ memory' = memory \cup {t} /\ UNCHANGED <<findings, disk, file, unanswered>>
    BY <1>2 DEF Tool
  <2> QED
    BY <2>1 DEF ReportInv, Reported
<1>3. ASSUME NEW answer \in SUBSET Verdicts, NEW missing, pc = "loop", report' = MergedReport(answer, missing),
             answered' = {v.id : v \in answer}, pc' = "append",
             UNCHANGED <<findings, empty, unanswered, disk, memory, file>>
      PROVE  ReportInv'
  <2> DEFINE r == MergedReport(answer, missing)
  <2>1. Reported # {}
    BY <1>3 DEF ReportInv
  <2>2. /\ Unfiled(r) /\ {v.id : v \in r.verdicts} = Reported
        /\ \A v \in r.verdicts :
             /\ v \in [id : Reported, status : Statuses, source : Urls \cup {NoUrl, "web_search"}]
             /\ Rank(v.status) >= Rank(Static(v.id))
             /\ v.status \in {"verified", "weak"} => v.id \in answered'
        /\ r.unsupported = Unsupported(r.verdicts) /\ r.overall = Rollup(r.verdicts, r.missing)
    BY <1>3, <2>1, MergeIsSound
  <2>3. report' = r
    BY <1>3
  <2> HIDE DEF r
  <2>4. Reported' = Reported
    BY <1>3 DEF Reported
  <2>5. ASSUME NEW e PROVE Static(e)' = Static(e)
    BY <1>3 DEF Static, Sourced, Disputed, Reported
  <2>6. Sound(report)'
    BY <2>2, <2>3, <2>4, <2>5 DEF Sound, Audited, Unsupported, Rollup
  <2>7. Unfiled(report)'
    BY <2>2, <2>3 DEF Unfiled
  <2> QED
    BY <1>3, <2>1, <2>4, <2>6, <2>7 DEF ReportInv
<1>4. ASSUME NEW answer \in AnswerSets, NEW missing \in SUBSET {"note"}, Answers(answer, missing) PROVE ReportInv'
  <2>1. answer \in SUBSET Verdicts
    BY DEF AnswerSets
  <2> QED
    BY <1>3, <1>4, <2>1 DEF Answers
<1>5. CASE AnswerFails
  <2>1. /\ pc = "loop" /\ report' = MergedReport({}, {}) /\ answered' = {} /\ pc' = "append"
        /\ UNCHANGED <<findings, empty, unanswered, disk, memory, file>>
    BY <1>5 DEF AnswerFails
  <2>2. answered' = {v.id : v \in {}} /\ {} \in SUBSET Verdicts
    BY <2>1
  <2> QED
    BY <1>3, <2>1, <2>2
<1>6. CASE Cancelled
  <2>1. /\ pc = "loop" /\ pc' = "start" /\ disk' = disk \cup memory /\ memory' = {}
        /\ UNCHANGED <<findings, file, unanswered>>
    BY <1>6 DEF Cancelled
  <2> QED
    BY <2>1 DEF ReportInv, Reported
<1>7. CASE AppendTraces
  <2>1. /\ pc = "append" /\ pc' = "compile" /\ disk' = disk \cup memory
        /\ UNCHANGED <<findings, memory, report, file, answered, unanswered>>
    BY <1>7 DEF AppendTraces
  <2>2. Sound(report)' = Sound(report) /\ Unfiled(report)' = Unfiled(report) /\ Reported' = Reported
    BY <2>1 DEF Sound, Unfiled, Audited, Static, Sourced, Disputed, Reported, Unsupported, Rollup
  <2>3. disk' \subseteq ResearchTraces \cup VerifierTraces /\ memory' \subseteq VerifierTraces /\ memory' \subseteq disk'
    BY <2>1 DEF ReportInv
  <2> QED
    BY <2>1, <2>2, <2>3 DEF ReportInv
<1>8. CASE Compile
  <2>1. /\ pc = "compile" /\ pc' = "done" /\ UNCHANGED <<findings, disk, memory, unanswered>>
    BY <1>8 DEF Compile
  <2> QED
    BY <2>1 DEF ReportInv, Reported
<1>9. CASE Crash
  <2>1. /\ pc \in {"loop", "append", "compile"} /\ pc' = "start" /\ memory' = {}
        /\ UNCHANGED <<findings, disk, file, unanswered>>
    BY <1>9 DEF Crash
  <2> QED
    BY <2>1 DEF ReportInv, Reported
<1>10. ASSUME NEW kept, VerifierRaises(kept) PROVE ReportInv'
  <2>1. /\ pc' = "done" /\ memory' = {} /\ disk' = disk \cup kept /\ kept \subseteq memory
        /\ UNCHANGED <<findings, unanswered>>
    BY <1>10 DEF VerifierRaises
  <2> QED
    BY <2>1 DEF ReportInv, Reported
<1> QED
  BY <1>1, <1>2, <1>4, <1>5, <1>6, <1>7, <1>8, <1>9, <1>10 DEF Next

LEMMA StepHolds ==
  ASSUME IInv, [Next]_vars
  PROVE  IInv'
<1>1. CASE Compile
  <2>1. Next
    BY <1>1 DEF Next
  <2> QED
    BY <1>1, <2>1, CompileHolds, ReportHolds DEF IInv
<1>2. CASE \E kept \in SUBSET memory : VerifierRaises(kept)
  <2>1. Next
    BY <1>2 DEF Next
  <2> QED
    BY <1>2, <2>1, FallbackHolds, ReportHolds DEF IInv
<1>3. CASE Next /\ ~ Compile /\ ~ \E kept \in SUBSET memory : VerifierRaises(kept)
  <2>1. ReportInv'
    BY <1>3, ReportHolds DEF IInv
  <2>2. pc # "done" /\ pc' # "done" /\ file' = file
    BY <1>3 DEF Next, Start, Tool, Answers, AnswerFails, Cancelled, AppendTraces, Crash
  <2>3. file' = NoReport
    BY <2>2 DEF IInv, ReportInv
  <2>4. FileInv'
    <3>1. file'.verdicts = {}
      BY <2>3 DEF NoReport
    <3> QED
      BY <2>2, <3>1
      DEF FileInv, SilenceIsNoApproval, NoVerdictIsRaised, OverallAgrees, GapsAgree, WebClaimsAreRead, Filed
  <2> QED
    BY <2>1, <2>4 DEF IInv
<1>4. CASE UNCHANGED vars
  <2>1. UNCHANGED <<findings, unanswered, disk, memory, report, file, answered, pc>>
    BY <1>4 DEF vars, reports
  <2>2. Sound(report)' = Sound(report) /\ Unfiled(report)' = Unfiled(report) /\ Reported' = Reported
    BY <2>1 DEF Sound, Unfiled, Audited, Static, Sourced, Disputed, Reported, Unsupported, Rollup
  <2>3. ReportInv'
    BY <2>1, <2>2 DEF IInv, ReportInv
  <2>4. SilenceIsNoApproval' /\ OverallAgrees' /\ GapsAgree' /\ WebClaimsAreRead'
    BY <2>1, <2>2 DEF IInv, FileInv, SilenceIsNoApproval, OverallAgrees, GapsAgree, WebClaimsAreRead, VouchedFor,
                      Filed, Unsupported
  <2>5. ASSUME NEW e PROVE Static(e)' = Static(e)
    BY <2>1 DEF Static, Sourced, Disputed, Reported
  <2>6. NoVerdictIsRaised'
    BY <2>1, <2>5 DEF IInv, FileInv, NoVerdictIsRaised
  <2> QED
    BY <2>3, <2>4, <2>6 DEF IInv, FileInv
<1> QED
  BY <1>1, <1>2, <1>3, <1>4

-----------------------------------------------------------------------------

\* The invariant holds in every state.
THEOREM Invariance == Spec => []IInv
BY InitHolds, StepHolds, PTL DEF Spec

\* All reported evidence has a verdict on file, and none that the model did not vouch
\* for counts as verified or weak, whatever it left out and wherever the process died;
\* the file of a verifier that crashed, where that is not so, is never a pass.
THEOREM SilenceHolds == Spec => []SilenceIsNoApproval
<1>1. IInv => SilenceIsNoApproval
  BY DEF IInv, FileInv
<1> QED
  BY <1>1, Invariance, PTL

\* No verdict on file is more favourable than the audit of its evidence.
THEOREM NothingIsRaised == Spec => []NoVerdictIsRaised
<1>1. IInv => NoVerdictIsRaised
  BY DEF IInv, FileInv
<1> QED
  BY <1>1, Invariance, PTL

\* Evidence from the web is verified only if a verifier read its page, but in the file
\* of a verifier that crashed, which is never a pass.
THEOREM WebClaimsHold == Spec => []WebClaimsAreRead
<1>1. IInv => WebClaimsAreRead
  BY DEF IInv, FileInv
<1> QED
  BY <1>1, Invariance, PTL

\* The status of the whole is that of the verdicts as they were filed: it is a failure
\* exactly if they are one, and a pass exactly if they are and the verifier did not crash.
THEOREM OverallHolds == Spec => []OverallAgrees
<1>1. IInv => OverallAgrees
  BY DEF IInv, FileInv
<1> QED
  BY <1>1, Invariance, PTL

\* The gaps are those of the verdicts as they were filed.
THEOREM GapsHold == Spec => []GapsAgree
<1>1. IInv => GapsAgree
  BY DEF IInv, FileInv
<1> QED
  BY <1>1, Invariance, PTL
=============================================================================
