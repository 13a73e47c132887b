--------------------------- MODULE CapabilityMining ---------------------------
(***************************************************************************)
(* eval/capability_mining.py: the gaps of a session's verification become  *)
(* immutable cases, which point at approved frozen worlds by their hash,   *)
(* and an experiment takes its targets from the OPEN rows of the ledger.   *)
(*                                                                         *)
(* Sessions verify again and again, with fresh ids for their gaps; a       *)
(* reviewer revises worlds; other sessions plant, close and reopen rows    *)
(* (GapLedger has these steps in full). A verification has one gap here.   *)
(***************************************************************************)
EXTENDS Naturals, Sequences, SequencesExt, FiniteSets, FiniteSetsExt

CONSTANTS
  Sessions,
  Evidence,        \* ids of evidence a gap may be about
  Says,            \* what the text of a gap may say: sets of hits of the taxonomy
  Around,          \* what the files of its session may say around it
  Worlds, Guards,  \* the approved worlds, and those that are in every experiment
  Covered,         \* what each world covers at first: sets of hits of the taxonomy
  Covers,          \* what it may cover when it is revised
  MaxTargets,      \* MAX_TARGET_WORLDS
  MaxVerifications, MaxRevisions

VARIABLES
  world,           \* the approved worlds of the manifest: content hash and capabilities
  verification,    \* verification.json of each session: its gap
  gaps,            \* how many gaps have been found, their ids
  ledger,          \* gap_ledger.jsonl
  cases            \* reports/capability_cases, by the occurrence they are mined from

miningVars == <<world, verification, gaps, ledger, cases>>

NoEvidence == "none"
NoGap == [id |-> 0, evidence |-> NoEvidence, says |-> {}]

\* A gap without evidence is known by its id, which is new in each verification.
Key(gap) == [evidence |-> gap.evidence, id |-> IF gap.evidence = NoEvidence THEN gap.id ELSE NoGap.id]

-----------------------------------------------------------------------------
(* The taxonomy.                                                           *)

\* The rules of _classify, in their order. Some look at the gap alone, others at all
\* that the session's files say around it.
Taxonomy ==
  <<"replan", "mock", "as_of", "engine", "contradiction", "crowding", "withholding", "missing", "quality">>
OfTheGap == {"mock", "as_of", "engine", "missing"}

Hits(says, around) == {i \in DOMAIN Taxonomy : Taxonomy[i] \in says \cup (around \ OfTheGap)}
Unclassified == "unclassified"
Classify(says, around) ==
  IF Hits(says, around) = {} THEN Unclassified
  ELSE Taxonomy[CHOOSE i \in Hits(says, around) : \A j \in Hits(says, around) : i <= j]

\* The approved worlds that cover a capability.
Matching(approved, capability) == {w \in Worlds : capability \in approved[w].covers}

\* Worlds are listed in the order of the manifest.
Manifest == SetToSeq(Worlds)
First(worlds) ==
  Manifest[CHOOSE i \in DOMAIN Manifest : Manifest[i] \in worlds /\ \A j \in 1 .. i - 1 : Manifest[j] \notin worlds]

MiningAssumption ==
  /\ IsFiniteSet(Worlds) /\ Guards \subseteq Worlds /\ Guards # {}
  /\ Covered \in [Worlds -> SUBSET ToSet(Taxonomy)] /\ Covers \subseteq SUBSET ToSet(Taxonomy)
  /\ MaxTargets \in Nat /\ MaxVerifications \in Nat /\ MaxRevisions \in Nat
ASSUME MiningAssumption

-----------------------------------------------------------------------------
(* Sessions, the ledger and the reviewer of worlds.                        *)

MiningInit ==
  /\ world = [w \in Worlds |-> [hash |-> 0, covers |-> Covered[w]]]
  /\ verification = [s \in Sessions |-> NoGap] /\ gaps = 0
  /\ ledger = <<>> /\ cases = <<>>

\* A verification replaces the one before.
Verify(s, evidence, says) ==
  /\ gaps < MaxVerifications
  /\ gaps' = gaps + 1
  /\ verification' = [verification EXCEPT ![s] = [id |-> gaps + 1, evidence |-> evidence, says |-> says]]
  /\ UNCHANGED <<world, ledger, cases>>

\* append_gaps: one row for an evidence and a session.
Record(s) ==
  /\ verification[s] # NoGap
  /\ ~ \E i \in DOMAIN ledger : ledger[i].session = s /\ ledger[i].key = Key(verification[s])
  /\ ledger' = Append(ledger, [session |-> s, key |-> Key(verification[s]),
                               says |-> verification[s].says, status |-> "OPEN"])
  /\ UNCHANGED <<world, verification, gaps, cases>>

\* Sessions take up, close and reopen rows; GapLedger says when.
Settle(i, status) ==
  /\ ledger[i].status # status /\ ledger' = [ledger EXCEPT ![i].status = status]
  /\ UNCHANGED <<world, verification, gaps, cases>>

\* A reviewer changes a world and its hash in the manifest.
Revise(w, covers) ==
  /\ world[w].hash < MaxRevisions
  /\ world' = [world EXCEPT ![w] = [hash |-> @.hash + 1, covers |-> covers]]
  /\ UNCHANGED <<verification, gaps, ledger, cases>>

\* mine_session and _persist_case: a case of this occurrence that is stored stays as it
\* is. An error skips the mining: then this step is not taken.
Mine(s, around) ==
  LET gap == verification[s]
      occurrence == <<s, gap.id>>
      capability == Classify(gap.says, around)
      mapped == Matching(world, capability) IN
    /\ gap # NoGap /\ occurrence \notin DOMAIN cases
    /\ cases' = [o \in DOMAIN cases \cup {occurrence} |->
                   IF o # occurrence THEN cases[o]
                   ELSE [key |-> Key(gap), capability |-> capability, worlds |-> mapped,
                         hashes |-> [w \in mapped |-> world[w].hash]]]
    /\ UNCHANGED <<world, verification, gaps, ledger>>

-----------------------------------------------------------------------------
(* select_worlds_for_open_gaps.                                            *)

\* The index of the cases has one entry for a session and an evidence; of several cases
\* the one whose file name comes last, and the names are hashes.
Indexes(known) ==
  LET keys == {<<o[1], known[o].key>> : o \in DOMAIN known} IN
    {f \in [keys -> DOMAIN known] : \A k \in keys : f[k][1] = k[1] /\ known[f[k]].key = k[2]}

\* Mutation: the worlds of a case are taken by their names.
CurrentByName(case, approved) == \A w \in case.worlds : w \in DOMAIN approved

\* A case counts only if every world it maps to is as it was.
Current(case, approved) == \A w \in case.worlds : approved[w].hash = case.hashes[w]

\* A row without a case is classified by its own text.
Candidates(row, known, index, approved) ==
  LET k == <<row.session, row.key>> IN
    IF k \notin DOMAIN index THEN Matching(approved, Classify(row.says, {}))
    ELSE IF Current(known[index[k]], approved) THEN known[index[k]].worlds ELSE {}

Trigger(row, index) ==
  LET k == <<row.session, row.key>> IN IF k \in DOMAIN index THEN index[k] ELSE <<row.session, NoGap.id>>

\* Of each row the first candidate that is no target yet...
Choose(chosen, row, known, index, approved) ==
  LET free == Candidates(row, known, index, approved) \ {chosen[i].world : i \in DOMAIN chosen} IN
    IF row.status # "OPEN" \/ free = {} \/ Len(chosen) = MaxTargets THEN chosen
    ELSE Append(chosen, [world |-> First(free), row |-> row, trigger |-> Trigger(row, index)])

\* ... row by row.
Selections(rows, known, index, approved) ==
  LET after[n \in 0 .. Len(rows)] ==
        IF n = 0 THEN <<>> ELSE Choose(after[n - 1], rows[n], known, index, approved)
  IN after

Select(rows, known, index, approved) == Selections(rows, known, index, approved)[Len(rows)]
=============================================================================
