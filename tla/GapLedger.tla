------------------------------ MODULE GapLedger ------------------------------
(***************************************************************************)
(* The gap ledger of coordinator/gap_seed.py: reports/gap_ledger.jsonl, one *)
(* file that the processes of all sessions read, edit in memory and write   *)
(* back.  A session records the gaps of its verification, plants gap tasks  *)
(* from OPEN rows before its first dispatch, and resolves the rows it       *)
(* planted after each verification.  The lock of the module is a thread     *)
(* lock: it orders nothing between processes.                               *)
(***************************************************************************)
EXTENDS Integers, Sequences, FiniteSets

CONSTANTS
  Sessions,
  Keys,         \* evidence keys of gaps: evidence_key (of a gap that names no evidence it
                \* is a fresh id, so that one question has another key at each verification)
  Capability,   \* classify_capability, a function on Keys
  Blocking,     \* the keys whose gaps are of a kind in _STILL_OPEN_GAP_KINDS
  GapSets,      \* the sets of gaps a verification may come to
  MaxGapSeeds,  \* MAX_GAP_SEED_TASKS
  MaxResumes,   \* bound: resumes
  MaxReruns,    \* bound: resumes, beyond the kills, in a history side by side
  MaxCrashes    \* bound: kills, of any process

\* CAPABILITY_PROFILE and _PLANT_ORDER.
Profile == [crowding |-> "flow", unwind_crash |-> "momentum",
            engine_freshness |-> "momentum", source_quality |-> "technicals"]
Rank == [crowding |-> 1, unwind_crash |-> 2, engine_freshness |-> 3, source_quality |-> 4]

None == "none"

ASSUME GapAssumption ==
  /\ None \notin Sessions
  /\ IsFiniteSet(Keys) /\ Capability \in [Keys -> DOMAIN Profile]
  /\ Blocking \subseteq Keys /\ GapSets \subseteq SUBSET Keys
  /\ MaxGapSeeds \in Nat /\ MaxResumes \in Nat /\ MaxReruns \in Nat /\ MaxCrashes \in Nat

VARIABLES
  \* Files.
  rows,          \* gap_ledger.jsonl, in file order
  tmp,           \* gap_ledger.jsonl.tmp, a sequence of row sequences: <<>> if absent
  board,         \* board[s]: the gap tasks of session s
  gaps,          \* gaps[s]: the keys of the gaps in verification.json
  filed,         \* sessions that have a verification.json
  begun,         \* sessions that have a directory
  followed,      \* sessions that have had their follow-up round
  \* The process of each session.
  pc, mem,       \* where it is; the rows it has in memory
  after,         \* where write_rows returns to
  todo,          \* chosen rows still to be planted
  verdicts,      \* verdicts[s]: of its gap tasks, in the verification in memory
  \* Bounds.
  resumes, crashes,
  alone          \* in this history processes run one at a time

files  == <<rows, tmp, board, gaps, filed, begun, followed>>
bounds == <<resumes, crashes, alone>>
vars   == <<files, pc, mem, after, todo, verdicts, bounds>>

Row == [key : Keys, source : Sessions, status : {"OPEN", "CONSUMED", "CLOSED"},
        by : Sessions \cup {None}, task : Nat]

GapTask == [key : Keys, source : Sessions, done : BOOLEAN]

\* The verdicts on the findings of a task, as far as they matter: one of them is
\* REJECTED or UNCHECKED (or a gap of a blocking kind names the task), all are VERIFIED
\* or WEAK, there is none.
Verdict == {"bad", "good", "none"}

Active == {s \in Sessions : pc[s] # "idle"}

Init ==
  /\ rows = <<>> /\ tmp = <<>>
  /\ board = [s \in Sessions |-> <<>>] /\ gaps = [s \in Sessions |-> {}]
  /\ filed = {} /\ begun = {} /\ followed = {}
  /\ pc = [s \in Sessions |-> "idle"] /\ mem = [s \in Sessions |-> <<>>]
  /\ after = [s \in Sessions |-> "idle"] /\ todo = [s \in Sessions |-> {}]
  /\ verdicts = [s \in Sessions |-> <<>>]
  /\ resumes = 0 /\ crashes = 0 /\ alone \in BOOLEAN

Goto(s, next) == pc' = [pc EXCEPT ![s] = next]

\* The process of s ends: its memory is gone.
End(s) ==
  /\ Goto(s, "idle")
  /\ mem' = [mem EXCEPT ![s] = <<>>] /\ after' = [after EXCEPT ![s] = "idle"]
  /\ todo' = [todo EXCEPT ![s] = {}] /\ verdicts' = [verdicts EXCEPT ![s] = <<>>]

-----------------------------------------------------------------------------
(* A process starts.                                                       *)

\* run seeds after it has planned.
Begin(s) ==
  /\ s \notin begun /\ (alone => Active = {})
  /\ begun' = begun \cup {s}
  /\ Goto(s, "record")
  /\ UNCHANGED <<rows, tmp, board, gaps, filed, followed, mem, after, todo, verdicts, bounds>>

\* Mutation: it seeds without looking at the board.
ResumeReseeds(s) ==
  /\ s \in begun /\ pc[s] = "idle" /\ (alone => Active = {})
  /\ resumes < MaxResumes /\ (alone \/ resumes < crashes + MaxReruns) /\ resumes' = resumes + 1
  /\ Goto(s, "record")
  /\ UNCHANGED <<files, mem, after, todo, verdicts, crashes, alone>>

\* resume. With work left it seeds, if the board has no gap task, and dispatches. Where
\* every task has ended it verifies only if there is no verification on file or the
\* follow-up is not in it; else it reuses the file, and records and resolves nothing.
Resume(s) ==
  /\ s \in begun /\ pc[s] = "idle" /\ (alone => Active = {})
  /\ resumes < MaxResumes /\ (alone \/ resumes < crashes + MaxReruns) /\ resumes' = resumes + 1
  /\ \/ board[s] = <<>> /\ Goto(s, "record")
     \/ board[s] # <<>> /\ Goto(s, "work")
     \/ /\ \A t \in DOMAIN board[s] : board[s][t].done
        /\ \/ (s \notin filed \/ s \in followed) /\ Goto(s, "verify")
           \/ s \in filed /\ Goto(s, "reused")
  /\ UNCHANGED <<files, mem, after, todo, verdicts, crashes, alone>>

-----------------------------------------------------------------------------
(* write_rows: the temporary file is shared by everybody.                  *)

\* Either there is something to write, and then to go on, or there is not.
WriteThen(s, new, next) ==
  IF new # rows
  THEN /\ mem' = [mem EXCEPT ![s] = new] /\ after' = [after EXCEPT ![s] = next]
       /\ Goto(s, "write")
  ELSE UNCHANGED <<mem, after>> /\ Goto(s, next)

Write(s) ==
  /\ pc[s] = "write"
  /\ tmp' = <<mem[s]>>
  /\ Goto(s, "replace")
  /\ UNCHANGED <<rows, board, gaps, filed, begun, followed, mem, after, todo, verdicts, bounds>>

Replace(s) ==
  /\ pc[s] = "replace" /\ tmp # <<>>
  /\ rows' = Head(tmp) /\ tmp' = <<>>
  /\ Goto(s, after[s])
  /\ mem' = [mem EXCEPT ![s] = <<>>] /\ after' = [after EXCEPT ![s] = "idle"]
  /\ UNCHANGED <<board, gaps, filed, begun, followed, todo, verdicts, bounds>>

\* Another process has moved the temporary file away: FileNotFoundError.
ReplaceFails(s) ==
  /\ pc[s] = "replace" /\ tmp = <<>>
  /\ End(s)
  /\ UNCHANGED <<files, bounds>>

-----------------------------------------------------------------------------
(* append_gaps.                                                            *)

\* Mutations: only OPEN rows count; rows of every session count.
KnownOpen(s) ==
  {rows[i].key : i \in {j \in DOMAIN rows : rows[j].source = s /\ rows[j].status = "OPEN"}}
KnownAnywhere(s) == {rows[i].key : i \in DOMAIN rows}

Known(s) == {rows[i].key : i \in {j \in DOMAIN rows : rows[j].source = s}}

Orders(S) == {q \in [1 .. Cardinality(S) -> S] :
               \A i, j \in 1 .. Cardinality(S) : i # j => q[i] # q[j]}

NewRow(k, s) == [key |-> k, source |-> s, status |-> "OPEN", by |-> None, task |-> 0]

\* A gap is new if this session has no row for its evidence, of whatever status.
AppendGaps(s, next) ==
  \E q \in Orders(gaps[s] \ Known(s)) :
    WriteThen(s, rows \o [i \in DOMAIN q |-> NewRow(q[i], s)], next)

\* seed_from_ledger first records the gaps of the verification on file, if any.
Record(s) ==
  /\ pc[s] = "record"
  /\ AppendGaps(s, "seed")
  /\ UNCHANGED <<files, todo, verdicts, bounds>>

-----------------------------------------------------------------------------
(* seed_open_gaps.                                                         *)

OpenRows(c) == {i \in DOMAIN rows : rows[i].status = "OPEN" /\ Capability[rows[i].key] = c}

\* The capabilities with an open row whose profile no earlier one has taken.
Candidates ==
  {c \in DOMAIN Profile :
    /\ OpenRows(c) # {}
    /\ \A d \in DOMAIN Profile :
         Rank[d] < Rank[c] /\ Profile[d] = Profile[c] => OpenRows(d) = {}}

\* The first open row of each of the first MaxGapSeeds candidates.
Selected ==
  LET Taken == {c \in Candidates :
                 Cardinality({d \in Candidates : Rank[d] < Rank[c]}) < MaxGapSeeds}
  IN {i \in DOMAIN rows : \E c \in Taken :
        i \in OpenRows(c) /\ \A j \in OpenRows(c) : i <= j}

Seed(s) ==
  /\ pc[s] = "seed"
  /\ todo' = [todo EXCEPT ![s] = Selected]
  /\ mem' = [mem EXCEPT ![s] = rows]
  /\ Goto(s, IF Selected = {} THEN "work" ELSE "plant")
  /\ UNCHANGED <<files, after, verdicts, bounds>>

\* Mutation: the task numbers start at zero.
PlantedFromZero(s, row) ==
  [row EXCEPT !.status = "CONSUMED", !.by = s, !.task = Len(board[s])]

Planted(s, row) ==
  [row EXCEPT !.status = "CONSUMED", !.by = s, !.task = Len(board[s]) + 1]

\* board.add_task saves the board; the row is marked in memory only.
Plant(s, i) ==
  /\ pc[s] = "plant" /\ i \in todo[s]
  /\ \A j \in todo[s] : Rank[Capability[mem[s][i].key]] <= Rank[Capability[mem[s][j].key]]
  /\ board' = [board EXCEPT ![s] = Append(@,
                 [key |-> mem[s][i].key, source |-> mem[s][i].source, done |-> FALSE])]
  /\ mem' = [mem EXCEPT ![s][i] = Planted(s, @)]
  /\ todo' = [todo EXCEPT ![s] = @ \ {i}]
  /\ IF todo[s] = {i} THEN Goto(s, "write") /\ after' = [after EXCEPT ![s] = "work"]
                      ELSE UNCHANGED <<pc, after>>
  /\ UNCHANGED <<rows, tmp, gaps, filed, begun, followed, verdicts, bounds>>

-----------------------------------------------------------------------------
(* The session's work and its verification.                                *)

\* Gap tasks are run with all the others, and may fail.
Work(s, completed) ==
  /\ pc[s] = "work" /\ completed \subseteq DOMAIN board[s]
  /\ board' = [board EXCEPT ![s] =
                 [t \in DOMAIN board[s] |->
                   [board[s][t] EXCEPT !.done = @ \/ t \in completed]]]
  /\ mem' = [mem EXCEPT ![s] = <<>>]
  /\ Goto(s, "verify")
  /\ UNCHANGED <<rows, tmp, gaps, filed, begun, followed, after, todo, verdicts, bounds>>

\* verification.json is written; only completed tasks have verdicts.
Verify(s, found, judged) ==
  /\ pc[s] = "verify"
  /\ \A t \in DOMAIN board[s] : ~ board[s][t].done => judged[t] = "none"
  /\ gaps' = [gaps EXCEPT ![s] = found] /\ filed' = filed \cup {s}
  /\ verdicts' = [verdicts EXCEPT ![s] = judged]
  /\ Goto(s, "append")
  /\ UNCHANGED <<rows, tmp, board, begun, followed, mem, after, todo, bounds>>

RecordVerified(s) ==
  /\ pc[s] = "append"
  /\ AppendGaps(s, "resolve")
  /\ UNCHANGED <<files, todo, verdicts, bounds>>

\* Mutation: an unfinished task may close its gap.
StillOpenIfRun(s, row) ==
  \/ row.key \in gaps[s] \cap Blocking
  \/ verdicts[s][row.task] = "bad"
  \/ verdicts[s][row.task] = "none" /\ Capability[row.key] # "engine_freshness"

\* planted_gap_still_open.
StillOpen(s, row) ==
  \/ ~ board[s][row.task].done
  \/ row.key \in gaps[s] \cap Blocking
  \/ verdicts[s][row.task] = "bad"
  \/ verdicts[s][row.task] = "none" /\ Capability[row.key] # "engine_freshness"

\* resolve_consumed_gaps: the rows this session was the last to plant.
Resolved(s, row) ==
  IF row.by # s THEN row
  ELSE [row EXCEPT !.status = IF StillOpen(s, row) THEN "OPEN" ELSE "CLOSED"]

Resolve(s) ==
  /\ pc[s] = "resolve"
  /\ WriteThen(s, [i \in DOMAIN rows |-> Resolved(s, rows[i])], "verified")
  /\ verdicts' = [verdicts EXCEPT ![s] = <<>>]
  /\ UNCHANGED <<files, todo, bounds>>

\* A session has at most one follow-up round; it is verified again.
FollowUp(s) ==
  /\ pc[s] \in {"verified", "reused"} /\ s \notin followed
  /\ followed' = followed \cup {s}
  /\ Goto(s, "work")
  /\ UNCHANGED <<rows, tmp, board, gaps, filed, begun, mem, after, todo, verdicts, bounds>>

Finish(s) ==
  /\ pc[s] \in {"verified", "reused"}
  /\ End(s)
  /\ UNCHANGED <<files, bounds>>

\* The process is killed, or ends with an exception.
Crash(s) ==
  /\ pc[s] # "idle"
  /\ crashes < MaxCrashes /\ crashes' = crashes + 1
  /\ End(s)
  /\ UNCHANGED <<files, resumes, alone>>

-----------------------------------------------------------------------------

Step(s) ==
  \/ Begin(s) \/ Resume(s) \/ Write(s) \/ Replace(s) \/ ReplaceFails(s)
  \/ Record(s) \/ Seed(s) \/ RecordVerified(s) \/ Resolve(s)
  \/ \E i \in todo[s] : Plant(s, i)
  \/ \E completed \in SUBSET (DOMAIN board[s]) : Work(s, completed)
  \/ \E found \in GapSets, judged \in [DOMAIN board[s] -> Verdict] :
       Verify(s, found, judged)
  \/ FollowUp(s) \/ Finish(s) \/ Crash(s)

Next == \E s \in Sessions : Step(s)

Spec == Init /\ [][Next]_vars

-----------------------------------------------------------------------------
(* Correctness.                                                            *)

PC == {"idle", "record", "seed", "plant", "work", "verify", "append", "resolve",
       "verified", "reused", "write", "replace"}

\* Type invariant.
TypeOK ==
  /\ rows \in Seq(Row)
  /\ tmp = <<>> \/ (Len(tmp) = 1 /\ tmp[1] \in Seq(Row))
  /\ board \in [Sessions -> Seq(GapTask)] /\ gaps \in [Sessions -> SUBSET Keys]
  /\ begun \subseteq Sessions /\ followed \subseteq begun /\ filed \subseteq begun
  /\ pc \in [Sessions -> PC] /\ after \in [Sessions -> PC]
  /\ mem \in [Sessions -> Seq(Row)] /\ todo \in [Sessions -> SUBSET Nat]
  /\ verdicts \in [Sessions -> Seq(Verdict)]
  /\ resumes \in 0 .. MaxResumes /\ crashes \in 0 .. MaxCrashes /\ alone \in BOOLEAN

\* Recording is idempotent within a session: however often it is resumed and
\* verified, one key has one row. (A question without evidence comes with a new key at
\* each verification, and gets a row each time.)
OccurrencesAreUnique ==
  \A i, j \in DOMAIN rows :
    rows[i].key = rows[j].key /\ rows[i].source = rows[j].source => i = j

\* A row is claimed by at most one session, for a task on that session's board,
\* and no task is planted for two rows.
ClaimsAreBacked ==
  /\ \A i \in DOMAIN rows : rows[i].by # None =>
       /\ rows[i].task \in DOMAIN board[rows[i].by]
       /\ board[rows[i].by][rows[i].task].key = rows[i].key
       /\ board[rows[i].by][rows[i].task].source = rows[i].source
  /\ \A i, j \in DOMAIN rows :
       rows[i].by # None /\ rows[i].by = rows[j].by /\ rows[i].task = rows[j].task => i = j

\* Over its whole life a session has at most MaxGapSeeds gap tasks, each for a
\* profile of its own, although it may be killed while it plants them.
PlantsAreBounded ==
  \A s \in Sessions :
    /\ Len(board[s]) <= MaxGapSeeds
    /\ \A t, u \in DOMAIN board[s] :
         Profile[Capability[board[s][t].key]] = Profile[Capability[board[s][u].key]] => t = u

\* A row is closed only by the process of the session that planted it last, after
\* that session's task for it was completed, and it leaves CONSUMED or CLOSED only
\* by that session's hand, as long as sessions do not run side by side. Nothing is said
\* of rows that become CONSUMED: any session may plant an OPEN row.
ClosedByItsPlanter ==
  [][ \A i \in DOMAIN rows :
        alone /\ rows'[i].status # rows[i].status /\ rows'[i].status # "CONSUMED" =>
          /\ rows[i].by # None /\ pc[rows[i].by] = "replace"
          /\ rows'[i].by = rows[i].by
          /\ rows'[i].status = "CLOSED" => board[rows[i].by][rows[i].task].done ]_vars

\* "A recurrence earns its own OPEN row": a process that has verified and come past the
\* recording has a row for each of its gaps, whatever rows earlier sessions closed; and
\* as long as nothing was killed so has a session that is over or reuses its
\* verification. (Of sessions that record side by side one may drop the rows of the
\* other, and after a kill between the filing and the recording a process that reuses
\* the verification never records its gaps: see README.md.)
RecurrencesAreRecorded ==
  alone =>
    \A s \in Sessions :
      pc[s] \in {"resolve", "verified"} \/ (pc[s] \in {"idle", "reused"} /\ crashes = 0) =>
        \A k \in gaps[s] : \E i \in DOMAIN rows : rows[i].key = k /\ rows[i].source = s

=============================================================================
