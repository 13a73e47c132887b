----------------------------- MODULE SessionCases -----------------------------
(***************************************************************************)
(* eval/session_cases.py: a finished session is imported as pending        *)
(* evaluation cases, one for each gap of its verification, with the        *)
(* recorded observations a later replay may be answered from.              *)
(*                                                                         *)
(* The session here is one task: its sub-agent may fail or be killed and   *)
(* run again by a resume, its verification is rewritten by each resume,    *)
(* and its directory may be imported after any of these steps, again and   *)
(* again. Several gaps of one verification differ in their id only.        *)
(***************************************************************************)
EXTENDS Naturals, Sequences, SequencesExt, FiniteSets

CONSTANTS
  Calls,        \* calls (tool and arguments) of tools that can be replayed
  Claims,       \* what an observation may show
  Readings,     \* what a verifier may read: sequences of its traces
  Observed,     \* the answers a sub-agent may get: call, what it shows, traced and intact
  MaxCalls,     \* calls of one run of the sub-agent
  MaxRuns,      \* runs of the task, over all resumes
  MaxVerifications

VARIABLES
  task,         \* task_board.json: the task's status and its count of calls
  traces,       \* traces.jsonl, append only
  damaged,      \* files of the directory that are missing or half written
  verification, \* verification.json: its gap, the traces that refers to and copies
  cases,        \* reports/eval_cases: the stored case of each gap
  ran           \* runs of the task so far

sessionVars == <<task, traces, damaged, verification, ran>>

\* A gap is named by the verification that found it: ids are drawn anew each time.
NoGap == 0

\* Sessions older than the policy store have no snapshot of a policy.
CasesInit ==
  /\ task = [status |-> "PENDING", calls |-> 0] /\ traces = <<>>
  /\ damaged \in {{}, {"policy"}}
  /\ verification = [gap |-> NoGap, traces |-> <<>>]
  /\ cases = <<>> /\ ran = 0

-----------------------------------------------------------------------------
(* The session: what its processes leave in the directory.                 *)

\* A run of the sub-agent counts all its calls on the board; record_trace knows four
\* tools, and of other calls (the shell, a tool that does not exist) nothing is kept.
Runs == BoundedSeq(Observed, MaxCalls)
Traced(run) == SelectSeq(run, LAMBDA t : t.traced)
Counted(run) == IF run = <<>> THEN task.calls ELSE Len(run)

\* The sub-agent finishes: traces are appended and the task is COMPLETED.
Completes(run) ==
  /\ task.status = "PENDING" /\ ran < MaxRuns
  /\ task' = [status |-> "COMPLETED", calls |-> Len(run)]
  /\ traces' = traces \o Traced(run) /\ ran' = ran + 1
  /\ UNCHANGED <<damaged, verification, cases>>

\* It fails, or its process is killed, and a resume makes the task pending again. The
\* calls stay counted; a timeout of a tool or a cancellation saves the traces, another
\* exception or a kill loses them.
Fails(run, saved) ==
  /\ task.status = "PENDING" /\ ran < MaxRuns
  /\ task' = [task EXCEPT !.calls = Counted(run)]
  /\ traces' = IF saved THEN traces \o Traced(run) ELSE traces
  /\ ran' = ran + 1
  /\ UNCHANGED <<damaged, verification, cases>>

\* A verification appends what the verifier has read and files a gap of its own with
\* copies of all traces; a resume that ran another task verifies again.
Verifies(read) ==
  /\ task.status = "COMPLETED" /\ damaged \subseteq {"policy"} /\ verification.gap < MaxVerifications
  /\ traces' = traces \o read
  /\ verification' = [gap |-> verification.gap + 1, traces |-> traces']
  /\ UNCHANGED <<task, damaged, cases, ran>>

\* A later process is killed: while it saves the board, or while it appends what its
\* verifier has read.
Interrupted(read, torn) ==
  /\ verification.gap # NoGap /\ damaged \subseteq {"policy"} /\ Len(traces) = Len(verification.traces)
  /\ torn = {"board"} => read = <<>>
  /\ traces' = traces \o read /\ damaged' = damaged \cup torn
  /\ UNCHANGED <<task, verification, cases, ran>>

-----------------------------------------------------------------------------
(* import_session_cases.                                                   *)

\* The gap refers to the traces of its task and of the verifier that were on file.
Referred == verification.traces
TaskTraces(seq) == SelectSeq(seq, LAMBDA t : t.by = "task")

Replayable(t) == t.call \in Calls /\ t.whole

\* replay_blockers: a file is missing or invalid, a trace that is referred to cannot be
\* replayed, the board has counted other calls than there are traces of the task, a
\* trace of the task is not referred to, or nothing is left to replay.
Blocked ==
  \/ damaged # {}
  \/ \E t \in ToSet(Referred) : ~ Replayable(t)
  \/ task.calls # Len(TaskTraces(traces))
  \/ Len(TaskTraces(traces)) # Len(TaskTraces(Referred))
  \/ TaskTraces(Referred) = <<>>

\* A case holds the observations of its task and the hashes of the files it is from.
\* An unreadable board has no task, so nothing is the task's own.
Case ==
  [gap |-> verification.gap, replayable |-> ~ Blocked,
   traces |-> IF "board" \in damaged THEN <<>> ELSE TaskTraces(Referred),
   hashes |-> <<task, traces, damaged>>]

\* Importing again writes the same path anew.
Import ==
  /\ verification.gap # NoGap
  /\ cases' = [g \in DOMAIN cases \cup {verification.gap} |-> IF g = verification.gap THEN Case ELSE cases[g]]
  /\ UNCHANGED sessionVars
=============================================================================
