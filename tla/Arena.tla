------------------------------- MODULE Arena -------------------------------
(***************************************************************************)
(* run_world of eval/research_arena.py: one frozen world is planned,        *)
(* researched, reviewed, perhaps researched again, and verified by a model  *)
(* that is paid from one set of budgets.  Every stage is a run of           *)
(* react_loop_detailed; its clock (module ReactLoop) is left out here: a    *)
(* stage may be cut off wherever it awaits.                                *)
(***************************************************************************)
EXTENDS Integers, Sequences, FiniteSets, Tasks

CONSTANTS
  AllowedTools,     \* the registry of a stage with a profile
  Others,           \* names outside of it
  MaxTurns, MaxRequests, MaxTokens, MaxToolCalls, MaxRepairs,   \* ArenaControls
  Reservations,     \* what a request may reserve
  MaxCalls,         \* bound: tool calls of one response
  MaxFailures       \* bound: writes that fail

ASSUME ArenaAssumption ==
  /\ MaxTurns \in Nat \ {0} /\ MaxRequests \in Nat \ {0} /\ MaxTokens \in Nat /\ MaxToolCalls \in Nat \ {0}
  /\ MaxRepairs \in {0, 1} /\ Reservations \subseteq Nat \ {0}
  /\ AllowedTools \cap Others = {} /\ MaxCalls \in Nat /\ MaxFailures \in Nat

Investigations == {1, 2}

VARIABLES
  stage,     \* "planning", "research", "repair", "review", "verifier", "closing", "done"
  index,     \* of the investigation
  pc,        \* in the loop of the stage: "request", "response", "tools", "answer"
  turn, calls,
  requests, reserved, toolCalls, repairs,   \* what was spent
  executed,  \* ghost: the calls the adapter has answered
  traces,    \* the stages whose calls were recorded, in order
  board,     \* the task of each investigation, in memory
  disk,      \* the same in task_board.json, which is written in place
  active,    \* active_task
  reports,   \* the investigations whose report is grounded
  saved,     \* those whose report is on disk
  verified,  \* the reports the verification on file is about
  status,    \* completion_status
  outcome,   \* of run_world: "returned", "raised"
  filed,     \* run.json is written
  failures

loop == <<pc, turn, calls>>
spent == <<requests, reserved, toolCalls, repairs>>
seen == <<executed, traces>>
results == <<board, disk, active, reports, saved, verified>>
ended == <<status, outcome, filed>>
vars == <<stage, index, loop, spent, seen, results, ended, failures>>

NoTask == 0
Torn == [i \in Investigations |-> "torn"]

Init ==
  /\ stage = "planning" /\ index = 0
  /\ pc = "request" /\ turn = 0 /\ calls = <<>>
  /\ requests = 0 /\ reserved = 0 /\ toolCalls = 0 /\ repairs = 0
  /\ executed = 0 /\ traces = <<>>
  /\ board = [i \in Investigations |-> "none"] /\ disk = board /\ active = NoTask
  /\ reports = {} /\ saved = {} /\ verified = {}
  /\ status = "failed" /\ outcome = "running" /\ filed = FALSE /\ failures = 0

\* The tools of a stage: only research and the verifier have a profile.
Registry == IF stage \in {"research", "verifier"} THEN AllowedTools ELSE {}

Turns == IF stage = "repair" THEN 1 ELSE MaxTurns

\* The exit of the try statement, with these tasks in memory and on disk, of which this
\* one is active_task: it fails, and the run is filed.  The board refuses to fail a task
\* that is not ACTIVE, and then nothing is saved or filed.  Both writes may fail.
Exit(tasks, task, stored, count, how) ==
  LET fails == task # NoTask /\ <<tasks[task], "BLOCKED">> \in AllowedTransitions
      failed == [tasks EXCEPT ![task] = "BLOCKED"] IN
  /\ stage' = "done" /\ active' = task
  /\ board' = IF fails THEN failed ELSE tasks
  /\ \/ /\ failures' = count
        /\ disk' = IF fails THEN failed ELSE stored
        /\ filed' = (fails \/ task = NoTask)
        /\ outcome' = IF filed' /\ how # "cancelled" THEN "returned" ELSE "raised"
     \/ /\ count < MaxFailures /\ failures' = count + 1
        /\ disk' \in IF fails THEN {stored, Torn, failed} ELSE {stored}
        /\ filed' = FALSE /\ outcome' = "raised"
  /\ UNCHANGED <<index, loop, verified, status>>

\* Mutation: only an exception of the program fails the task.
Cuts(how) ==
  IF how = "cancelled"
  THEN /\ stage' = "done" /\ outcome' = "raised" /\ filed' = TRUE
       /\ UNCHANGED <<index, loop, results, status, failures>>
  ELSE Exit(board, active, disk, failures, how) /\ UNCHANGED <<reports, saved>>

\* An exception, the deadline of the run or a cancellation.
Ends(how) == Exit(board, active, disk, failures, how) /\ UNCHANGED <<reports, saved>>

Fails == Ends("exception")

-----------------------------------------------------------------------------
(* The loop of a stage, with the bounded client.                           *)

\* _BoundedClient.create, before the request leaves.
Request(tokens) ==
  /\ stage \notin {"closing", "done"} /\ pc = "request" /\ turn < Turns
  /\ IF requests >= MaxRequests \/ reserved + tokens > MaxTokens
     THEN Fails /\ UNCHANGED spent
     ELSE /\ requests' = requests + 1 /\ reserved' = reserved + tokens
          /\ pc' = "response"
          /\ UNCHANGED <<stage, index, turn, calls, toolCalls, repairs, results, ended, failures>>
  /\ UNCHANGED seen

\* Only tool calls in the last turn.
OutOfTurns ==
  /\ stage # "done" /\ pc = "request" /\ turn = Turns
  /\ Fails
  /\ UNCHANGED <<spent, seen>>

\* The provider fails, its usage is missing or above the reservation, the answer is
\* cut off or empty, the time is over, the caller cancels.
ResponseFails ==
  /\ pc = "response" /\ stage # "done"
  /\ Fails \/ Ends("cancelled")
  /\ UNCHANGED <<spent, seen>>

Response(names) ==
  /\ pc = "response" /\ stage # "done"
  /\ calls' = names /\ pc' = (IF names = <<>> THEN "answer" ELSE "tools")
  /\ UNCHANGED <<stage, index, turn, spent, seen, results, ended, failures>>

\* Mutation: the tool's own check is all there is.
ToolCallUnchecked ==
  /\ pc = "tools" /\ stage # "done" /\ calls # <<>>
  /\ LET name == Head(calls)
         runs == name \in Registry /\ toolCalls < MaxToolCalls IN
       /\ executed' = IF runs THEN executed + 1 ELSE executed
       /\ toolCalls' = toolCalls + 1
       /\ traces' = Append(traces, <<stage, index>>) /\ calls' = Tail(calls)
       /\ UNCHANGED <<stage, index, pc, turn, results, ended>>
  /\ UNCHANGED <<requests, reserved, repairs, failures>>

\* A call: frozen_tool refuses over budget, record then refuses the run.
ToolCall ==
  /\ pc = "tools" /\ stage # "done" /\ calls # <<>>
  /\ LET name == Head(calls)
         runs == name \in Registry /\ toolCalls < MaxToolCalls IN
       /\ executed' = IF runs THEN executed + 1 ELSE executed
       /\ toolCalls' = toolCalls + 1
       /\ IF name \notin Registry \/ toolCalls' > MaxToolCalls
          THEN Fails /\ UNCHANGED traces
          ELSE /\ traces' = Append(traces, <<stage, index>>) /\ calls' = Tail(calls)
               /\ UNCHANGED <<stage, index, pc, turn, results, ended, failures>>
  /\ UNCHANGED <<requests, reserved, repairs>>

\* The time of the tool or of the run is over, the caller cancels: the adapter may
\* have answered what nobody records.
ToolCut ==
  /\ pc = "tools" /\ stage # "done" /\ calls # <<>> /\ Head(calls) \in Registry
  /\ toolCalls < MaxToolCalls
  /\ executed' \in {executed, executed + 1}
  /\ Fails \/ Ends("cancelled")
  /\ UNCHANGED <<spent, traces>>

NextTurn ==
  /\ pc = "tools" /\ stage # "done" /\ calls = <<>>
  /\ turn' = turn + 1 /\ pc' = "request"
  /\ UNCHANGED <<stage, index, calls, spent, seen, results, ended, failures>>

-----------------------------------------------------------------------------
(* What run_world makes of the answers.                                    *)

Enters(next) == stage' = next /\ pc' = "request" /\ turn' = 0 /\ calls' = <<>>

\* add_task and activate.
Assigns(i) ==
  /\ Enters("research") /\ index' = i
  /\ board' = [board EXCEPT ![i] = "ACTIVE"] /\ disk' = board' /\ active' = i
  /\ UNCHANGED <<reports, saved, verified, ended>>

AnswerRejected ==
  /\ pc = "answer" /\ stage # "done"
  /\ Fails
  /\ UNCHANGED <<spent, seen>>

Planned ==
  /\ pc = "answer" /\ stage = "planning"
  /\ Assigns(1)
  /\ UNCHANGED <<spent, seen, failures>>

\* Only enumerated fields are wrong, and the run has not been repaired before.
Repairs ==
  /\ pc = "answer" /\ stage = "research" /\ repairs < MaxRepairs
  /\ repairs' = repairs + 1
  /\ Enters("repair")
  /\ UNCHANGED <<index, requests, reserved, toolCalls, seen, results, ended, failures>>

\* The report is bound, grounded in the traces of its task, persisted; the task is
\* complete.
Reported ==
  /\ pc = "answer" /\ stage \in {"research", "repair"}
  /\ reports' = reports \cup {index} /\ saved' = saved \cup {index}
  /\ board' = [board EXCEPT ![index] = "COMPLETED"] /\ disk' = board' /\ active' = NoTask
  /\ Enters(IF index = 2 THEN "verifier" ELSE "review")
  /\ UNCHANGED <<index, spent, seen, verified, ended, failures>>

\* Mutation: a review without a replan closes the run.
ReviewedCloses(replan) ==
  /\ pc = "answer" /\ stage = "review"
  /\ IF replan THEN Assigns(2)
     ELSE Enters("closing") /\ UNCHANGED <<index, results, ended>>
  /\ UNCHANGED <<spent, seen, failures>>

Reviewed(replan) ==
  /\ pc = "answer" /\ stage = "review"
  /\ IF replan THEN Assigns(2) ELSE Enters("verifier") /\ UNCHANGED <<index, results, ended>>
  /\ UNCHANGED <<spent, seen, failures>>

\* Audit, merge and ledger of all reports.
Verified ==
  /\ pc = "answer" /\ stage = "verifier"
  /\ verified' = reports
  /\ Enters("closing")
  /\ UNCHANGED <<index, spent, seen, board, disk, active, reports, saved, ended, failures>>

\* One model has answered and the world is what it was, or the run has failed; the run
\* may be complete and not be filed.
Closes ==
  /\ stage = "closing"
  /\ \/ /\ stage' = "done" /\ status' = "complete"
        /\ \/ outcome' = "returned" /\ filed' = TRUE /\ UNCHANGED failures
           \/ outcome' = "raised" /\ filed' = FALSE /\ failures < MaxFailures /\ failures' = failures + 1
        /\ UNCHANGED <<index, loop, results>>
     \/ Fails
  /\ UNCHANGED <<spent, seen>>

\* A write fails in the middle of a step; the board in memory has changed already.
Broken(tasks, task, stored) ==
  failures < MaxFailures /\ Exit(tasks, task, stored, failures + 1, "exception")

AssignsTo == IF stage = "planning" THEN 1 ELSE 2

WriteFails ==
  /\ pc = "answer"
  /\ \/ \* add_task; activate
        /\ stage \in {"planning", "review"}
        /\ LET added == [board EXCEPT ![AssignsTo] = "PENDING"]
               activated == [board EXCEPT ![AssignsTo] = "ACTIVE"] IN
             \/ \E stored \in {disk, Torn} : Broken(added, NoTask, stored)
             \/ \E stored \in {added, Torn} : Broken(activated, AssignsTo, stored)
        /\ UNCHANGED <<reports, saved>>
     \/ \* persist_research_report; complete or record_usage
        /\ stage \in {"research", "repair"} /\ reports' = reports \cup {index}
        /\ LET completed == [board EXCEPT ![index] = "COMPLETED"] IN
             \/ Broken(board, index, disk) /\ UNCHANGED saved
             \/ \E stored \in {disk, completed, Torn} : Broken(completed, index, stored) /\ saved' = saved \cup {index}
     \/ \* persist_verification_report
        /\ stage = "verifier" /\ Broken(board, NoTask, disk) /\ UNCHANGED <<reports, saved>>
  /\ UNCHANGED <<spent, seen>>

CallSequences == UNION {[1 .. n -> AllowedTools \cup Others] : n \in 0 .. MaxCalls}

Next ==
  \/ \E tokens \in Reservations : Request(tokens)
  \/ OutOfTurns \/ ResponseFails \/ (\E names \in CallSequences : Response(names))
  \/ ToolCall \/ ToolCut \/ NextTurn
  \/ AnswerRejected \/ Planned \/ Repairs \/ Reported \/ (\E replan \in BOOLEAN : Reviewed(replan))
  \/ Verified \/ Closes \/ WriteFails

Spec == Init /\ [][Next]_vars

-----------------------------------------------------------------------------
(* Correctness.                                                            *)

\* Type invariant.
TypeOK ==
  /\ stage \in {"planning", "research", "repair", "review", "verifier", "closing", "done"}
  /\ index \in {0} \cup Investigations /\ pc \in {"request", "response", "tools", "answer"}
  /\ turn \in 0 .. MaxTurns /\ calls \in Seq(AllowedTools \cup Others)
  /\ requests \in 0 .. MaxRequests /\ reserved \in 0 .. MaxTokens
  /\ toolCalls \in 0 .. MaxToolCalls + 1 /\ repairs \in 0 .. MaxRepairs
  /\ executed \in 0 .. MaxToolCalls /\ traces \in Seq({"research", "verifier"} \X Investigations)
  /\ board \in [Investigations -> Status \cup {"none"}]
  /\ disk \in [Investigations -> Status \cup {"none"}] \cup {Torn} /\ active \in {NoTask} \cup Investigations
  /\ reports \subseteq Investigations /\ saved \subseteq reports /\ verified \subseteq reports
  /\ status \in {"complete", "failed"} /\ outcome \in {"running", "returned", "raised"} /\ filed \in BOOLEAN
  /\ failures \in 0 .. MaxFailures

\* Whatever a complete run observed is on record: every call its tools answered, in
\* any stage, has a trace, and its budgets hold.
CompleteRunsAreRecorded ==
  status = "complete" =>
    Len(traces) = executed /\ toolCalls = executed /\ executed <= MaxToolCalls

\* A complete run was verified at its end, over the reports of all the tasks that its
\* board on disk names, and these are COMPLETED there.
CompleteRunsAreVerified ==
  status = "complete" =>
    /\ verified = reports /\ saved = reports
    /\ reports = {i \in Investigations : disk[i] # "none"}
    /\ \A i \in reports : disk[i] = "COMPLETED"

\* A run that is on record, however it ended, has no ACTIVE task in its task_board.json:
\* what the file still calls ACTIVE belongs to a run that has no run.json.
NoTaskIsLeftActive == filed => \A i \in Investigations : disk[i] # "ACTIVE"

=============================================================================
