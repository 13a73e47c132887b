------------------------------- MODULE Session -------------------------------
(***************************************************************************)
(* One research session: the coordinator process of                        *)
(* coordinator/coordinator.py, the TaskBoard it saves after every mutation *)
(* (coordinator/task_board.py), the sub-agents it dispatches, and the      *)
(* session directory that outlives the process.  A session is started by   *)
(* `run` (team) or `run_single`, may be killed between any two writes or   *)
(* in the middle of one, and is continued by `resume`.                     *)
(*                                                                         *)
(* Task ids are positions on the board, which is the insertion order of    *)
(* TaskBoard._tasks.  Every mutation of the board is saved before the lock *)
(* is released, so one variable stands for the board in memory and for the *)
(* content of task_board.json while that file is readable.                 *)
(***************************************************************************)
EXTENDS Naturals, Sequences, FiniteSets, Tasks

CONSTANTS
  MaxSubAgents,   \* --max-sub-agents: plan size and semaphore of dispatch_all
  MaxFollowUps,   \* MAX_FOLLOWUP_TASKS
  MaxGapSeeds,    \* MAX_GAP_SEED_TASKS
  MaxResumes,     \* bound: how often the session may be resumed
  MaxCrashes,     \* bound: how often a process may be killed
  Tearable        \* the files a kill may leave half written

ASSUME SessionAssumption ==
  /\ MaxSubAgents \in Nat \ {0}
  /\ MaxFollowUps \in Nat
  /\ MaxGapSeeds \in Nat
  /\ MaxResumes \in Nat
  /\ MaxCrashes \in Nat
  /\ Tearable \subseteq {"board", "report", "traces", "verification", "synthesis"}

VARIABLES
  \* The session directory: survives the process.
  file,           \* task_board.json: "absent", "readable" or "torn"
  board,          \* the tasks, in the order they were added
  reports,        \* tasks with an intact sub_reports/<id>_<profile>.json
  evident,        \* of those, the ones whose report has findings
  traces,         \* traces.jsonl: "clean", "mock" (mock or V_D-fail engine) or "torn"
  verification,   \* verification.json
  synthesis,      \* synthesis.md and synthesis.json
  \* The process: lost when it ends.
  pc,             \* where the coordinator is
  wave,           \* which dispatch_all: "first", "replan" or "followup"
  ran,            \* ran_dispatch of resume; TRUE throughout run
  requeueing,     \* the requeue argument of _dispatch_wave
  toAdd,          \* tasks of the current plan still to be added
  queued,         \* sub-agents waiting for the semaphore
  running,        \* sub-agents holding it
  returned,       \* sub-agents whose result waits for gather
  raised,         \* sub-agents whose exception waits for gather
  \* Bounds.
  resumes,
  crashes

dirVars  == <<file, board, reports, evident, traces, verification, synthesis>>
procVars == <<pc, wave, ran, requeueing, toAdd, queued, running, returned, raised>>
vars     == <<dirVars, procVars, resumes, crashes>>

-----------------------------------------------------------------------------
(* The board.                                                              *)

\* `allowed`: the profile is one of RESEARCH_PROFILES.
Task == [kind : Kind, allowed : BOOLEAN, status : Status]

Having(S) == {t \in DOMAIN board : board[t].status \in S}
OfKind(k) == {t \in DOMAIN board : board[t].kind = k}
Pending    == Having({"PENDING"})
Completed  == Having({"COMPLETED"})
\* Mutation: a resume overlooks the tasks that were running when it was killed.
UnfinishedButActive == Having({"PENDING", "BLOCKED"})

Unfinished == Having({"PENDING", "BLOCKED", "ACTIVE"})

AddTask(kind, allowed) ==
  board' = Append(board, [kind |-> kind, allowed |-> allowed, status |-> "PENDING"])

Transition(t, new) ==
  /\ <<board[t].status, new>> \in AllowedTransitions
  /\ board' = [board EXCEPT ![t].status = new]

IsFirst(t, S) == t \in S /\ \A u \in S : t <= u
Least(m, n) == IF m <= n THEN m ELSE n

-----------------------------------------------------------------------------
(* The other files.  `given` is the set of reports the verifier was shown, *)
(* which the file does not store; `covered` are the tasks some verdict     *)
(* names and `flagged` the ones with a REJECTED or UNCHECKED verdict.      *)

FileState == {"absent", "saved", "torn"}
NoVerification == [file |-> "absent", given |-> {}, covered |-> {}, flagged |-> {}]

\* `over`: the reports the saved synthesis.json was written from.
NoSynthesis == [md |-> FALSE, json |-> "absent", over |-> {}]

SynthesisExists == synthesis.md \/ synthesis.json # "absent"

\* Mutation: a resume trusts any verification it finds on disk.
TrustOldVerification == FALSE

\* resume: a completed follow-up task no verdict names.
FollowupNeedsReverify ==
  ~ (OfKind("followup") \cap Completed \subseteq verification.covered)

-----------------------------------------------------------------------------
(* Process control.  A step either moves the coordinator on, leaving the   *)
(* sub-agents alone, or moves a sub-agent.                                 *)

agentVars == <<queued, running, returned, raised>>
flowVars  == <<wave, ran, requeueing, toAdd>>
evidenceVars == <<reports, evident, traces>>
boundVars == <<resumes, crashes>>

Idle == queued = {} /\ running = {} /\ returned = {} /\ raised = {}

\* The process ends: it returns, raises or is killed.
End(how) ==
  /\ pc' = how
  /\ wave' = "first" /\ ran' = FALSE /\ requeueing' = FALSE /\ toAdd' = 0
  /\ queued' = {} /\ running' = {} /\ returned' = {} /\ raised' = {}

\* Mutation: the slice of the plan is one task too long.
AddPlannedOneMore(kind, allowed, here, next) ==
  /\ pc = here
  /\ AddTask(kind, allowed)
  /\ toAdd' = toAdd - 1
  /\ pc' = IF toAdd = 0 THEN next ELSE here
  /\ UNCHANGED <<file, evidenceVars, verification, synthesis, wave, ran,
                 requeueing, agentVars, boundVars>>

\* One of the `toAdd` planned tasks is added and saved; the last one leads on.
AddPlanned(kind, allowed, here, next) ==
  /\ pc = here
  /\ AddTask(kind, allowed)
  /\ toAdd' = toAdd - 1
  /\ pc' = IF toAdd = 1 THEN next ELSE here
  /\ UNCHANGED <<file, evidenceVars, verification, synthesis, wave, ran,
                 requeueing, agentVars, boundVars>>

Init ==
  /\ file = "absent" /\ board = <<>> /\ reports = {} /\ evident = {}
  /\ traces = "clean" /\ verification = NoVerification /\ synthesis = NoSynthesis
  /\ pc = "new" /\ wave = "first" /\ ran = FALSE /\ requeueing = FALSE /\ toAdd = 0
  /\ queued = {} /\ running = {} /\ returned = {} /\ raised = {}
  /\ resumes = 0 /\ crashes = 0

-----------------------------------------------------------------------------
(* Coordinator.run and Coordinator.resume up to the first dispatch.        *)

Run ==
  /\ pc = "new"
  /\ file' = "readable"
  /\ pc' = "decompose" /\ ran' = TRUE
  /\ UNCHANGED <<board, evidenceVars, verification, synthesis, wave, requeueing,
                 toAdd, agentVars, boundVars>>

Resume ==
  /\ pc \in {"down", "delivered"} /\ file = "readable"
  /\ resumes < MaxResumes /\ resumes' = resumes + 1
  /\ ran' = (Unfinished # {} \/ board = <<>>)
  /\ requeueing' = (Unfinished # {})
  /\ pc' = CASE Unfinished # {} /\ OfKind("gap") = {} -> "seed"
             [] Unfinished # {} /\ OfKind("gap") # {} -> "requeue"
             [] Unfinished = {} /\ board = <<>>       -> "decompose"
             [] Unfinished = {} /\ board # <<>>       -> "reload"
  /\ UNCHANGED <<dirVars, wave, toAdd, agentVars, crashes>>

\* The plan of the decomposition, cut to MaxSubAgents tasks.
Decompose(n) ==
  /\ pc = "decompose"
  /\ toAdd' = n
  /\ pc' = IF n = 0 THEN "seed" ELSE "plan"
  /\ UNCHANGED <<dirVars, wave, ran, requeueing, agentVars, boundVars>>

AddResearch(allowed) == AddPlanned("research", allowed, "plan", "seed")

AfterSeed == IF requeueing THEN "requeue" ELSE "reject"

\* record_gaps reads verification.json; seed_open_gaps plants only once.
SeedFromLedger(n) ==
  /\ pc = "seed" /\ verification.file # "torn"
  /\ OfKind("gap") # {} => n = 0
  /\ toAdd' = n
  /\ pc' = IF n = 0 THEN AfterSeed ELSE "plant"
  /\ UNCHANGED <<dirVars, wave, ran, requeueing, agentVars, boundVars>>

PlantGap == AddPlanned("gap", TRUE, "plant", AfterSeed)

Requeue ==
  /\ pc = "requeue"
  /\ board' = [t \in DOMAIN board |->
                [board[t] EXCEPT !.status = RequeuedStatus(board[t].status)]]
  /\ pc' = "reject"
  /\ UNCHANGED <<file, evidenceVars, verification, synthesis, flowVars,
                 agentVars, boundVars>>

-----------------------------------------------------------------------------
(* dispatch_all and SubAgent.run.                                          *)

\* Mutation: the follow-up round is not verified again.
AfterDispatchUnverified ==
  CASE wave = "first"    -> "replan"
    [] wave = "replan"   -> "reload"
    [] wave = "followup" -> "synthesize"

AfterDispatch ==
  CASE wave = "first"    -> "replan"
    [] wave = "replan"   -> "reload"
    [] wave = "followup" -> "verify"

Rejected == {t \in Pending : ~ board[t].allowed}

RejectProfile(t) ==
  /\ pc = "reject" /\ IsFirst(t, Rejected)
  /\ Transition(t, "CANCELLED")
  /\ UNCHANGED <<file, evidenceVars, verification, synthesis, procVars, boundVars>>

Dispatch ==
  /\ pc = "reject" /\ Rejected = {}
  /\ queued' = Pending
  /\ pc' = IF Pending = {} THEN AfterDispatch ELSE "gather"
  /\ UNCHANGED <<dirVars, flowVars, running, returned, raised, boundVars>>

\* asyncio.Semaphore is first come, first served.
Activate(t) ==
  /\ pc = "gather"
  /\ IsFirst(t, queued)
  /\ Cardinality(running) < MaxSubAgents
  /\ Transition(t, "ACTIVE")
  /\ queued' = queued \ {t} /\ running' = running \cup {t}
  /\ UNCHANGED <<file, evidenceVars, verification, synthesis, pc, flowVars,
                 returned, raised, boundVars>>

\* traces.jsonl is append-only, and a torn line stays in it.
AppendTraces(mock) == traces' = IF mock /\ traces = "clean" THEN "mock" ELSE traces

\* Mutation: only a report with findings is worth a file.
AgentReturnsUnsaved(t, findings, mock) ==
  /\ t \in running
  /\ reports' = IF findings THEN reports \cup {t} ELSE reports
  /\ evident' = IF findings THEN evident \cup {t} ELSE evident \ {t}
  /\ AppendTraces(mock)
  /\ running' = running \ {t} /\ returned' = returned \cup {t}
  /\ UNCHANGED <<file, board, verification, synthesis, pc, flowVars, queued,
                 raised, boundVars>>

\* The report is persisted and the traces are appended before run returns.
AgentReturns(t, findings, mock) ==
  /\ t \in running
  /\ reports' = reports \cup {t}
  /\ evident' = IF findings THEN evident \cup {t} ELSE evident \ {t}
  /\ AppendTraces(mock)
  /\ running' = running \ {t} /\ returned' = returned \cup {t}
  /\ UNCHANGED <<file, board, verification, synthesis, pc, flowVars, queued,
                 raised, boundVars>>

\* AgentRuntimeError and the like: the traces are kept, no report is written.
AgentRaises(t, mock) ==
  /\ t \in running
  /\ AppendTraces(mock)
  /\ running' = running \ {t} /\ raised' = raised \cup {t}
  /\ UNCHANGED <<file, board, reports, evident, verification, synthesis, pc,
                 flowVars, queued, returned, boundVars>>

\* Mutation: what gather returned is booked as a result, exceptions included.
BookAll(t) ==
  /\ pc = "gather" /\ queued = {} /\ running = {}
  /\ IsFirst(t, returned \cup raised)
  /\ Transition(t, "COMPLETED")
  /\ returned' = returned \ {t} /\ raised' = raised \ {t}
  /\ UNCHANGED <<file, evidenceVars, verification, synthesis, pc, flowVars,
                 queued, running, boundVars>>

\* Mutation: the coordinator waits for the result of a sub-agent that raised.
BookResults(t) ==
  /\ pc = "gather" /\ queued = {} /\ running = {}
  /\ IsFirst(t, returned)
  /\ Transition(t, "COMPLETED")
  /\ returned' = returned \ {t}
  /\ UNCHANGED <<file, evidenceVars, verification, synthesis, pc, flowVars,
                 queued, running, raised, boundVars>>

\* After gather, the results are booked one by one in dispatch order.
Book(t) ==
  /\ pc = "gather" /\ queued = {} /\ running = {}
  /\ IsFirst(t, returned \cup raised)
  /\ Transition(t, IF t \in returned THEN "COMPLETED" ELSE "BLOCKED")
  /\ returned' = returned \ {t} /\ raised' = raised \ {t}
  /\ UNCHANGED <<file, evidenceVars, verification, synthesis, pc, flowVars,
                 queued, running, boundVars>>

DispatchDone ==
  /\ pc = "gather" /\ Idle
  /\ pc' = AfterDispatch
  /\ UNCHANGED <<dirVars, flowVars, agentVars, boundVars>>

\* Mutation: blocked work asks for a replan each time.
ShouldReplanAgain == Having({"BLOCKED"}) # {} \/ traces = "mock"

\* should_replan looks at the board first and reads traces.jsonl only then.
ShouldReplan == OfKind("replan") = {} /\ (Having({"BLOCKED"}) # {} \/ traces = "mock")
ReplanRaises == OfKind("replan") = {} /\ Having({"BLOCKED"}) = {} /\ traces = "torn"

MaybeReplan ==
  /\ pc = "replan" /\ ~ ReplanRaises
  /\ IF ShouldReplan
     THEN AddTask("replan", TRUE) /\ wave' = "replan" /\ pc' = "reject"
     ELSE UNCHANGED <<board, wave>> /\ pc' = "reload"
  /\ UNCHANGED <<file, evidenceVars, verification, synthesis, ran, requeueing,
                 toAdd, agentVars, boundVars>>

-----------------------------------------------------------------------------
(* Verification, follow-up and synthesis.                                  *)

\* The verdicts on the reports in `given`: a report without findings gets none.
Verdicts(given, flagged) ==
  [file |-> "saved", given |-> given, covered |-> given \cap evident,
   flagged |-> flagged]

\* resume reads verification.json after its dispatch, and reuses it when nothing
\* was dispatched.  run goes straight to verify: nothing is on file yet.
Reload ==
  /\ pc = "reload" /\ verification.file # "torn"
  /\ pc' = IF ran \/ verification.file = "absent" \/ FollowupNeedsReverify
           THEN "verify" ELSE "finish"
  /\ UNCHANGED <<dirVars, flowVars, agentVars, boundVars>>

\* The verifier uses tools, and leaves traces, only if there are findings.
Verify(flagged, mock) ==
  /\ pc = "verify" /\ traces # "torn"
  /\ flagged \subseteq Completed \cap reports \cap evident
  /\ mock => Completed \cap reports \cap evident # {}
  /\ verification' = Verdicts(Completed \cap reports, flagged)
  /\ AppendTraces(mock)
  /\ pc' = IF wave = "followup" THEN "synthesize" ELSE "finish"
  /\ UNCHANGED <<file, board, reports, evident, synthesis, flowVars, agentVars,
                 boundVars>>

\* session_complete: the saved synthesis is returned as the answer.
ReturnSaved ==
  /\ pc = "finish" /\ ~ ran /\ SynthesisExists /\ synthesis.json = "saved"
  /\ End("delivered")
  /\ UNCHANGED <<dirVars, boundVars>>

FollowUpTasks == Least(Least(MaxFollowUps, MaxSubAgents), Cardinality(verification.flagged))

FollowUp ==
  /\ pc = "finish" /\ (ran \/ ~ SynthesisExists)
  /\ IF OfKind("followup") = {} /\ FollowUpTasks > 0
     THEN toAdd' = FollowUpTasks /\ wave' = "followup" /\ pc' = "repair"
     ELSE UNCHANGED <<toAdd, wave>> /\ pc' = "synthesize"
  /\ UNCHANGED <<dirVars, ran, requeueing, agentVars, boundVars>>

AddFollowUp == AddPlanned("followup", TRUE, "repair", "reject")

\* synthesis.md is written before synthesis.json.
Synthesize ==
  /\ pc = "synthesize"
  /\ synthesis' = [synthesis EXCEPT !.md = TRUE]
  /\ pc' = "render"
  /\ UNCHANGED <<file, board, evidenceVars, verification, flowVars, agentVars,
                 boundVars>>

Deliver ==
  /\ pc = "render"
  /\ synthesis' = [md |-> TRUE, json |-> "saved", over |-> Completed \cap reports]
  /\ End("delivered")
  /\ UNCHANGED <<file, board, evidenceVars, verification, boundVars>>

\* An exception nobody catches ends the process: the model's two tries failed,
\* or a half-written file does not parse.
Raise ==
  /\ \/ pc \in {"decompose", "synthesize"}
     \/ pc \in {"seed", "reload"} /\ verification.file = "torn"
     \/ pc = "replan" /\ ReplanRaises
     \/ pc = "verify" /\ traces = "torn"
     \/ pc = "finish" /\ ~ ran /\ SynthesisExists /\ synthesis.json # "saved"
  /\ End("down")
  /\ UNCHANGED <<dirVars, boundVars>>

-----------------------------------------------------------------------------
(* run_single: one task, verified before it is marked completed.           *)

RunSingle ==
  /\ pc = "new"
  /\ file' = "readable" /\ AddTask("research", TRUE)
  /\ pc' = "single_start"
  /\ UNCHANGED <<evidenceVars, verification, synthesis, flowVars, agentVars, boundVars>>

SingleActivate ==
  /\ pc = "single_start"
  /\ Transition(1, "ACTIVE")
  /\ running' = {1} /\ pc' = "single_run"
  /\ UNCHANGED <<file, evidenceVars, verification, synthesis, flowVars, queued,
                 returned, raised, boundVars>>

SingleVerify(flagged, mock) ==
  /\ pc = "single_run" /\ returned # {}
  /\ flagged \subseteq returned \cap evident
  /\ mock => returned \cap evident # {}
  /\ verification' = Verdicts(returned, flagged)
  /\ AppendTraces(mock)
  /\ pc' = "single_answer"
  /\ UNCHANGED <<file, board, reports, evident, synthesis, flowVars, agentVars,
                 boundVars>>

SingleComplete ==
  /\ pc = "single_answer"
  /\ Transition(1, "COMPLETED")
  /\ End("delivered")
  /\ UNCHANGED <<file, evidenceVars, verification, synthesis, boundVars>>

SingleFails ==
  /\ pc = "single_answer" \/ (pc = "single_run" /\ returned \cup raised # {})
  /\ Transition(1, "BLOCKED")
  /\ End("down")
  /\ UNCHANGED <<file, evidenceVars, verification, synthesis, boundVars>>

-----------------------------------------------------------------------------
(* The process is killed: between two writes, or inside one that is not    *)
(* atomic (save_json, save_text and append_traces write in place).         *)

Killed ==
  /\ pc \notin {"new", "down", "delivered"}
  /\ crashes < MaxCrashes /\ crashes' = crashes + 1
  /\ End("down")
  /\ UNCHANGED <<board, resumes>>

Crash == Killed /\ UNCHANGED <<file, evidenceVars, verification, synthesis>>

VerifierRuns == pc = "verify" \/ (pc = "single_run" /\ returned # {})

BoardWriters == {"plan", "plant", "requeue", "reject", "gather", "replan", "repair",
                 "single_start", "single_run", "single_answer"}

TearBoard ==
  /\ "board" \in Tearable /\ pc \in BoardWriters
  /\ Killed
  /\ file' = "torn"
  /\ UNCHANGED <<evidenceVars, verification, synthesis>>

TearReport(t) ==
  /\ "report" \in Tearable /\ t \in running
  /\ Killed
  /\ reports' = reports \ {t} /\ evident' = evident \ {t}
  /\ UNCHANGED <<file, traces, verification, synthesis>>

\* The sub-agent's report, if any, was persisted just before.
TearTraces ==
  /\ "traces" \in Tearable
  /\ Killed
  /\ traces' = "torn"
  /\ \/ \E t \in running :
          /\ reports' \in {reports, reports \cup {t}}
          /\ evident' \in {evident, evident \cup {t}, evident \ {t}}
          /\ evident' \subseteq reports'
     \/ /\ VerifierRuns
        /\ UNCHANGED <<reports, evident>>
  /\ UNCHANGED <<file, verification, synthesis>>

TearVerification ==
  /\ "verification" \in Tearable /\ VerifierRuns
  /\ Killed
  /\ verification' = [NoVerification EXCEPT !.file = "torn"]
  /\ UNCHANGED <<file, evidenceVars, synthesis>>

TearSynthesis ==
  /\ "synthesis" \in Tearable /\ pc = "render"
  /\ Killed
  /\ synthesis' = [NoSynthesis EXCEPT !.md = TRUE, !.json = "torn"]
  /\ UNCHANGED <<file, evidenceVars, verification>>

-----------------------------------------------------------------------------

CoordinatorStep ==
  \/ \E n \in 0 .. MaxSubAgents : Decompose(n)
  \/ \E allowed \in BOOLEAN : AddResearch(allowed)
  \/ \E n \in 0 .. MaxGapSeeds : SeedFromLedger(n)
  \/ PlantGap \/ Requeue \/ Dispatch \/ DispatchDone \/ MaybeReplan
  \/ \E t \in DOMAIN board : RejectProfile(t) \/ Activate(t) \/ Book(t)
  \/ Reload
  \/ \E flagged \in SUBSET evident, mock \in BOOLEAN :
       Verify(flagged, mock) \/ SingleVerify(flagged, mock)
  \/ ReturnSaved \/ FollowUp \/ AddFollowUp \/ Synthesize \/ Deliver \/ Raise
  \/ SingleActivate \/ SingleComplete \/ SingleFails

AgentStep(t) ==
  \/ \E findings, mock \in BOOLEAN : AgentReturns(t, findings, mock)
  \/ \E mock \in BOOLEAN : AgentRaises(t, mock)

CrashStep ==
  \/ Crash \/ TearBoard \/ TearTraces \/ TearVerification \/ TearSynthesis
  \/ \E t \in running : TearReport(t)

Next ==
  \/ Run \/ RunSingle \/ Resume
  \/ CoordinatorStep
  \/ \E t \in running : AgentStep(t)
  \/ CrashStep

Spec == Init /\ [][Next]_vars

\* A process that was started is scheduled until it ends; a sub-agent's loop is
\* bounded by turns and by a deadline.  Nobody is obliged to start or resume.
FairSpec == Spec /\ WF_vars(CoordinatorStep) /\ WF_vars(\E t \in running : AgentStep(t))

-----------------------------------------------------------------------------
(* Correctness.                                                            *)

PC == {"new", "down", "delivered", "decompose", "plan", "seed", "plant", "requeue",
       "reject", "gather", "replan", "reload", "verify", "finish", "repair",
       "synthesize", "render", "single_start", "single_run", "single_answer"}

\* Type invariant.
TypeOK ==
  /\ file \in {"absent", "readable", "torn"}
  /\ board \in Seq(Task)
  /\ reports \subseteq DOMAIN board /\ evident \subseteq reports
  /\ traces \in {"clean", "mock", "torn"}
  /\ verification \in [file : FileState, given : SUBSET DOMAIN board,
                       covered : SUBSET DOMAIN board, flagged : SUBSET DOMAIN board]
  /\ synthesis \in [md : BOOLEAN, json : FileState, over : SUBSET DOMAIN board]
  /\ pc \in PC /\ wave \in {"first", "replan", "followup"}
  /\ ran \in BOOLEAN /\ requeueing \in BOOLEAN /\ toAdd \in Nat
  /\ queued \subseteq DOMAIN board /\ running \subseteq DOMAIN board
  /\ returned \subseteq DOMAIN board /\ raised \subseteq DOMAIN board
  /\ resumes \in 0 .. MaxResumes /\ crashes \in 0 .. MaxCrashes

\* A task is COMPLETED only while its report is intact on disk, whatever write a
\* kill cut short: SubAgent.run persists before dispatch_all books the task, and
\* the report a kill can damage belongs to a task that is not COMPLETED.
CompletedHasReport == Completed \subseteq reports

\* The orchestration bounds hold over the whole life of a session, not per
\* process: however often it is killed and resumed, at most one replan task, one
\* bounded follow-up round, MaxGapSeeds planted gaps and MaxSubAgents research tasks.
OrchestrationBounds ==
  /\ Cardinality(OfKind("research")) <= MaxSubAgents
  /\ Cardinality(OfKind("gap")) <= MaxGapSeeds
  /\ Cardinality(OfKind("replan")) <= 1
  /\ Cardinality(OfKind("followup")) <= Least(MaxFollowUps, MaxSubAgents)

\* A task whose profile is not a research profile is never given to a sub-agent,
\* on any of the paths that lead to a dispatch.
OnlyResearchProfilesRun ==
  \A t \in DOMAIN board : ~ board[t].allowed => board[t].status \in {"PENDING", "CANCELLED"}

\* During a dispatch every ACTIVE task belongs to a sub-agent of this process (a
\* resumed process inherits none), and the semaphore bounds the ones that run.
ActiveTasksAreOwned ==
  pc = "gather" => /\ Having({"ACTIVE"}) = running \cup returned \cup raised
                   /\ Cardinality(running) <= MaxSubAgents

\* A process that dispatched work synthesizes only over reports the verifier was
\* shown after that work: no later wave slips in between verify and synthesize.
DispatchedWorkIsVerified ==
  pc \in {"synthesize", "render"} /\ ran => Completed \subseteq verification.given

\* Evidence of the follow-up round always has verdicts before a synthesis, even
\* when the process was killed between that round and its verification.
FollowUpsAreVerified ==
  pc \in {"synthesize", "render"} =>
    OfKind("followup") \cap Completed \cap evident \subseteq verification.covered

\* An answer is delivered only when nothing is left to run: every task is
\* COMPLETED, CANCELLED or BLOCKED.
DeliveredIsSettled ==
  pc = "delivered" => Having({"PENDING", "ACTIVE"}) = {}

\* A COMPLETED task is final: no resume runs it again and nothing rewrites or
\* damages its report.
CompletedIsFinal ==
  [][\A t \in Completed : /\ board'[t] = board[t]
                          /\ t \in reports <=> t \in reports'
                          /\ t \in evident <=> t \in evident']_vars

\* A process that was started ends: it delivers, raises or is killed.
ProcessEnds == pc \notin {"new", "down", "delivered"} ~> pc \in {"down", "delivered"}

\* The session directory behaves as TaskLifecycle promises its readers.
Lifecycle == INSTANCE TaskLifecycle
  WITH statuses <- [t \in DOMAIN board |-> board[t].status], reported <- reports
ImplementsLifecycle == Lifecycle!Spec

-----------------------------------------------------------------------------
(* The inductive invariant behind the safety properties (SessionProofs).   *)

Working == running \cup returned \cup raised

\* Sub-agents exist during a dispatch only, each on a task of its own; one whose
\* result waits for gather has left its report.
AgentsHoldTasks ==
  /\ queued \cap Working = {} /\ running \cap (returned \cup raised) = {}
  /\ returned \cap raised = {}
  /\ returned \subseteq reports
  /\ pc \notin {"gather", "single_run", "single_answer"} => Idle
  /\ queued # {} => pc = "gather"

\* A session starts with an empty board; run_single has one task and one agent.
SingleHasOneTask ==
  /\ pc = "new" => board = <<>>
  /\ pc \in {"single_start", "single_run", "single_answer"} =>
       Len(board) = 1 /\ board[1].allowed
  /\ pc = "single_run" => Working = {1}
  /\ pc = "single_answer" => returned = {1} /\ running = {} /\ raised = {}

\* A plan being written has a task left to add; only a resume requeues.
PlansAreOpen ==
  /\ pc \in {"plan", "plant", "repair"} => toAdd > 0
  /\ pc \in {"new", "down", "delivered", "decompose", "plan"} => ~ requeueing

\* Until a resume requeues, ACTIVE tasks of a killed process are on the board; at
\* any other time of a process they are the tasks its sub-agents hold.
ActiveMeansWorking ==
  \/ pc \in {"new", "down", "delivered"}
  \/ requeueing /\ pc \in {"seed", "plant", "requeue"}
  \/ Having({"ACTIVE"}) = Working

\* A dispatch takes everything that is pending, research profiles only, and
\* leaves nothing pending behind.
DispatchTakesAll ==
  /\ pc = "gather" => queued = Pending /\ Rejected = {}
  /\ pc \in {"replan", "reload", "verify", "finish", "synthesize", "render",
             "delivered"} => Pending = {}

SemaphoreHolds == pc = "gather" => Cardinality(running) <= MaxSubAgents

\* A plan being written fits into its bound together with what it has added so far;
\* only an empty board is decomposed.
PlansFit ==
  /\ pc = "decompose" => board = <<>>
  /\ pc = "plan" => Cardinality(OfKind("research")) + toAdd <= MaxSubAgents
  /\ pc = "plant" => Cardinality(OfKind("gap")) + toAdd <= MaxGapSeeds
  /\ pc = "repair" => Cardinality(OfKind("followup")) + toAdd <= Least(MaxFollowUps, MaxSubAgents)

\* From the verification on, or from its reuse, until the answer is written.
AnswersAreVerified ==
  pc \in {"finish", "synthesize", "render"} =>
    /\ ran => Completed \subseteq verification.given
    /\ OfKind("followup") \cap Completed \cap evident \subseteq verification.covered

\* Preserved by every step from a state in which IInv holds.
LifeInv == OrchestrationBounds /\ PlansFit /\ AnswersAreVerified

\* Holds initially and is preserved by every step.
IInv ==
  /\ TypeOK /\ AgentsHoldTasks /\ SingleHasOneTask /\ PlansAreOpen
  /\ ActiveMeansWorking /\ DispatchTakesAll /\ SemaphoreHolds
  /\ CompletedHasReport /\ OnlyResearchProfilesRun /\ DeliveredIsSettled

-----------------------------------------------------------------------------
(* What the repository says of a session directory and a kill may break    *)
(* (README.md, "Disagreements").                                           *)

\* README.md, agent loop: reports pass the independent verifier on their way to
\* the team synthesis, so a synthesis never uses findings it was not shown.
SynthesisIsVerified ==
  pc \in {"synthesize", "render"} => Completed \cap evident \subseteq verification.given

=============================================================================
