# Verification of rsi-research-agent

TLA+ specifications of the momentum research agent, the TLC configurations that
model-check them on small instances, and TLAPS proofs about them. Paths are
relative to the repository; `coordinator.py:129` is line 129 of
`src/momentum_research_agent/coordinator/coordinator.py`.

## The system

A command line program answers research questions with language-model agents and
keeps everything it does in a session directory. Around it are an offline loop
that improves the research policies, a comparison of policies on replayed sessions,
and a local control service with a web UI.

| Component | State it keeps | Operations | Hard behaviour | What makes it correct |
|---|---|---|---|---|
| Research session: `Coordinator`, `TaskBoard` (`coordinator/`), `run_single` (`cli.py`) | `task_board.json`, the process's program counter | run, resume, decompose, seed, dispatch, replan, verify, follow up, synthesize | kill and resume between any two writes, half-written files, concurrent sub-agents under a semaphore | a COMPLETED task has its report for ever; the orchestration bounds hold over the session's life; nothing is delivered with work left; findings are verified before they are synthesized |
| Sub-agent and ReAct loop (`agents/sub_agent.py`, `agents/react_loop.py`) | conversation, turn and deadline budget, exhausted tools, pending traces | turn, tool call, finalize, report, fail | deadline against a late answer, reserve for the final turn, a tool that keeps failing | bounded turns and time; what was observed is answered from; traces are kept on every way out |
| Verifier, static audit, evidence ledger (`agents/verifier.py`, `audit.py`, `ledger.py`) | `verification.json`, `traces.jsonl` | audit, merge, compile the ledger, persist | an optimistic, partial or contradictory model answer; a kill between the traces and the report | no verdict is above the audit's; a finding the model left out is not approved; a web claim was read |
| Gap ledger (`coordinator/gap_seed.py`) | `reports/gap_ledger.jsonl`, shared by all sessions | append, plant, resolve | concurrent sessions rewrite one file; kill between planting and rewriting | an occurrence has one row; a claimed row has its task; a row is closed by who planted it |
| Policy store (`state/policies.py`) | content-addressed versions, active pointer, session snapshots | load, write, activate, pin | concurrent first use, promotion during a session, failed writes | the pointer names an approved version; a session keeps its version |
| Policy improver, RSI cycle (`eval/policy_improver.py`, `eval/rsi_cycle.py`) | experiment directory, improvement lock, candidates | run a cycle, evaluate, decide, promote, reject | kill or failed write in the middle of a cycle, stale lock | the report, the files and the pointer agree; a promotion extends the policy it was compared with |
| Arena, scoring, research world (`eval/research_arena.py`, `research_scoring.py`, `research_world.py`) | budgets, board, traces, run record | run a frozen world, score it, compare two runs | budgets that run out anywhere, timeouts, failed writes | a complete run is recorded and verified; a promotion was earned |
| Session cases, replay, live comparison (`eval/session_cases.py`, `replay_runner.py`, `live_compare.py`) | `reports/eval_cases`, one budget of requests | import, load, bind, replay, report | sessions that go on, cases that are imported again, models that change | an improvement was shown on the content its reviewer has read |
| Capability mining (`eval/capability_mining.py`) | `reports/capability_cases`, the manifest of worlds | mine, classify, select targets | ids that are drawn anew, worlds that are revised, rows that are closed | a target stands for an OPEN gap its world covers |
| Control service and manager (`frontend/scripts/control_*.py`) | `state.json`, running child, lock | submit, run, stop, schedule, tick, recover | scheduler and job threads, a child that survives, restart, clock | at most one job, at most one scheduled engine attempt per target, every morning the scheduler is awake for is recorded |
| Artifact sync and watcher (`frontend/scripts/artifact_*.py`, `sync_artifacts.py`) | published snapshot, change signatures | sync, watch | files change while they are read | readers see one coherent snapshot, and while a watcher stays up in the end the latest |
| Tools (`tools/`), briefs, web UI, engine fixtures, scripts | - | - | network, numbers, presentation, recorded data | not modelled, see below |

Interactions. The coordinator calls the sub-agents and the verifier in its own
process (asyncio, one thread) and shares the board with them; sub-agents and
coordinator meet only in `asyncio.gather` and in the files of the session
directory. Sessions meet in the gap ledger and in the policy store; the improvement
cycles meet them there, and read their gaps, cases and verifications. The control
manager starts the command line program as a child process, and the UI reads
what the artifact watcher publishes.

## Modules

| Module | Models | Proofs |
|---|---|---|
| `Tasks` | task kinds, statuses, the table of allowed transitions (`models/schemas.py`) | |
| `TaskLifecycle` | abstract: what a reader of a session directory may rely on | |
| `Session` | the coordinator process, the board, the sub-agents, the session directory | `SessionProofs` |
| `GapLedger` | the ledger file that the processes of all sessions share (`gap_seed.py`) | `GapLedgerProofs` |
| `ReactLoop` | one run of an agent's loop, with a clock (`react_loop.py`) | `ReactLoopProofs` |
| `Verification` | one verification with its kills and retries (`verifier.py`, `audit.py`, `ledger.py`) | `VerificationProofs` |
| `PolicyLineage` | abstract: what a reader of the policy store may rely on | |
| `PolicyCycle` | the policy store, both improvement cycles, pinned sessions | `PolicyProofs` |
| `Arena` | one run of a frozen world (`research_arena.py`), on `Tasks` | `EvaluationProofs` |
| `CapabilityMining`, `CapabilityExperiment` | mining and the choice of targets; on top of it an experiment with its scores and decision | `EvaluationProofs` |
| `SessionCases`, `ReplayComparison` | the import of a session as cases; on top of it the comparison of two policies | `PolicyProofs` |
| `ControlService` | the service, its scheduler, its jobs and their processes | `ControlServiceProofs` |
| `ArtifactSync` | the watcher, and those who write what it publishes | `ArtifactSyncProofs` |

Each has an `MC...` module and a `.cfg` for every run. Properties stand at the end
of the module they are about. A definition whose comment begins with `Mutation:` is
not part of the specification: it is the definition below it with a plausible bug,
which the property named for it in `PROJECT.json` detects.

### Session

`Session` has one program counter for the coordinator process (`pc`), because the
coordinator is one asyncio task, and sets of tasks for what the sub-agents do
(`queued` for the semaphore, `running`, `returned`, `raised`). The variables fall
into the session directory, which survives a kill, and the process, which does
not (`End` resets it). Correspondence:

- `Run`, `Resume`, `RunSingle` are the three ways a process starts. `Resume` is
  guarded by a readable `task_board.json` (`resolve_session_dir`, `TaskBoard.load`)
  and branches as `coordinator.py:131-147` does.
- `Decompose(n)`/`AddResearch`, `SeedFromLedger(n)`/`PlantGap` and
  `FollowUp`/`AddFollowUp` write a plan one saved task at a time; the process can
  be killed after each. The number of tasks the model proposes, the number of
  open ledger rows and the profiles are inputs.
- `RejectProfile`, `Dispatch`, `Activate`, `AgentReturns`, `AgentRaises`, `Book`,
  `DispatchDone` are `dispatch_all` and `SubAgent.run`. The semaphore serves its
  waiters in order; results are booked after `gather`, in dispatch order.
- `MaybeReplan`, `Reload`, `Verify`, `ReturnSaved`, `Synthesize`, `Deliver` are the
  methods of those names; the two writes of `synthesize` are two steps.
- `Crash` and the `Tear...` actions are a kill between two writes, or inside one
  of the writes that are not atomic (`save_json`, `save_text`, `append_traces`).
- `Raise` lists every uncaught exception: the model's two failed tries, and each
  half-written file that does not parse.

The data is abstract: a report is intact or not and has findings or not
(`evident`); a verification is the set of tasks with verdicts and the set with
REJECTED or UNCHECKED ones; `traces` is clean, holds a mock or failed-delivery
engine trace, or has a torn line; a synthesis is the set of reports it was
written from. The ghost field `given` of the verification records which reports
the verifier was shown, which the file itself does not say.

Not in the model: two processes on one session directory at once (nothing in the
code prevents it), `--session-dir` pointing a new run at an old directory, CTRL-C
(`CancelledError`, which ends the process as `Crash` does), a full disk, mining
of capability cases at the end of a session (its errors are caught), and usage
and progress records (they rewrite the board without changing any status).

### GapLedger

`Session` sees of the gap ledger only how many tasks were planted. `GapLedger`
turns this round: of a session it keeps what touches the ledger, for several
sessions at once. `rows` is the file, `tmp` the one temporary file everybody
writes, `mem[s]` the rows the process of `s` has read; between reading and
`Replace` any other process may write, since the module's lock is a thread lock.

- `Begin` and `Resume` start a process and decide whether it seeds
  (`Coordinator.run`, `resume`); `Record`, `Seed`, `Plant` are `seed_from_ledger`:
  each planted task is saved at once, the rows after the last. A `Resume` whose tasks
  have all ended verifies only if there is no verification on file (`filed`) or the
  follow-up round is not in it (`coordinator.py:148-154`); otherwise it is `"reused"`, and
  neither records nor resolves anything.
- `Work` and `Verify` are the rest of the session: which gap tasks completed,
  which gaps the verification has, and what the verdicts on the findings of each
  gap task are, is open. `RecordVerified` and `Resolve` follow every verification;
  a kill may come between `Verify` and `RecordVerified`.
- `Write`, `Replace`, `ReplaceFails` are `write_rows`.

The other tasks of a session, its answer and the contents of its verification are not
here, so the model allows more than the code: a session that has delivered may have its
follow-up round in a later process, one that had its round may verify again or reuse, and
the follow-up wave may complete gap tasks that were BLOCKED. A gap without evidence is drawn
a new identifier at each verification (`ledger.py:128-146`) and so gets a row each time; in the
model it is a new key, and what is said of a key is said of the identifier and not of the question.

`classify_capability` and the kinds of gaps are constants (`Capability`,
`Blocking`): keyword matching on model text decides nothing else. Two writers that
interleave inside the temporary file, and so publish a torn one, are left out; so
are two processes of one session and `--eval`, which appends rows too.

### ReactLoop

`now` counts units of time; every await is given a timeout (`granted`) and returns
at most `Lag` late, since tools that do not await keep the event loop busy. `Request`,
`AnswerEnds`, `AnswerCalls`, `RequestTimesOut`, `RequestRaises` are the model call of
a turn; `Refused`, `ToolAnswers`, `ToolTimesOut`, `ToolTooLate`, `HookRaises` the calls
it asks for; `EndTurn` and `RunsOut` the bookkeeping around them. `CollectionDeadline`
keeps the reserve back, `MustFinalize` spends the last turn or the reserve on an
answer without tools. What is said is not modelled; whether something was observed
is. A tool that uses up its own timeout raises and ends the run, a finalizing one
too; the model has it as `ToolTimesOut`.

### Verification

The findings of the reports, the traces and the model's answer are drawn from sets.
`Static` is the verdict of `static_audit`, `Merged` is `merge_verification` with its conservative
order (`Rank`), `Guarded` the guard on web claims, `Rollup` the overall status, and
`Compile` builds gaps and ledger from the guarded verdicts. `AppendTraces` comes before
the report is filed, so a kill may leave the traces of a verifier whose report nobody
has; a retry reads them again. `answered` is a ghost: the findings the model judged.
`AnswerFails` is what the verifier's own handler knows (`verifier.py:245`) and merges as an empty
answer. Any other exception ends in the coordinator's handler (`coordinator.py:272-289`):
`VerifierRaises` files `Fallback`, the raw audit, with no merge and no guard and at best
`pass_with_caveats`, and loses what the verifier had read. Such a file is marked `crashed`, as
its summary says so. The properties exempt it (`VouchedFor`) from what only a verifier could
have confirmed, and demand that it is no pass.

### PolicyCycle

A version is the sequence of patches that leads to it, as its identifier is a hash
of its content, which contains its parent; who wrote it stands for its time of
creation. Every process (`--rsi-cycle`, `--improve`, a session) has a program counter,
and every write to a temporary file and every rename are steps of their own, because
the temporary file has a fixed name. `LoadActive` is the first use of the store; `Acquire`
the lock file; `Evaluate` and `Decide` stand for the arena and the suites, whose results
are open here; `Seal`, `Activate`, `FinishRsi` and `FinishImprover` are the last writes.
`WriteFails` and `Crash` may come at each of them. `write_artifact` writes in place: of the files of a
seal or of a finish some are new, some old, and the one that was being written may be torn (`Written`,
`Files`, `SealFiles`), and so may the comparison (`CutOff`).

`PolicyLineage` is what this comes to for a reader: a line of patches that only grows, and sessions
that pin a prefix of it, once. Under the refinement mapping `line` is the active policy and `pins` the
snapshots; a store that starts without a pointer (`fresh`) maps to the initial state for ever, since
its first use may point back (see Disagreements).

### Arena

The stages of `run_world`: planning, two investigations, a repair of the report, the
review that may ask for the second one, the verifier, closing. Each is a run of the loop,
whose clock is left out: a stage may be cut off at every await (`ResponseFails`, `ToolCut`).
The four budgets of `_BoundedClient` and of the tool adapter are counted as the code counts
them. `executed` is a ghost: the calls that were answered. `board` is memory and `disk` the file
`task_board.json`, which `_transition` writes in place after the change in memory: a save that fails leaves
the old file, the new one or a torn one (`Torn`). `Exit` is the `finally` of `run_world`: it fails the
active task, unless the board in memory refuses (then nothing is saved), and files `run.json`; either
write may fail.

### CapabilityMining and CapabilityExperiment

A verification replaces the one before and names its gap anew; a case is stored once for
session and gap and points at worlds by their hash; `Revise` changes a world under its
name. The experiment reads worlds, cases and rows in three steps while all this goes on
(`Outside`), chooses targets, runs the active policy and one candidate on every selected
world, scores the runs (`Score`) and decides (`Decide`). A run is what it leaves to be
scored: sources read by research and verifier, findings submitted, which of them the
verifier let pass. `_classify` is a list of rules in their order over sets of hits.

### SessionCases and ReplayComparison

The session is one task that may fail, be killed, run again and be verified again; a case
holds the observations its gap refers to and says whether it may be replayed. The
comparison loads the cases, then the expectations, and replays target and guard under both
policies with one budget of requests, a model that is free to call what it likes, and tools
that answer only from the case. The reviewer reads a case at some time, and the import may
be repeated before or after that.

### ControlService

Time is in quarters of an hour. `data` is what the manager has in memory and `disk` what
`state.json` says; `Save` writes it or fails. `Submit`, `Launch`, `Classify`, `TimeOut`, `Finish`
are the request handler and the thread of a job, `child` its process group, which survives
a kill of the service and holds its lock file. `TickSettles`, `TickProbes`, `TickWaits`,
`TickSubmits` and `TickSuperseded` are `tick`, which releases the manager's lock for the
readiness check. `Stop`, `Stopped`, `Crash`, `CrashInLaunch` and `Start` end a service and begin
the next one, perhaps for another source of briefs. `Tick` is the clock. It does not wait for anybody, so
that mornings are missed and midnights pass during a probe; `slept` is a ghost, the days over whose end the
scheduler had something to do (`Attends`), which with its five seconds of waiting and thirty of probing
takes a machine that sleeps.

### ArtifactSync

`Stat`, `Look`, `Settle`, `StatAgain` take one file per step, so that writers come between any
two of them; `Decide` compares the signatures, `Rename` and `ReplaceIndex` publish, `Report`
writes the status. `Boot` is `vite.config.mjs` starting the watcher. `history` and `began` are ghosts. A file is its form (absent, half
written, whole) and a stamp that changes with every write.

## What is checked

| Run | Instance | Shows |
|---|---|---|
| `session` | 2 sub-agents, 1 gap, 1 follow-up, 1 kill, 1 resume; reports and traces may tear | the safety of a session and that it implements `TaskLifecycle` |
| `session_live` | 1 sub-agent, 1 follow-up, 3 kills, 3 resumes; everything may tear; fair | the bounds of a session and the verification of its follow-ups over a whole life; a process always ends |
| `synthesis_unverified` | 1 sub-agent, 1 gap, 1 kill, 2 resumes | a disagreement, see below |
| `gap_ledger` | 2 sessions one at a time or side by side, 2 keys of two profiles, one of a blocking kind, verifications with no gap or with both, 1 kill, 1 resume (side by side only after a kill) | rows are unique, claims have their task, planting is bounded; one at a time every process that came past the recording has its gaps in the book, without kills every session has, and only the planter closes a row, after its task |
| `react_loop` | 2 tools and a name outside the registry, 4 turns, deadline 9, requests 4, tools 2, reserve 3, lag 1, 2 calls to a response; fair | the deadline is kept, the final request has the reserve, what was observed gets an answer, the loop ends |
| `verification` | 2 findings of five kinds, an unknown identifier, 1 page, at most two verdicts to a finding, a verifier that raises anywhere, 1 kill | silence is no approval, web claims are read (but in the audit of a verifier that raised, which is no pass), status and gaps agree with what was filed |
| `policy` | 1 RSI cycle, 1 improver, 1 session, 2 patches, 1 failed write, 1 kill, both of which may tear a file; with and without a pointer at first; fair | the pointer, the reports and the files agree, sealed experiments replay, the store implements `PolicyLineage`, cycles end |
| `arena` | 3 turns to a stage, 10 requests, 14 tokens, 4 tool calls, 1 repair, 2 failed writes | complete runs are recorded and verified, a run that is filed leaves no task ACTIVE on disk |
| `control` | 1 source, 1 request, 2 mornings with one target (the second a holiday), 2 checks to a morning, 1 failed write, 1 kill, 1 change of the schedule; fair | one scheduled attempt for a target, one job at a time, jobs end, mornings are submitted, skipped or recorded |
| `artifact_sync` | 3 files (two written in place, one of them Markdown), 4 writes, 1 failed write, 1 kill; fair | the index is a moment, ready means current, the index converges while a watcher stays up |
| `replay_comparison` | 1 call, 1 claim, 2 calls to a run, 2 runs, 2 verifications, 1 named model, 2 turns, 6 requests, 1 repeat | improvements are earned |
| `capability_experiment` | 2 sessions, 1 evidence, a target and a guard, 2 verifications, 1 revision, 1 fact, 2 findings | targets are warranted, promotions are earned |

Each passing run explores its instance completely. `replay_comparison` and
`capability_experiment` use a `VIEW` that drops what nothing later depends on: the session
once its case was loaded, worlds and cases once they were read, and of a run everything
except its score and what the properties say of it. `gap_ledger` uses the symmetry of the
sessions, which no property names.

Bounds. Two sub-agents with three tasks (two planned, one planted) make the
semaphore and the order of booking matter. One kill and one resume reach every window
in which a write is lost; three are needed for the cases in which a later process
finds what an earlier resume left behind, and there one sub-agent is enough, since the
windows are the coordinator's. Two sessions are enough for the ledger: every hazard is
about another session's rows or about a process's own past. Its resumes side by side are limited to those
after a kill (`MaxReruns`), and its verifications to none or all of the gaps (`GapSets`); the proofs have
neither limit. Two cycles of the two kinds and
two patches are enough to promote twice and to propose the same candidate again; one kill
and one failed write reach every step of a cycle; a run of the arena may have two, since the second may
hit the filing of the first. Nine units and four turns let turns, tools
and time run out in every order. The control run has a morning that is missed, one that is a
holiday, a job that survives the service, and a failed write in each of its writes. Four writes
let two files change between the two reads of a third. In the comparison and in the
experiment the sizes are the smallest at which budgets run out between the two sides of a
pair, worlds are revised between the reading of worlds and cases, and a candidate may gain on
the target while it loses on the guard; `Repeats` is 1 in the run.

Fairness. `Session`: a started process is scheduled until it ends
(`WF_vars(CoordinatorStep)`), and a running sub-agent ends, since the loop is bounded by
turns and by a deadline (`react_loop` checks exactly that). `ReactLoop`: an await returns,
at most `Lag` late. `PolicyCycle`: a cycle that has begun is run by its process, and nobody is
obliged to begin. `ControlService`: the threads of a service that is up are scheduled, time
passes, and the runner's `communicate` has a deadline; neither requests, processes nor the
command line are fair. `ArtifactSync`: the loop of a watcher that is up is scheduled; writers are not, nor
is its start, since `vite.config.mjs:14-33` spawns it once and nothing starts it again after a kill or after a
failed status write: `Converges` speaks only of behaviours in which a watcher comes to stay up and no
write stays half done.
Nothing is strongly fair. Runs end when nobody starts anything any more, or when a bound is
reached, so deadlock is not checked.

## What is proved

For every value of the constants that satisfies the module's named assumption. Every safety
property that a passing run checks is the statement of a theorem. In each case the proof finds an
inductive invariant (`IInv`, or the one named below), shows that the initial states satisfy it and that
each action keeps it (one lemma per group of actions, one step per action), and reads the properties
off it. An abbreviation `...Inv` that a `...Proofs` module introduces is explained there.

- `SessionProofs`: `CompletedHasReport`, `ActiveTasksAreOwned`, `DeliveredIsSettled`, the type
  invariant, that tasks of another profile never run, that COMPLETED is final, and
  `Refinement` (`Spec => ImplementsLifecycle`). A task becomes COMPLETED in `Book`, so `IInv` carries
  where its report came from: what `returned` holds is on disk (`AgentsHoldTasks`), and the ACTIVE
  tasks are the ones the sub-agents hold (`ActiveMeansWorking`), hence a kill tears no report of a
  COMPLETED task.
- `SessionProofs`, of a session's whole life: `OrchestrationBounds`, `DispatchedWorkIsVerified` and
  `FollowUpsAreVerified`, from `LifeInv`, which is inductive where `IInv` holds. The bounds on each kind of
  task need what the current phase may still add (`PlansFit`): a plan that is being written fits
  together with the tasks that are there, and no second plan is made once there is a board, however
  often the process is killed. The verifications need that between `verify` and `synthesize` nothing
  runs, and that an old verification is reused only after no dispatch and when no follow-up task lacks
  its verdict.
- `GapLedgerProofs`: `OccurrencesAreUnique`, `ClaimsAreBacked` and `PlantsAreBounded` for any number of
  sessions side by side, `RecurrencesAreRecorded` and `ClosedByItsPlanter` for processes one at a time.
  No row is stable, since any process may replace the file by what it read long ago. The
  argument is that every sequence of rows anywhere (`rows`, `tmp`, each `mem[s]`) is sound by
  itself: only the process of a session adds rows of that session or claims rows for it, and
  boards only grow, so a claim once true stays true, in whatever old sequence it reappears.
  What a session has planted is bounded by what its process has chosen and not planted yet.
  For processes one at a time, `TurnInv` relates what is about to be written to the file, and `KeptInv`,
  as long as nothing was killed, the gaps of a session that is over to its rows.
- `ReactLoopProofs`: the types, `DeadlineIsKept`, `FinalAnswerHasTime`, `EvidenceGetsAnAnswer`, from
  `Lag < Reserve`.
- `VerificationProofs`: `SilenceIsNoApproval`, `WebClaimsAreRead`, `OverallAgrees`, `GapsAgree`, and
  `NoVerdictIsRaised` (no verdict on file is better than the static audit's, as README.md:24
  promises), for every set of findings, traces and answers. The report is sound when merged,
  sound when guarded, and what is filed is the guarded one, or the audit of a verifier that raised
  (`FallbackHolds`), of which only the verdicts, the gaps and that it is no pass can be said.
- `PolicyProofs`, of the store: the types, `ActiveWasApproved`, `OutcomesAreTruthful`,
  `PromotionsExtendTheActivePolicy`, for any number of cycles, kills and failed writes. `IInv` says of a
  store that has its pointer that the policy the holder of the lock has read is the active one until it
  moves it (`OwnerInv`), who has moved the pointer (`MovedInv`) and what approved it (`ActiveInv`): after
  activation the manifest may be torn, but only once the promoted decision and outcome are there (`Approves`).
  `SealedExperimentsReplay` and `SessionsArePinned` follow from what each program counter implies about
  the files written so far (`SealInv`, `PinInv`).
- `PolicyProofs`, the refinement: `Spec => ImplementsLineage`. A promotion extends the active policy and
  touches no snapshot; what a session pins was active when it was read, and since the active policy has
  only grown, it is still an ancestor of it when it is pinned (`AncestryInv`, `AncestorsGrow`).
- `PolicyProofs`, of the comparison: `ImprovementsAreEarned`, for every case, model, budget and number of
  repeats (`ComparisonInv`). Every run that is kept has been assessed by the expectation that was bound
  (`RunsInv`), on content that does not change after the binding (`BoundInv`). That the candidate passed
  more often yields a pair in which only the candidate passed, by an injection of the passing runs.
- `ControlServiceProofs`: the types, `ScheduledOnce` and `OneJobAtATime`, for any mornings, requests, kills and
  failed writes. An attempt of the scheduler is on disk before its process is launched and nothing
  removes it (`LaunchesAreOnDisk`, `JobsAreKept`), it is named by its target, and a target that is marked
  is not probed again (`AttemptsAreMarked`, `ProbesAreNew`). `ProbedTargetsAreNew` adds that the submission
  of a probed target never returns an older job. At most one thread is live (`ThreadsAreLive`), a child of
  a service that is up belongs to it (`ChildrenAreWaitedFor`), and a child that survived a kill holds the
  lock that the next launch needs.
- `ArtifactSyncProofs`: `IndexIsAMoment` and `ReadyIsCurrent`, for any listing, writes, failures and kills.
  The argument is that of a sequence lock: there was a moment between the first stats and the reads;
  if every file has the same stamp after the reads as before, that moment is what was read.
- `EvaluationProofs`, of the arena: `CompleteRunsAreRecorded`, `CompleteRunsAreVerified`, `NoTaskIsLeftActive`,
  for all budgets and any number of failed writes. The board on disk is that in memory until a run ends; at its end
  `run.json` is filed only if no task was left to fail or if failing it was saved.
- `EvaluationProofs`, of the experiment: `TargetsAreWarranted`, for any sessions, verifications and revisions. The
  hash of a world only grows and a case holds the hash its world had (`WorldsInv`, `CasesInv`), so a world
  that still has that hash covers what the case was mapped for; a session has one row for an evidence
  (`RowsInv`), so the row that warrants a target is the one that was read. The choice is a fold over
  the rows of the ledger; what holds of its result is shown for its least counterexample.
  `PromotionsAreEarned`: both policies ran once on each selected world, in its order (`RunsInv`), so the counts
  the decision compares are those of the runs.

Only model-checked: liveness (`ProcessEnds`, `LoopEnds`, `CyclesEnd`, `JobsEnd`,
`MorningsAreSettled`, `Converges`), which is out of the prover's reach, and `SynthesisIsVerified`, which
does not hold. The type invariants of `Session`, `ReactLoop`, `PolicyCycle` and `ControlService` are proved;
those of the other modules are stated for the reader, and what the proofs need of their content is part
of the invariants that are proved.

## Disagreements

What the repository says and the code does not do. The first has a run that shows it violated.

- `SynthesisIsVerified` (run `synthesis_unverified`): the agent loop of
  `README.md:21` puts the verifier before the synthesis. A process killed after a
  dispatch and before its verification leaves all tasks finished and an old
  `verification.json`; the next resume dispatches nothing, reuses that
  verification and synthesizes reports the verifier never saw
  (`coordinator.py:148-154`). Only follow-up tasks are checked for this
  (`_followup_needs_reverify`), which is what `FollowUpsAreVerified` shows to work.
- `task_board.py:24-25` promises a board that can be read at any time; `save_json`
  (`persistence.py:16`) writes it in place, and a kill inside the write makes the session
  unreadable and unresumable.
- `synthesis.md` is written before `synthesis.json` (`coordinator.py:466`); after a kill between the
  two, every resume with nothing to run tries to parse the Markdown as the answer and raises
  (`coordinator.py:163`). And after a resume that completed more tasks and failed to synthesize, the
  next resume returns the old synthesis (`coordinator.py:156`).
- `gap_seed.py` plants tasks and marks their rows CONSUMED; the tasks are saved one by one, the rows
  after all of them (`gap_seed.py:233-238`). A kill in between leaves a task whose row is OPEN and
  names nobody, and since the board now has a gap task no resume seeds again.
- `README.md:26` speaks of prior gap tasks. A resume whose session had planted nothing records its own
  gaps first and then plants them (`coordinator.py:138`).
- "That recurrence earns its own OPEN row" (`gap_seed.py:129`), unless two sessions record at the same time: the
  later replacement of the file drops the other's rows (`gap_seed.py:158`). `RecurrencesAreRecorded` and
  `ClosedByItsPlanter` speak of histories with one process at a time (`alone`) for this reason.
- It earns none either if the process is killed after `verification.json` is filed and before `record_gaps`
  (`coordinator.py:294`) and the next resume has nothing to run: it reuses the verification
  (`coordinator.py:148-154`), and neither records its gaps nor resolves the planted rows. With one process at a time
  `RecurrencesAreRecorded` holds of a process that has verified and come past the recording, and of a session
  that is over only while nothing was killed.
- `docs/structured-research.md:81-85`: a timeout, malformed output or another bounded runtime failure of the
  verifier leaves every finding without a terminal verdict unchecked. The handler that does so knows three
  exceptions (`verifier.py:245`); on any other, as when the API cannot be reached, the coordinator files the raw
  audit (`coordinator.py:272-289`). Findings with a URL are "verified" there although nobody confirmed them, web
  findings pass no guard, and what the verifier had read is not kept. The status is at best `pass_with_caveats`, which
  is what remains to be proved of it; `docs/structured-research.md:74-77` knows of such statuses and has the UI show
  them as unconfirmed.
- `gap_seed.py:164` and `docs/apodex_gap.md:22` exclude source-quality gaps from planting, and
  `_PLANT_ORDER` includes them.
- `rsi_cycle.py:366` looks at the pointer again so that nobody overwrites a new active policy. On the
  first use of a store `load_active` (`policies.py:250-265`) creates and activates the baseline
  without the lock; a session that found no pointer may point back to the baseline after a promotion.
  The properties about the pointer speak of a store that has one (`~ fresh`).
- "An audit-finalization error must not lie [...]; the sealed intent remains inspectable" (`rsi_cycle.py:374-375`).
  `finish("promoted")` writes over the sealed manifest in place (`research_arena.py:117-125`): a kill or a failed write
  inside it leaves neither the intent nor the promotion. What is left then is `promotion_decision.json` and
  `outcome.json`, which `ActiveWasApproved` takes as the approval (`Approves`).
- `replay_experiment` is there to audit any sealed experiment (`rsi_cycle.py:397-402`). If the write of
  `comparison.json` fails half way (`rsi_cycle.py:363`), the handler seals an "error" over the torn file, and the
  replay of that experiment raises (`rsi_cycle.py:487`). `SealedExperimentsReplay` excepts it and says that it
  promoted nothing.
- The arena's handler says that errors "must persist a failed run" (`research_arena.py:502`). If `board.fail` cannot
  save or refuses, or the write of `run.json` fails, the exit of the try statement raises and `run.json` is not
  written (`research_arena.py:504-509`). It refuses after a failed save inside `board.complete`: the task is COMPLETED
  in memory (`task_board.py:243-247`), and the board on disk keeps it ACTIVE or is torn. The property says that a run
  with a `run.json` has no ACTIVE task on disk.
- `docs/superpowers/specs/2026-09-08-local-control-design.md:30-31`: existing valid briefs suppress
  scheduled generation. They are looked for before the readiness check, which releases the lock; a brief
  made during the check does not suppress the attempt.
- `docs/superpowers/specs/2026-09-08-local-control-design.md:29-30`: "A missed window is recorded". `tick` settles only
  the morning of its own day (`control_manager.py:412-427`): a machine that sleeps from the morning's window to the
  next day never records it, nor, if a probe was under way and it wakes up after 08:00, the morning it wakes up
  in, since that probe's answer puts the next check off to the day after (`control_manager.py:442-445`). `MorningsAreSettled` excepts the days in `slept`.
- "Scheduler check failed; no run was launched" (`control_service.py:126`) is also what is shown after a submission
  that was saved and started, if the write of the schedule after it fails (`control_manager.py:449-452`).
- `session_cases.py:275` turns incomplete artifacts into blockers. The blocker compares the task's count
  of calls with the number of its traces (`session_cases.py:365`), and the count is of the last run: a
  failed run that left one trace, and a resumed run whose one call leaves none, make one and one, and
  the case may be replayed from the failed run. No property covers this.
- `_task_is_failed_replan` compares the status with "completed" in lower case
  (`capability_mining.py:181`), so it holds of every replan task; the word "replan" in the context has
  the same effect anyway.

Behaviour worth knowing, which no document contradicts:

- Session: two resumes of one session at once are not prevented.
- Gap ledger: the first OPEN row of a capability is always the one planted (`gap_seed.py:176`), so a gap
  that never closes keeps later ones of its capability waiting.
- Policies: a lock left by a kill refuses every later cycle, until somebody removes it (`CyclesEnd` shows that
  they end); a candidate with the same content as an earlier one is refused because its time of
  creation differs.
- Control: if the write that reports a failed tick fails too, the scheduler thread is dead and the
  service stays online (`control_service.py:123-127`); `MorningsAreSettled` holds with one failed write. A
  submission whose write failed stays "starting" in memory, and everything later is refused as busy
  until a restart. The pattern of a request id (`control_manager.py:27`) admits the scheduler's own
  `scheduled-...` ids; `ControlAssumption` takes users not to choose one.
- Verification: two verdicts for one finding are both filed (the arena refuses them); a `market_data`
  source without a page puts the empty page among those the verifier has read (`verifier.py:69-72`).
- Watcher: the status is written outside the handler of a tick (`artifact_watch.py:111-114`), so a failed
  write there ends the watcher, and no other is started until Vite is (`vite.config.mjs:14-33`). An empty directory `sub_reports` changes what is imported and not
  the signature.
- Comparison: it reports mismatched models also where runs are merely incomplete, and accepts different models
  in different repeats. Any change of a session's artifacts changes its case when it is imported
  again, and expectations bound to it no longer count.
- Mining: stored cases are never changed, so once a world is revised the gaps mapped to it have no target;
  errors of mining are swallowed (`coordinator.py:309-317`).

## What is not modelled

- Tools, engine pipeline and page cache (`tools/`): network, subprocesses and the parsing of what they
  return; their timeouts and failures are inputs of `ReactLoop` and `Arena`.
- The daily, proxy, market, crowding and short-interest briefs: sequential computations, mostly in
  floating point, which TLC does not have. That a brief appears is an action of `ControlService`.
- Scores that are floating-point sums, the held-out suites and the momentum evaluation.
- HTTP, tokens and the browser; the market calendar, which is a constant (`Target`).
- Wording: prompts, rendering, keyword matching of text (its results are constants or choices).
- Two processes on one session directory, two watchers, two services (the lock file is modelled), two
  writers inside one temporary file of the ledger, usage and progress records.
- `ReplayComparison`: every call of a case is required; several tasks in one session and a damaged case file
  are left out. `CapabilityMining`: a verification has one gap (the code takes up to eight).
- `ArtifactSync`: that `stat` tells every two states of a file apart is an assumption.

## Plan

1. An abstract ledger that the processes of `GapLedger`, one at a time, implement: its rows are `TurnInv`'s.
2. `SynthesisIsVerified` for sessions that are not killed between a dispatch and its verification, as a theorem:
   it would delimit the disagreement exactly.
3. Two keys of one profile in the instance of `GapLedger`, two repeats in `ReplayComparison`.
