---------------------------- MODULE PolicyCycle ----------------------------
(***************************************************************************)
(* Research policies on disk: the store (state/policies.py), the two kinds  *)
(* of improvement cycle that promote a policy (eval/rsi_cycle.py and        *)
(* eval/policy_improver.py) and the sessions that pin one.  Every one is a  *)
(* process of its own; they share the version files, active.json with its   *)
(* temporary file, and improvement.lock.  Any process may be killed, any    *)
(* write may fail.  The store and an improver's experiment are replaced by  *)
(* whole files; an rsi cycle writes those of its experiment in place, and   *)
(* where such a write is cut off the file is "torn".                        *)
(*                                                                         *)
(* A version is named by its content, which contains its parent: it is the  *)
(* sequence of patches that leads to it.  What is outside the content, the  *)
(* time of creation and the evaluation, is the process that wrote it.       *)
(***************************************************************************)
EXTENDS Sequences, FiniteSets, Integers

CONSTANTS
  RsiCycles,    \* invocations of --rsi-cycle
  Improvers,    \* invocations of --improve
  Sessions,     \* research sessions
  Patches,      \* what the generator may propose
  Nothing,      \* no pointer, no file, no lock
  MaxFailures,  \* bound: writes that fail
  MaxCrashes    \* bound: kills

Cycles == RsiCycles \cup Improvers
Processes == Cycles \cup Sessions
Baseline == <<>>

Versions == Seq(Patches)

ASSUME PolicyAssumption ==
  /\ RsiCycles \cap Improvers = {} /\ Cycles \cap Sessions = {} /\ IsFiniteSet(Cycles)
  /\ Nothing \notin Processes \cup Versions
  /\ MaxFailures \in Nat /\ MaxCrashes \in Nat

VARIABLES
  fresh,      \* the store had no pointer in the beginning
  versions,   \* the version files: who wrote each
  active,     \* active.json
  temporary,  \* active.json.tmp
  drafts,     \* the temporary file of the baseline version: who wrote it last
  lock,       \* improvement.lock
  proc,       \* the processes: [pc, view, candidate, result]
  experiment, \* the experiment of a cycle: [status, compared, promote, outcome, candidate]
  snapshot,   \* policy_snapshot.json of a session
  moved,      \* the cycles whose candidate became active
  failures, crashes

vars == <<fresh, versions, active, temporary, drafts, lock, proc, experiment, snapshot,
          moved, failures, crashes>>
store == <<versions, active, temporary, drafts>>
bounds == <<failures, crashes>>

Final == {"promoted", "rejected", "no_change", "error"}

NoExperiment == [status |-> "none", compared |-> "none", promote |-> "none", outcome |-> "none", candidate |-> Nothing]

Init ==
  /\ fresh \in BOOLEAN
  /\ active = IF fresh THEN Nothing ELSE Baseline
  /\ versions = IF fresh THEN <<>> ELSE [v \in {Baseline} |-> Nothing]
  /\ temporary = Nothing /\ drafts = Nothing /\ lock = Nothing
  /\ proc = [p \in Processes |-> [pc |-> "idle", view |-> Nothing, candidate |-> Nothing,
                                  result |-> "none"]]
  /\ experiment = [c \in Cycles |-> NoExperiment]
  /\ snapshot = [s \in Sessions |-> Nothing]
  /\ moved = {} /\ failures = 0 /\ crashes = 0

At(p, pc) == proc[p].pc = pc
Goes(p, pc) == proc' = [proc EXCEPT ![p].pc = pc]
Holds(c) == lock = c
Released(c) == IF Holds(c) THEN Nothing ELSE lock

Ends(c, result) == proc' = [proc EXCEPT ![c].pc = "finish", ![c].result = result]

Exists(v) == v \in DOMAIN versions
Stored(v, p) == [w \in DOMAIN versions \cup {v} |-> IF w = v THEN p ELSE versions[w]]

-----------------------------------------------------------------------------
(* load_active, step by step.                                              *)

\* Who asked goes on: a session pins the policy, a cycle evaluates it, and an
\* improver that was refused the lock reports the error.
Loaded(p, v) ==
  proc' = [proc EXCEPT ![p].view = v,
                       ![p].result = IF p \in Improvers /\ ~ Holds(p) THEN "error" ELSE @,
                       ![p].pc = CASE p \in Sessions -> "pin"
                                   [] p \in Cycles /\ Holds(p) -> "evaluate"
                                   [] OTHER -> "finish"]

\* An exception outside every handler of an improver; rsi_cycle reports it as an
\* error, once the lock is released.
Raised(p) ==
  /\ lock' = Released(p)
  /\ proc' = [proc EXCEPT ![p].pc = CASE p \in Sessions -> "idle"
                                      [] p \in RsiCycles -> "finish"
                                      [] OTHER -> "done",
                          ![p].result = CASE p \in Sessions -> @
                                          [] p \in RsiCycles -> "error"
                                          [] OTHER -> "raised"]

ReadPointer(p) ==
  /\ At(p, "load")
  /\ IF active # Nothing THEN Loaded(p, active) ELSE Goes(p, "lookup")
  /\ UNCHANGED <<fresh, store, lock, experiment, snapshot, moved, bounds>>

LookUp(p) ==
  /\ At(p, "lookup")
  /\ Goes(p, IF Exists(Baseline) THEN "point" ELSE "create")
  /\ UNCHANGED <<fresh, store, lock, experiment, snapshot, moved, bounds>>

\* write_version refuses a file of the same name written at another time.
Create(p) ==
  /\ At(p, "create")
  /\ IF Exists(Baseline) THEN Raised(p) /\ UNCHANGED drafts
                         ELSE drafts' = p /\ Goes(p, "created") /\ UNCHANGED lock
  /\ UNCHANGED <<fresh, versions, active, temporary, experiment, snapshot, moved, bounds>>

\* The temporary file has a fixed name: another process may have renamed it.
CreateRenames(p) ==
  /\ At(p, "created")
  /\ IF drafts = Nothing
     THEN Raised(p) /\ UNCHANGED <<versions, drafts>>
     ELSE versions' = Stored(Baseline, drafts) /\ drafts' = Nothing /\ Goes(p, "point") /\ UNCHANGED lock
  /\ UNCHANGED <<fresh, active, temporary, experiment, snapshot, moved, bounds>>

Point(p) ==
  /\ At(p, "point")
  /\ temporary' = Baseline /\ Goes(p, "pointed")
  /\ UNCHANGED <<fresh, versions, active, drafts, lock, experiment, snapshot, moved, bounds>>

PointRenames(p) ==
  /\ At(p, "pointed")
  /\ IF temporary = Nothing
     THEN Raised(p) /\ UNCHANGED <<active, temporary>>
     ELSE active' = temporary /\ temporary' = Nothing /\ Loaded(p, Baseline) /\ UNCHANGED lock
  /\ UNCHANGED <<fresh, versions, drafts, experiment, snapshot, moved, bounds>>

LoadActive(p) ==
  \/ ReadPointer(p) \/ LookUp(p) \/ Create(p) \/ CreateRenames(p) \/ Point(p) \/ PointRenames(p)

-----------------------------------------------------------------------------
(* Sessions: load_or_snapshot_policy.                                      *)

SessionStarts(s) ==
  /\ At(s, "idle")
  /\ IF snapshot[s] # Nothing
     THEN proc' = [proc EXCEPT ![s].view = snapshot[s], ![s].pc = "running"]
     ELSE Goes(s, "load")
  /\ UNCHANGED <<fresh, store, lock, experiment, snapshot, moved, bounds>>

Pin(s) ==
  /\ At(s, "pin")
  /\ snapshot' = [snapshot EXCEPT ![s] = proc[s].view]
  /\ Goes(s, "running")
  /\ UNCHANGED <<fresh, store, lock, experiment, moved, bounds>>

SessionEnds(s) ==
  /\ At(s, "running")
  /\ Goes(s, "idle")
  /\ UNCHANGED <<fresh, store, lock, experiment, snapshot, moved, bounds>>

-----------------------------------------------------------------------------
(* A cycle.                                                                *)

Begin(c) ==
  /\ At(c, "idle")
  /\ Goes(c, "lock")
  /\ experiment' = IF c \in RsiCycles THEN [experiment EXCEPT ![c].status = "running"] ELSE experiment
  /\ UNCHANGED <<fresh, store, lock, snapshot, moved, bounds>>

\* Mutation: the cycle waits for the lock.
AcquireWaits(c) ==
  /\ At(c, "lock") /\ lock = Nothing
  /\ lock' = c /\ Goes(c, "load")
  /\ UNCHANGED <<fresh, store, experiment, snapshot, moved, bounds>>

\* Mutation: the lock is opened, not created.
AcquireShared(c) ==
  /\ At(c, "lock")
  /\ lock' = c /\ Goes(c, "load")
  /\ UNCHANGED <<fresh, store, experiment, snapshot, moved, bounds>>

\* _exclusive_cycle: the file is created or the cycle ends.
Acquire(c) ==
  /\ At(c, "lock")
  /\ IF lock = Nothing THEN lock' = c /\ Goes(c, "load")
     ELSE /\ UNCHANGED lock
          /\ IF c \in Improvers THEN Goes(c, "load") ELSE Ends(c, "error")
  /\ UNCHANGED <<fresh, store, experiment, snapshot, moved, bounds>>

\* An improver writes an error down, after a candidate was asked for; that may fail.
RecordCycleError(c) == experiment' = [experiment EXCEPT ![c].status = "error"] \/ UNCHANGED experiment

\* The guards, the baseline runs and the one call of the generator: they end the
\* cycle or give a candidate.
Evaluate(c) ==
  /\ At(c, "evaluate")
  /\ \/ \E result \in Final \ {"promoted"} :
          /\ Ends(c, result)
          /\ IF c \in Improvers /\ result = "error" THEN RecordCycleError(c) ELSE UNCHANGED experiment
     \/ \E patch \in Patches :
          /\ proc' = [proc EXCEPT ![c].candidate = Append(proc[c].view, patch),
                                  ![c].pc = IF c \in RsiCycles THEN "write" ELSE "decide"]
          /\ UNCHANGED experiment
  /\ UNCHANGED <<fresh, store, lock, snapshot, moved, bounds>>

\* The improver's handler of a failed activation looks at the pointer.
ActivationFailed(c) ==
  IF c \in RsiCycles
  THEN Raised(c) /\ UNCHANGED experiment
  ELSE IF active = proc[c].candidate
  THEN Ends(c, "promoted") /\ UNCHANGED <<lock, experiment>>
  ELSE Ends(c, "error") /\ RecordCycleError(c) /\ UNCHANGED lock

\* write_version: the same content written at another time is refused.  An rsi cycle
\* writes the candidate before it is evaluated, an improver after it is approved.
WriteCandidate(c) ==
  /\ At(c, "write")
  /\ IF Exists(proc[c].candidate)
     THEN ActivationFailed(c) /\ UNCHANGED versions
     ELSE /\ versions' = Stored(proc[c].candidate, c)
          /\ Goes(c, IF c \in RsiCycles THEN "decide" ELSE "activate")
          /\ UNCHANGED <<lock, experiment>>
  /\ UNCHANGED <<fresh, active, temporary, drafts, snapshot, moved, bounds>>

\* Mutation: an improver writes its decision down at the end of the cycle.
DecideUnrecorded(c, promote) ==
  /\ At(c, "decide")
  /\ IF ~ promote THEN Ends(c, "rejected")
                  ELSE Goes(c, IF c \in RsiCycles THEN "recheck" ELSE "write")
  /\ UNCHANGED <<experiment, fresh, store, lock, snapshot, moved, bounds>>

\* The candidate is evaluated and compared, and the result is written down: an improver
\* has one file for its experiment.
Decide(c, promote) ==
  /\ At(c, "decide")
  /\ IF ~ promote THEN Ends(c, "rejected")
                  ELSE Goes(c, IF c \in RsiCycles THEN "recheck" ELSE "write")
  /\ experiment' = IF c \in RsiCycles
                   THEN [experiment EXCEPT ![c].compared = IF promote THEN "pass" ELSE "fail"]
                   ELSE [experiment EXCEPT ![c].status = IF promote THEN "approved" ELSE "rejected",
                                           ![c].candidate = proc[c].candidate]
  /\ UNCHANGED <<fresh, store, lock, snapshot, moved, bounds>>

\* An rsi cycle looks at the pointer again.
Recheck(c) ==
  /\ At(c, "recheck")
  /\ IF active # proc[c].view THEN Ends(c, "rejected") ELSE Goes(c, "seal")
  /\ UNCHANGED <<fresh, store, lock, experiment, snapshot, moved, bounds>>

Seal(c) ==
  /\ At(c, "seal")
  /\ experiment' = [experiment EXCEPT ![c].status = "approved", ![c].promote = "yes",
                                      ![c].candidate = proc[c].candidate]
  /\ Goes(c, "activate")
  /\ UNCHANGED <<fresh, store, lock, snapshot, moved, bounds>>

Activate(c) ==
  /\ At(c, "activate")
  /\ temporary' = proc[c].candidate /\ Goes(c, "activated")
  /\ UNCHANGED <<fresh, versions, active, drafts, lock, experiment, snapshot, moved, bounds>>

ActivateRenames(c) ==
  /\ At(c, "activated")
  /\ IF temporary = Nothing
     THEN ActivationFailed(c) /\ UNCHANGED <<active, temporary, moved>>
     ELSE /\ active' = temporary /\ temporary' = Nothing
          /\ moved' = IF active' = proc[c].candidate THEN moved \cup {c} ELSE moved
          /\ Ends(c, "promoted") /\ UNCHANGED <<lock, experiment>>
  /\ UNCHANGED <<fresh, versions, drafts, snapshot, bounds>>

-----------------------------------------------------------------------------
(* The end of a cycle.                                                     *)

Verdict(result) == IF result = "promoted" THEN "yes" ELSE "no"

\* Of files that are written in order, the one numbered k: the first n are there and,
\* if the writing was cut off in a file, the next is torn.
Written(k, new, old, n, cut) == IF k <= n THEN new ELSE IF cut /\ k = n + 1 THEN "torn" ELSE old

\* Mutation: the manifest is sealed before the outcome is written.
FilesManifestFirst(e, result, n, cut) ==
  [e EXCEPT !.status  = Written(1, result, @, n, cut),
            !.promote = Written(2, Verdict(result), @, n, cut),
            !.outcome = Written(3, result, @, n, cut)]

\* finish of an rsi cycle: promotion_decision.json, outcome.json and manifest.json.
Files(e, result, n, cut) ==
  [e EXCEPT !.promote = Written(1, Verdict(result), @, n, cut),
            !.outcome = Written(2, result, @, n, cut),
            !.status  = Written(3, result, @, n, cut)]

\* The approval of an rsi cycle that is not written to its end: promotion_decision.json
\* and manifest.json.
SealFiles(e, n, cut) ==
  [e EXCEPT !.promote = Written(1, "yes", @, n, cut), !.status = Written(2, "approved", @, n, cut)]

\* replay_experiment: which files of an experiment it accepts. The runs are hashed and
\* scored again by the function that scored them, so that they agree.
Replays(e) ==
  IF e.compared = "none" THEN e.status \in {"rejected", "error", "no_change"} /\ e.promote = "no"
  ELSE /\ e.compared # "torn"
       /\ e.outcome = e.status /\ e.promote = Verdict(e.outcome)
       /\ e.promote = "yes" => e.compared = "pass"

Done(c) == proc' = [proc EXCEPT ![c].pc = "done"] /\ lock' = Released(c)

\* Mutation: a result that cannot be written is an error.
FinishRsiError(c, n, cut) ==
  /\ At(c, "finish")
  /\ experiment' = [experiment EXCEPT ![c] = Files(@, proc[c].result, n, cut)]
  /\ IF n = 3 THEN Done(c) /\ UNCHANGED failures
     ELSE /\ failures < MaxFailures /\ failures' = failures + 1
          /\ IF proc[c].result # "error" THEN Raised(c)
             ELSE /\ lock' = Released(c)
                  /\ proc' = [proc EXCEPT ![c].pc = "done", ![c].result = "raised"]
  /\ UNCHANGED <<fresh, store, snapshot, moved, crashes>>

\* A result that cannot be written is an error, unless the pointer has moved.
FinishRsi(c, n, cut) ==
  /\ At(c, "finish")
  /\ experiment' = [experiment EXCEPT ![c] = Files(@, proc[c].result, n, cut)]
  /\ IF n = 3 THEN Done(c) /\ UNCHANGED failures
     ELSE /\ failures < MaxFailures /\ failures' = failures + 1
          /\ CASE proc[c].result = "promoted" -> Done(c)
               [] proc[c].result = "error" -> /\ lock' = Released(c)
                                              /\ proc' = [proc EXCEPT ![c].pc = "done", ![c].result = "raised"]
               [] OTHER -> Raised(c)
  /\ UNCHANGED <<fresh, store, snapshot, moved, crashes>>

\* An improver's record of a promotion may fail to be written.
FinishImprover(c, ok) ==
  /\ At(c, "finish")
  /\ Done(c)
  /\ IF proc[c].result # "promoted" THEN ok /\ UNCHANGED <<experiment, failures>>
     ELSE IF ok THEN experiment' = [experiment EXCEPT ![c].status = "promoted"] /\ UNCHANGED failures
     ELSE failures < MaxFailures /\ failures' = failures + 1 /\ UNCHANGED experiment
  /\ UNCHANGED <<fresh, store, snapshot, moved, crashes>>

-----------------------------------------------------------------------------
(* What may go wrong.                                                      *)

\* A file of an rsi cycle's experiment is torn, or is left as it was: the comparison (the
\* scores are written before it) or the files of a seal.
CutOff(c) ==
  \/ experiment' = [experiment EXCEPT ![c].compared = IF At(c, "decide") THEN "torn" ELSE @]
  \/ /\ At(c, "seal")
     /\ \E n \in 0 .. 1, cut \in BOOLEAN : experiment' = [experiment EXCEPT ![c] = SealFiles(@, n, cut)]

\* A file that is being written: a baseline, the pointer, a session's snapshot, an
\* experiment or a version.
WriteFails(p) ==
  /\ failures < MaxFailures /\ failures' = failures + 1
  /\ \/ /\ proc[p].pc \in {"create", "created", "point", "pointed", "pin"} /\ Raised(p)
        /\ UNCHANGED experiment
     \/ /\ p \in RsiCycles /\ proc[p].pc \in {"evaluate", "decide", "seal"} /\ Raised(p)
        /\ CutOff(p) \/ UNCHANGED experiment
     \/ /\ p \in Improvers /\ At(p, "decide") /\ Ends(p, "error")
        /\ UNCHANGED <<lock, experiment>>
     \/ p \in Cycles /\ proc[p].pc \in {"write", "activate", "activated"} /\ ActivationFailed(p)
  /\ UNCHANGED <<fresh, store, snapshot, moved, crashes>>

\* A kill, also in the middle of a comparison, of the files of a seal or of a finish.
Crash(p) ==
  /\ crashes < MaxCrashes /\ crashes' = crashes + 1
  /\ proc[p].pc \notin {"idle", "done", "killed"}
  /\ Goes(p, IF p \in Sessions THEN "idle" ELSE "killed")
  /\ \/ UNCHANGED experiment
     \/ p \in RsiCycles /\ CutOff(p)
     \/ p \in RsiCycles /\ At(p, "finish")
        /\ \E n \in 0 .. 3, cut \in BOOLEAN : experiment' = [experiment EXCEPT ![p] = Files(@, proc[p].result, n, cut)]
  /\ UNCHANGED <<fresh, store, lock, snapshot, moved, failures>>

CycleStep(c) ==
  \/ LoadActive(c) \/ Acquire(c) \/ Evaluate(c) \/ WriteCandidate(c)
  \/ \E promote \in BOOLEAN : Decide(c, promote)
  \/ Recheck(c) \/ Seal(c) \/ Activate(c) \/ ActivateRenames(c)
  \/ c \in RsiCycles /\ \E n \in 0 .. 3, cut \in BOOLEAN : FinishRsi(c, n, cut)
  \/ c \in Improvers /\ \E ok \in BOOLEAN : FinishImprover(c, ok)

Next ==
  \/ \E c \in Cycles : Begin(c) \/ CycleStep(c)
  \/ \E s \in Sessions : SessionStarts(s) \/ LoadActive(s) \/ Pin(s) \/ SessionEnds(s)
  \/ \E p \in Processes : WriteFails(p) \/ Crash(p)

Spec == Init /\ [][Next]_vars

\* A cycle that has begun is run by its process.
FairSpec == Spec /\ \A c \in Cycles : WF_vars(CycleStep(c))

-----------------------------------------------------------------------------
(* Correctness.                                                            *)

Process ==
  [pc : {"idle", "load", "lookup", "create", "created", "point", "pointed", "pin", "running",
         "lock", "evaluate", "write", "decide", "recheck", "seal", "activate", "activated",
         "finish", "done", "killed"},
   view : Versions \cup {Nothing}, candidate : Versions \cup {Nothing},
   result : Final \cup {"none", "raised"}]

Experiment ==
  [status : Final \cup {"none", "running", "approved", "torn"}, compared : {"none", "pass", "fail", "torn"},
   promote : {"none", "yes", "no", "torn"}, outcome : Final \cup {"none", "torn"},
   candidate : Versions \cup {Nothing}]

\* Type invariant.
TypeOK ==
  /\ fresh \in BOOLEAN
  /\ DOMAIN versions \subseteq Versions /\ \A v \in DOMAIN versions : versions[v] \in Processes \cup {Nothing}
  /\ active \in Versions \cup {Nothing} /\ temporary \in Versions \cup {Nothing}
  /\ drafts \in Processes \cup {Nothing} /\ lock \in Cycles \cup {Nothing}
  /\ proc \in [Processes -> Process] /\ experiment \in [Cycles -> Experiment]
  /\ snapshot \in [Sessions -> Versions \cup {Nothing}] /\ moved \subseteq Cycles
  /\ failures \in 0 .. MaxFailures /\ crashes \in 0 .. MaxCrashes

\* Once the store has a pointer, it only moves from a policy to a candidate that
\* was derived from that very policy and compared with it.
PromotionsExtendTheActivePolicy ==
  [][~ fresh /\ active' # active => \E patch \in Patches : active' = Append(active, patch)]_vars

\* A store that has its pointer behaves as PolicyLineage promises: nobody runs on a
\* policy that was never active, and the active one descends from all that were.
Lineage == INSTANCE PolicyLineage
  WITH line <- IF fresh THEN Baseline ELSE active,
       pins <- IF fresh THEN [s \in Sessions |-> Nothing] ELSE snapshot

ImplementsLineage == Lineage!Spec

\* An experiment approves its candidate by its status, or, when its manifest is torn, by
\* the outcome and the decision that are written before that.
Approves(e) ==
  \/ e.status \in {"approved", "promoted"}
  \/ e.status = "torn" /\ e.outcome = "promoted" /\ e.promote = "yes"

\* The active policy is the baseline or has an approval on disk, whatever the process
\* that promoted it came to and whichever of its files was cut off.
ActiveWasApproved ==
  ~ fresh /\ active # Baseline =>
    \E c \in Cycles : experiment[c].candidate = active /\ Approves(experiment[c])

\* What a cycle reports and what it leaves on disk agree with what it did to the
\* pointer: it promoted if and only if it says so.
OutcomesAreTruthful ==
  ~ fresh =>
    \A c \in Cycles :
      /\ At(c, "done") => (proc[c].result = "promoted" <=> c \in moved)
      /\ experiment[c].status = "promoted" => c \in moved
      /\ experiment[c].status \in Final \ {"promoted"} => c \notin moved

\* What is behind a final manifest. A comparison that is torn makes replay_experiment
\* raise, so it must not have promoted.
Sealed(e) == IF e.compared = "torn" THEN e.status = "error" /\ e.promote = "no" ELSE Replays(e)

\* An experiment with a final manifest can be replayed, whatever it came to and wherever
\* the writing of its end failed or was cut off; the one exception is the experiment
\* whose comparison was not written to its end: it is sealed as an error.
SealedExperimentsReplay ==
  \A c \in RsiCycles : experiment[c].status \in Final => Sealed(experiment[c])

\* A session runs on the policy it pinned when it first started, in every one of its
\* lives and whatever is promoted in between.
SessionsArePinned ==
  [][\A s \in Sessions :
       /\ snapshot[s] # Nothing => snapshot'[s] = snapshot[s]
       /\ At(s, "running")' => proc'[s].view = snapshot'[s]]_vars

\* A cycle that is not killed ends, also after another was killed with the lock.
CyclesEnd == \A c \in Cycles : ~ At(c, "idle") ~> proc[c].pc \in {"done", "killed"}

=============================================================================
