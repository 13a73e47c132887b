---------------------------- MODULE PolicyProofs ----------------------------
(***************************************************************************)
(* Proofs about PolicyCycle for every number of cycles and sessions, every  *)
(* set of patches and every number of kills and failed writes: first the    *)
(* pointer and the outcomes of the cycles (IInv), then the files of an      *)
(* experiment and the snapshots of the sessions (SealInv, PinInv).  Then    *)
(* proofs about ReplayComparison, which compares two policies, for every    *)
(* case, model and number of repeats (ComparisonInv).                       *)
(***************************************************************************)
EXTENDS PolicyCycle, ReplayComparison, FiniteSetTheorems, SequenceTheorems, TLAPS

\* Where a process makes the store's first pointer.
Creating == {"lookup", "create", "created", "point", "pointed"}

\* What a cycle does with the lock in its hands.
Working == {"evaluate", "write", "decide", "recheck", "seal", "activate", "activated"}

StoreInv == active # Nothing /\ \A p \in Processes : proc[p].pc \notin Creating

\* A cycle that works holds the lock, began with the policy that still is the active
\* one, and has derived its candidate from it.
Own(c) ==
  proc[c].pc \in Working =>
    /\ lock = c /\ proc[c].view = active
    /\ proc[c].pc # "evaluate" => \E patch \in Patches : proc[c].candidate = Append(active, patch)
    /\ proc[c].pc \in {"activate", "activated"} \/ (proc[c].pc = "write" /\ c \notin RsiCycles) =>
         experiment[c].status = "approved" /\ experiment[c].candidate = proc[c].candidate
    /\ proc[c].pc = "activated" => temporary = proc[c].candidate

OwnerInv == \A c \in Cycles : Own(c)

\* A cycle that moved the pointer is about to say so, has said so or was killed; its
\* manifest is whole until it says so.
Moved(c) ==
  /\ c \in moved <=> proc[c].result = "promoted"
  /\ c \in moved => proc[c].pc \in {"finish", "done", "killed"} /\ Approves(experiment[c])
  /\ c \in moved /\ proc[c].pc = "finish" => experiment[c].status \in {"approved", "promoted"}
  /\ experiment[c].status = "promoted" => c \in moved

MovedInv == \A c \in Cycles : Moved(c)

ActiveInv == active # Baseline => \E c \in moved : experiment[c].candidate = active

\* In a store that had its pointer.
LineInv == ~ fresh => StoreInv /\ OwnerInv /\ MovedInv /\ ActiveInv

\* What a cycle works with is a policy, what it comes to is one of the four outcomes,
\* and an rsi cycle loads nothing without the lock, also in a store without a pointer.
Work(c) ==
  /\ proc[c].pc = "evaluate" => proc[c].view \in Versions
  /\ proc[c].pc \in Working \ {"evaluate"} => proc[c].candidate \in Versions
  /\ proc[c].pc = "finish" => proc[c].result \in Final
  /\ c \in RsiCycles /\ proc[c].pc \in {"load"} \cup Creating => lock = c

WorkInv == \A c \in Cycles : Work(c)

IInv == TypeOK /\ WorkInv /\ LineInv

-----------------------------------------------------------------------------
\* The empty sequence is a version, and a version with a patch is another one.
LEMMA VersionsGrow ==
  /\ Baseline \in Versions
  /\ \A v \in Versions : \A patch \in Patches : Append(v, patch) \in Versions /\ Append(v, patch) # v
<1>1. Baseline \in Versions
  BY DEF Baseline, Versions
<1>2. ASSUME NEW v \in Versions, NEW patch \in Patches
      PROVE  Append(v, patch) \in Versions /\ Append(v, patch) # v
  <2>1. v \in Seq(Patches) /\ Len(v) \in Nat
    BY DEF Versions
  <2>2. Append(v, patch) \in Seq(Patches) /\ Len(Append(v, patch)) = Len(v) + 1
    BY <2>1
  <2> QED
    BY <2>1, <2>2 DEF Versions
<1> QED
  BY <1>1, <1>2

\* Only p moves.
Alone(p) == \A q \in Processes : q # p => proc'[q] = proc[q]

\* What a step of p leaves of p.
LEMMA GoesMoves ==
  ASSUME TypeOK, NEW p \in Processes, NEW phase, phase \in {proc[p].pc} \cup {"idle", "load", "lookup", "create", "created", "point", "pointed", "pin", "running",
         "lock", "evaluate", "write", "decide", "recheck", "seal", "activate", "activated",
         "finish", "done", "killed"}, Goes(p, phase)
  PROVE  /\ proc' \in [Processes -> Process] /\ Alone(p)
         /\ proc'[p].pc = phase /\ proc'[p].view = proc[p].view
         /\ proc'[p].candidate = proc[p].candidate /\ proc'[p].result = proc[p].result
BY DEF TypeOK, Goes, Alone, Process

\* What the end of a cycle leaves of it.
LEMMA EndsMoves ==
  ASSUME TypeOK, NEW p \in Processes, NEW result \in Final, Ends(p, result)
  PROVE  /\ proc' \in [Processes -> Process] /\ Alone(p)
         /\ proc'[p].pc = "finish" /\ proc'[p].view = proc[p].view
         /\ proc'[p].candidate = proc[p].candidate /\ proc'[p].result = result
BY DEF TypeOK, Ends, Alone, Process

\* What an exception leaves of a process.
LEMMA RaisedMoves ==
  ASSUME TypeOK, NEW p \in Processes, Raised(p)
  PROVE  /\ proc' \in [Processes -> Process] /\ Alone(p)
         /\ proc'[p].pc \in {"idle", "finish", "done"} /\ proc'[p].view = proc[p].view
         /\ proc'[p].candidate = proc[p].candidate
         /\ p \in Cycles => proc'[p].pc # "idle" /\ proc'[p].result \in {"error", "raised"}
         /\ lock' = IF lock = p THEN Nothing ELSE lock
BY PolicyAssumption DEF TypeOK, Raised, Alone, Process, Released, Holds, Final, Processes, Cycles

\* An exception that does not end a cycle becomes its result.
LEMMA RaisedEnds ==
  ASSUME TypeOK, NEW p \in Processes, Raised(p)
  PROVE  p \in Cycles /\ proc'[p].pc = "finish" => proc'[p].result \in Final
BY PolicyAssumption DEF TypeOK, Raised, Process, Final, Processes, Cycles

\* What loading the active policy leaves of a process.
LEMMA LoadedMoves ==
  ASSUME TypeOK, NEW p \in Processes, NEW v \in Versions, Loaded(p, v)
  PROVE  /\ proc' \in [Processes -> Process] /\ Alone(p)
         /\ proc'[p].view = v /\ proc'[p].candidate = proc[p].candidate
         /\ proc'[p].pc \in {"pin", "evaluate", "finish"}
         /\ p \in Sessions <=> proc'[p].pc = "pin"
         /\ p \in Cycles /\ lock = p <=> proc'[p].pc = "evaluate"
         /\ proc'[p].result \in {"error", proc[p].result}
         /\ p \in Improvers /\ lock # p => proc'[p].result = "error"
BY PolicyAssumption DEF TypeOK, Loaded, Alone, Process, Holds, Final, Processes, Cycles

\* What the release of the lock leaves of a process.
LEMMA DoneMoves ==
  ASSUME TypeOK, NEW p \in Processes, Done(p)
  PROVE  /\ proc' \in [Processes -> Process] /\ Alone(p)
         /\ proc'[p].pc = "done" /\ proc'[p].view = proc[p].view
         /\ proc'[p].candidate = proc[p].candidate /\ proc'[p].result = proc[p].result
         /\ lock' = IF lock = p THEN Nothing ELSE lock
BY DEF TypeOK, Done, Alone, Process, Released, Holds

\* What proposing a candidate leaves of a cycle.
LEMMA ProposedMoves ==
  ASSUME TypeOK, NEW p \in Processes, NEW v \in Versions, NEW phase \in {"write", "decide"},
         proc' = [proc EXCEPT ![p].candidate = v, ![p].pc = phase]
  PROVE  /\ proc' \in [Processes -> Process] /\ Alone(p)
         /\ proc'[p].pc = phase /\ proc'[p].view = proc[p].view
         /\ proc'[p].candidate = v /\ proc'[p].result = proc[p].result
BY DEF TypeOK, Alone, Process

\* What a decision that is written down leaves of an experiment.
LEMMA RecordedMoves ==
  ASSUME TypeOK, NEW c \in Cycles, NEW status \in {"approved", "rejected"}, NEW v \in Versions \cup {Nothing},
         experiment' = [experiment EXCEPT ![c].status = status, ![c].candidate = v]
  PROVE  /\ experiment' \in [Cycles -> Experiment]
         /\ \A d \in Cycles : d # c => experiment'[d] = experiment[d]
         /\ experiment'[c].status = status /\ experiment'[c].candidate = v
BY DEF TypeOK, Experiment, Final

-----------------------------------------------------------------------------
(* The types.                                                              *)

\* What the files of a finish leave of an experiment: a manifest that is cut off comes
\* after a decision and an outcome that are whole.
LEMMA FilesTyped ==
  ASSUME NEW e \in Experiment, NEW result \in Final, NEW n \in 0 .. 3, NEW cut \in BOOLEAN
  PROVE  /\ Files(e, result, n, cut) \in Experiment
         /\ Files(e, result, n, cut).status \in {e.status, result, "torn"}
         /\ Files(e, result, n, cut).candidate = e.candidate
         /\ result = "promoted" /\ e.status \in {"approved", "promoted"} => Approves(Files(e, result, n, cut))
<1> DEFINE promote == Written(1, Verdict(result), e.promote, n, cut)
           outcome == Written(2, result, e.outcome, n, cut)
           status  == Written(3, result, e.status, n, cut)
<1>1. /\ promote \in {"none", "yes", "no", "torn"} /\ outcome \in Final \cup {"none", "torn"}
      /\ status \in {e.status, result, "torn"}
  BY DEF Written, Verdict, Experiment
<1>2. status # e.status /\ status # result => n = 2 /\ promote = Verdict(result) /\ outcome = result
  BY DEF Written
<1>3. Files(e, result, n, cut) = [e EXCEPT !.promote = promote, !.outcome = outcome, !.status = status]
  BY DEF Files
<1> HIDE DEF promote, outcome, status
<1>4. e.status \in Final \cup {"none", "running", "approved", "torn"} /\ e.candidate \in Versions \cup {Nothing}
  BY DEF Experiment
<1>6. Files(e, result, n, cut)
        = [e EXCEPT !.status = status, !.promote = promote, !.outcome = outcome, !.candidate = e.candidate]
  BY <1>3 DEF Experiment
<1>5. /\ Files(e, result, n, cut) \in Experiment /\ Files(e, result, n, cut).candidate = e.candidate
      /\ Files(e, result, n, cut).status = status /\ Files(e, result, n, cut).promote = promote
      /\ Files(e, result, n, cut).outcome = outcome
  <2>1. status \in Final \cup {"none", "running", "approved", "torn"}
    BY <1>1, <1>4
  <2> QED
    BY <1>1, <1>4, <1>6, <2>1 DEF Experiment
<1> QED
  BY <1>1, <1>2, <1>5 DEF Approves, Verdict

\* What the cut of a comparison or of a seal leaves of an experiment.
LEMMA CutOffMoves ==
  ASSUME TypeOK, NEW c \in Cycles, CutOff(c)
  PROVE  /\ experiment' \in [Cycles -> Experiment]
         /\ \A d \in Cycles : d # c => experiment'[d] = experiment[d]
         /\ experiment'[c].status \in {experiment[c].status, "torn"}
         /\ experiment'[c].candidate = experiment[c].candidate
         /\ experiment'[c].compared \in {experiment[c].compared, "torn"}
         /\ proc[c].pc \notin {"decide", "seal"} => experiment'[c] = experiment[c]
<1>0. experiment \in [Cycles -> Experiment] /\ experiment[c] \in Experiment
  BY DEF TypeOK
<1>1. CASE experiment' = [experiment EXCEPT ![c].compared = IF At(c, "decide") THEN "torn" ELSE @]
  BY <1>0, <1>1 DEF Experiment, At
<1>2. ASSUME NEW n \in 0 .. 1, NEW cut \in BOOLEAN, At(c, "seal"),
             experiment' = [experiment EXCEPT ![c] = SealFiles(@, n, cut)]
      PROVE  /\ experiment' \in [Cycles -> Experiment]
             /\ \A d \in Cycles : d # c => experiment'[d] = experiment[d]
             /\ experiment'[c].status \in {experiment[c].status, "torn"}
             /\ experiment'[c].candidate = experiment[c].candidate
             /\ experiment'[c].compared = experiment[c].compared /\ proc[c].pc = "seal"
  <2> DEFINE promote == Written(1, "yes", experiment[c].promote, n, cut)
             status  == Written(2, "approved", experiment[c].status, n, cut)
  <2>1. promote \in {"none", "yes", "no", "torn"} /\ status \in {experiment[c].status, "torn"}
    BY <1>0 DEF Written, Experiment
  <2>2. experiment' = [experiment EXCEPT ![c] = [experiment[c] EXCEPT !.promote = promote, !.status = status]]
    BY <1>2 DEF SealFiles
  <2> HIDE DEF promote, status
  <2>3. /\ experiment[c].status \in Final \cup {"none", "running", "approved", "torn"}
        /\ experiment[c].outcome \in Final \cup {"none", "torn"} /\ experiment[c].candidate \in Versions \cup {Nothing}
    BY <1>0 DEF Experiment
  <2> DEFINE f == [experiment[c] EXCEPT !.status = status, !.promote = promote,
                                        !.outcome = experiment[c].outcome, !.candidate = experiment[c].candidate]
  <2>4. /\ f \in Experiment /\ f.status = status /\ f.candidate = experiment[c].candidate
        /\ f.compared = experiment[c].compared
    <3>1. status \in Final \cup {"none", "running", "approved", "torn"}
      BY <2>1, <2>3
    <3> QED
      BY <1>0, <2>1, <2>3, <3>1 DEF Experiment
  <2>5. experiment' = [experiment EXCEPT ![c] = f]
    BY <1>0, <2>2 DEF Experiment
  <2> HIDE DEF f
  <2> QED
    BY <1>0, <1>2, <2>1, <2>4, <2>5 DEF At
<1> QED
  BY <1>1, <1>2 DEF CutOff

\* What the seal leaves of an experiment.
LEMMA SealedMoves ==
  ASSUME TypeOK, NEW c \in Cycles,
         experiment' = [experiment EXCEPT ![c].status = "approved", ![c].promote = "yes",
                                          ![c].candidate = proc[c].candidate]
  PROVE  /\ experiment' \in [Cycles -> Experiment]
         /\ \A d \in Cycles : d # c => experiment'[d] = experiment[d]
         /\ experiment'[c].status = "approved" /\ experiment'[c].candidate = proc[c].candidate
<1>1. proc[c].candidate \in Versions \cup {Nothing} /\ experiment[c] \in Experiment
  BY DEF TypeOK, Process, Processes
<1> DEFINE f == [experiment[c] EXCEPT !.status = "approved", !.promote = "yes",
                                      !.outcome = experiment[c].outcome, !.candidate = proc[c].candidate]
<1>2. experiment[c].outcome \in Final \cup {"none", "torn"}
  BY <1>1 DEF Experiment
<1>3. f \in Experiment /\ f.status = "approved" /\ f.candidate = proc[c].candidate
  BY <1>1, <1>2 DEF Experiment
<1>4. experiment' = [experiment EXCEPT ![c] = f]
  BY <1>1 DEF TypeOK, Experiment
<1> HIDE DEF f
<1> QED
  BY <1>3, <1>4 DEF TypeOK

\* What the end of an rsi cycle leaves of it, whichever of its files was written.
LEMMA FinishRsiMoves ==
  ASSUME TypeOK, WorkInv, NEW c \in Cycles, NEW n \in 0 .. 3, NEW cut \in BOOLEAN, FinishRsi(c, n, cut)
  PROVE  /\ proc' \in [Processes -> Process] /\ Alone(c)
         /\ experiment' \in [Cycles -> Experiment]
         /\ \A d \in Cycles : d # c => experiment'[d] = experiment[d]
         /\ experiment'[c].status \in {experiment[c].status, proc[c].result, "torn"}
         /\ experiment'[c].candidate = experiment[c].candidate
         /\ proc[c].result = "promoted" /\ experiment[c].status \in {"approved", "promoted"}
              => Approves(experiment'[c]) /\ proc'[c].pc = "done"
         /\ proc'[c].pc \in {"finish", "done"}
         /\ proc[c].result = "promoted" => proc'[c].result = "promoted"
         /\ proc[c].result # "promoted" => proc'[c].result # "promoted"
         /\ lock' = IF lock = c THEN Nothing ELSE lock
         /\ failures' \in 0 .. MaxFailures
<1> c \in Processes
  BY DEF Processes
<1>0. At(c, "finish") /\ proc[c].result \in Final /\ experiment[c] \in Experiment
  BY DEF FinishRsi, At, WorkInv, Work, TypeOK
<1>1. /\ experiment' \in [Cycles -> Experiment]
      /\ \A d \in Cycles : d # c => experiment'[d] = experiment[d]
      /\ experiment'[c].status \in {experiment[c].status, proc[c].result, "torn"}
      /\ experiment'[c].candidate = experiment[c].candidate
      /\ proc[c].result = "promoted" /\ experiment[c].status \in {"approved", "promoted"} => Approves(experiment'[c])
  <2> DEFINE e == Files(experiment[c], proc[c].result, n, cut)
  <2>1. /\ e \in Experiment /\ e.status \in {experiment[c].status, proc[c].result, "torn"}
        /\ e.candidate = experiment[c].candidate
        /\ proc[c].result = "promoted" /\ experiment[c].status \in {"approved", "promoted"} => Approves(e)
    BY <1>0, FilesTyped
  <2>2. experiment' = [experiment EXCEPT ![c] = e]
    BY DEF FinishRsi
  <2> HIDE DEF e
  <2> QED
    BY <2>1, <2>2 DEF TypeOK
<1>2. CASE Done(c) /\ failures' \in 0 .. MaxFailures
  <2>1. proc[c].result = proc'[c].result
    BY <1>2, DoneMoves
  <2> QED
    BY <1>0, <1>1, <1>2, <2>1, DoneMoves
<1>3. CASE Raised(c) /\ failures' \in 0 .. MaxFailures /\ proc[c].result # "promoted"
  BY <1>0, <1>1, <1>3, RaisedMoves DEF Final
<1>4. CASE /\ lock' = Released(c) /\ failures' \in 0 .. MaxFailures /\ proc[c].result = "error"
           /\ proc' = [proc EXCEPT ![c].pc = "done", ![c].result = "raised"]
  <2>1. /\ proc' \in [Processes -> Process] /\ Alone(c)
        /\ proc'[c].pc = "done" /\ proc'[c].result = "raised"
    BY <1>4 DEF TypeOK, Process, Alone
  <2>2. lock' = IF lock = c THEN Nothing ELSE lock
    BY <1>4 DEF Released, Holds
  <2> QED
    BY <1>0, <1>1, <1>4, <2>1, <2>2
<1>5. failures' \in 0 .. MaxFailures
  BY PolicyAssumption DEF FinishRsi, TypeOK
<1> QED
  BY <1>2, <1>3, <1>4, <1>5 DEF FinishRsi


\* An rsi cycle that is not over has one of the four outcomes.
LEMMA FinishRsiEnds ==
  ASSUME TypeOK, NEW c \in Cycles, NEW n \in 0 .. 3, NEW cut \in BOOLEAN, FinishRsi(c, n, cut)
  PROVE  proc'[c].pc = "finish" => proc'[c].result \in Final
<1> c \in Processes
  BY DEF Processes
<1>1. CASE Done(c)
  BY <1>1, DoneMoves
<1>2. CASE Raised(c)
  BY <1>2, RaisedEnds
<1>3. CASE proc' = [proc EXCEPT ![c].pc = "done", ![c].result = "raised"]
  BY <1>3 DEF TypeOK, Process
<1> QED
  BY <1>1, <1>2, <1>3 DEF FinishRsi

\* What a kill or a failed write leaves of the experiment of a cycle.
Remains(c) ==
  /\ experiment'[c].status \in {experiment[c].status, "torn"} \cup (IF At(c, "finish") THEN {proc[c].result} ELSE {})
  /\ experiment'[c].candidate = experiment[c].candidate
  /\ proc[c].pc \notin {"decide", "seal", "finish"} => experiment'[c] = experiment[c]
  /\ At(c, "finish") /\ proc[c].result = "promoted" /\ experiment[c].status \in {"approved", "promoted"}
       => Approves(experiment'[c])

\* What a kill leaves of a process and its experiment.
LEMMA CrashMoves ==
  ASSUME TypeOK, WorkInv, NEW p \in Processes, Crash(p)
  PROVE  /\ proc' \in [Processes -> Process] /\ Alone(p)
         /\ proc'[p].pc \in {"idle", "killed"}
         /\ p \in Cycles => proc'[p].pc = "killed"
         /\ proc'[p].view = proc[p].view /\ proc'[p].result = proc[p].result
         /\ experiment' \in [Cycles -> Experiment]
         /\ \A d \in Cycles : d # p => experiment'[d] = experiment[d]
         /\ p \in Cycles => Remains(p)
<1>1. \E phase \in {"idle", "killed"} : Goes(p, phase) /\ (p \in Cycles => phase = "killed")
  BY PolicyAssumption DEF Crash, Processes
<1>2. /\ proc' \in [Processes -> Process] /\ Alone(p)
      /\ proc'[p].pc \in {"idle", "killed"}
      /\ p \in Cycles => proc'[p].pc = "killed"
      /\ proc'[p].view = proc[p].view /\ proc'[p].result = proc[p].result
  BY <1>1, GoesMoves
<1>4. CASE p \in RsiCycles /\ CutOff(p)
  <2>1. p \in Cycles
    BY <1>4 DEF Cycles
  <2>2. CASE At(p, "finish")
    <3>1. experiment'[p] = experiment[p]
      BY <1>4, <2>1, <2>2, CutOffMoves DEF At
    <3> QED
      BY <1>2, <1>4, <2>1, <2>2, <3>1, CutOffMoves DEF Remains, Approves
  <2>3. CASE ~ At(p, "finish")
    BY <1>2, <1>4, <2>1, <2>3, CutOffMoves DEF Remains
  <2> QED
    BY <2>2, <2>3
<1>5. ASSUME p \in RsiCycles, At(p, "finish"), NEW n \in 0 .. 3, NEW cut \in BOOLEAN,
             experiment' = [experiment EXCEPT ![p] = Files(@, proc[p].result, n, cut)]
      PROVE  /\ experiment' \in [Cycles -> Experiment]
             /\ \A d \in Cycles : d # p => experiment'[d] = experiment[d]
             /\ Remains(p)
  <2> p \in Cycles
    BY <1>5 DEF Cycles
  <2>0. proc[p].result \in Final /\ experiment[p] \in Experiment
    BY <1>5 DEF At, WorkInv, Work, TypeOK
  <2> DEFINE e == Files(experiment[p], proc[p].result, n, cut)
  <2>1. /\ e \in Experiment /\ e.status \in {experiment[p].status, proc[p].result, "torn"}
        /\ e.candidate = experiment[p].candidate
        /\ proc[p].result = "promoted" /\ experiment[p].status \in {"approved", "promoted"} => Approves(e)
    BY <2>0, FilesTyped
  <2>2. experiment' = [experiment EXCEPT ![p] = e]
    BY <1>5
  <2> HIDE DEF e
  <2>3. /\ experiment' \in [Cycles -> Experiment] /\ experiment'[p] = e
        /\ \A d \in Cycles : d # p => experiment'[d] = experiment[d]
    BY <2>1, <2>2 DEF TypeOK
  <2> QED
    BY <1>5, <2>1, <2>3 DEF Remains, At
<1>6. CASE UNCHANGED experiment
  BY <1>2, <1>6 DEF TypeOK, Remains, Approves
<1> QED
  BY <1>2, <1>4, <1>5, <1>6 DEF Crash



\* The beginning.
LEMMA InitTyped == Init => TypeOK
<1> SUFFICES ASSUME Init PROVE TypeOK
  OBVIOUS
<1>1. Baseline \in Versions
  BY VersionsGrow
<1>2. proc \in [Processes -> Process] /\ experiment \in [Cycles -> Experiment]
  BY DEF Init, Process, Experiment, NoExperiment
<1>3. DOMAIN versions \subseteq Versions /\ \A v \in DOMAIN versions : versions[v] \in Processes \cup {Nothing}
  <2>1. CASE fresh
    <3>1. versions = <<>>
      BY <2>1 DEF Init
    <3>2. DOMAIN versions = {}
      BY <3>1
    <3> QED
      BY <3>2
  <2>2. CASE ~ fresh
    BY <1>1, <2>2 DEF Init
  <2> QED
    BY <2>1, <2>2
<1> QED
  BY <1>1, <1>2, <1>3, PolicyAssumption DEF Init, TypeOK

\* Loading the active policy keeps the types.
LEMMA LoadTyped ==
  ASSUME TypeOK, NEW p \in Processes, LoadActive(p)
  PROVE  TypeOK'
<1>0. Baseline \in Versions
  BY VersionsGrow
<1>1. CASE ReadPointer(p)
  <2>1. CASE active # Nothing
    <3>1. Loaded(p, active) /\ active \in Versions
      BY <1>1, <2>1 DEF ReadPointer, TypeOK
    <3>2. proc' \in [Processes -> Process]
      BY <3>1, LoadedMoves
    <3> QED
      BY <1>1, <3>2 DEF ReadPointer, TypeOK, store, bounds
  <2>2. CASE active = Nothing
    <3>1. proc' \in [Processes -> Process]
      BY <1>1, <2>2, GoesMoves DEF ReadPointer
    <3> QED
      BY <1>1, <3>1 DEF ReadPointer, TypeOK, store, bounds
  <2> QED
    BY <2>1, <2>2
<1>2. CASE LookUp(p)
  <2>1. proc' \in [Processes -> Process]
    <3>1. CASE Exists(Baseline)
      BY <1>2, <3>1, GoesMoves DEF LookUp
    <3>2. CASE ~ Exists(Baseline)
      BY <1>2, <3>2, GoesMoves DEF LookUp
    <3> QED
      BY <3>1, <3>2
  <2> QED
    BY <1>2, <2>1 DEF LookUp, TypeOK, store, bounds
<1>3. CASE Create(p)
  <2>1. /\ proc' \in [Processes -> Process] /\ lock' \in Cycles \cup {Nothing}
        /\ drafts' \in Processes \cup {Nothing}
    <3>1. CASE Exists(Baseline)
      BY <1>3, <3>1, RaisedMoves DEF Create, TypeOK
    <3>2. CASE ~ Exists(Baseline)
      BY <1>3, <3>2, GoesMoves DEF Create, TypeOK
    <3> QED
      BY <3>1, <3>2
  <2> QED
    BY <1>3, <2>1 DEF Create, TypeOK, bounds
<1>4. CASE CreateRenames(p)
  <2>1. /\ proc' \in [Processes -> Process] /\ lock' \in Cycles \cup {Nothing}
        /\ drafts' \in Processes \cup {Nothing}
        /\ DOMAIN versions' \subseteq Versions
        /\ \A v \in DOMAIN versions' : versions'[v] \in Processes \cup {Nothing}
    <3>1. CASE drafts = Nothing
      BY <1>4, <3>1, RaisedMoves DEF CreateRenames, TypeOK
    <3>2. CASE drafts # Nothing
      BY <1>4, <3>2, <1>0, GoesMoves DEF CreateRenames, TypeOK, Stored
    <3> QED
      BY <3>1, <3>2
  <2> QED
    BY <1>4, <2>1 DEF CreateRenames, TypeOK, bounds
<1>5. CASE Point(p)
  <2>1. proc' \in [Processes -> Process]
    BY <1>5, GoesMoves DEF Point
  <2> QED
    BY <1>0, <1>5, <2>1 DEF Point, TypeOK, bounds
<1>6. CASE PointRenames(p)
  <2>1. /\ proc' \in [Processes -> Process] /\ lock' \in Cycles \cup {Nothing}
        /\ active' \in Versions \cup {Nothing} /\ temporary' \in Versions \cup {Nothing}
    <3>1. CASE temporary = Nothing
      BY <1>6, <3>1, RaisedMoves DEF PointRenames, TypeOK
    <3>2. CASE temporary # Nothing
      BY <1>0, <1>6, <3>2, LoadedMoves DEF PointRenames, TypeOK
    <3> QED
      BY <3>1, <3>2
  <2> QED
    BY <1>6, <2>1 DEF PointRenames, TypeOK, bounds
<1> QED
  BY <1>1, <1>2, <1>3, <1>4, <1>5, <1>6 DEF LoadActive

\* A step of a session keeps the types.
LEMMA SessionTyped ==
  ASSUME TypeOK, NEW s \in Sessions, SessionStarts(s) \/ Pin(s) \/ SessionEnds(s)
  PROVE  TypeOK'
<1> s \in Processes
  BY DEF Processes
<1>1. CASE SessionStarts(s)
  <2>1. proc' \in [Processes -> Process]
    <3>1. CASE snapshot[s] # Nothing
      BY <1>1, <3>1 DEF SessionStarts, TypeOK, Process
    <3>2. CASE snapshot[s] = Nothing
      BY <1>1, <3>2, GoesMoves DEF SessionStarts
    <3> QED
      BY <3>1, <3>2
  <2> QED
    BY <1>1, <2>1 DEF SessionStarts, TypeOK, store, bounds
<1>2. CASE Pin(s)
  <2>1. proc' \in [Processes -> Process]
    BY <1>2, GoesMoves DEF Pin
  <2>2. snapshot' \in [Sessions -> Versions \cup {Nothing}]
    BY <1>2 DEF Pin, TypeOK, Process
  <2> QED
    BY <1>2, <2>1, <2>2 DEF Pin, TypeOK, store, bounds
<1>3. CASE SessionEnds(s)
  <2>1. proc' \in [Processes -> Process]
    BY <1>3, GoesMoves DEF SessionEnds
  <2> QED
    BY <1>3, <2>1 DEF SessionEnds, TypeOK, store, bounds
<1> QED
  BY <1>1, <1>2, <1>3

\* A failed activation keeps the types.
LEMMA ActivationFailedTyped ==
  ASSUME TypeOK, NEW c \in Cycles, ActivationFailed(c)
  PROVE  /\ proc' \in [Processes -> Process] /\ lock' \in Cycles \cup {Nothing}
         /\ experiment' \in [Cycles -> Experiment]
<1> c \in Processes
  BY DEF Processes
<1>1. CASE c \in RsiCycles
  BY <1>1, RaisedMoves DEF ActivationFailed, TypeOK
<1>2. CASE c \notin RsiCycles /\ active = proc[c].candidate
  BY <1>2, EndsMoves DEF ActivationFailed, TypeOK, Final
<1>3. CASE c \notin RsiCycles /\ active # proc[c].candidate
  <2>1. Ends(c, "error") /\ RecordCycleError(c) /\ UNCHANGED lock
    BY <1>3 DEF ActivationFailed
  <2>2. proc' \in [Processes -> Process]
    BY <2>1, EndsMoves DEF Final
  <2>3. experiment' \in [Cycles -> Experiment]
    BY <2>1 DEF RecordCycleError, TypeOK, Experiment, Final
  <2> QED
    BY <2>1, <2>2, <2>3 DEF TypeOK
<1> QED
  BY <1>1, <1>2, <1>3

\* Taking the lock, evaluating and deciding keep the types.
LEMMA DecisionTyped ==
  ASSUME TypeOK, WorkInv, NEW c \in Cycles, NEW promote \in BOOLEAN,
         Begin(c) \/ Acquire(c) \/ Evaluate(c) \/ WriteCandidate(c) \/ Decide(c, promote)
  PROVE  TypeOK'
<1> c \in Processes
  BY DEF Processes
<1>1. CASE Begin(c)
  <2>1. proc' \in [Processes -> Process]
    BY <1>1, GoesMoves DEF Begin
  <2>2. experiment' \in [Cycles -> Experiment]
    BY <1>1 DEF Begin, TypeOK, Experiment
  <2> QED
    BY <1>1, <2>1, <2>2 DEF Begin, TypeOK, store, bounds
<1>2. CASE Acquire(c)
  <2>1. proc' \in [Processes -> Process] /\ lock' \in Cycles \cup {Nothing}
    <3>1. CASE Goes(c, "load")
      BY <1>2, <3>1, GoesMoves DEF Acquire, TypeOK
    <3>2. CASE Ends(c, "error") /\ UNCHANGED lock
      BY <3>2, EndsMoves DEF TypeOK, Final
    <3> QED
      BY <1>2, <3>1, <3>2 DEF Acquire
  <2> QED
    BY <1>2, <2>1 DEF Acquire, TypeOK, store, bounds
<1>3. CASE Evaluate(c)
  <2>1. proc' \in [Processes -> Process] /\ experiment' \in [Cycles -> Experiment]
    <3>1. ASSUME NEW result \in Final \ {"promoted"}, Ends(c, result),
                 IF c \in Improvers /\ result = "error" THEN RecordCycleError(c) ELSE UNCHANGED experiment
          PROVE  proc' \in [Processes -> Process] /\ experiment' \in [Cycles -> Experiment]
      <4>1. proc' \in [Processes -> Process]
        BY <3>1, EndsMoves
      <4>2. experiment' \in [Cycles -> Experiment]
        BY <3>1 DEF RecordCycleError, TypeOK, Experiment, Final
      <4> QED
        BY <4>1, <4>2
    <3>2. ASSUME NEW patch \in Patches,
                 proc' = [proc EXCEPT ![c].candidate = Append(proc[c].view, patch),
                                      ![c].pc = IF c \in RsiCycles THEN "write" ELSE "decide"],
                 UNCHANGED experiment
          PROVE  proc' \in [Processes -> Process] /\ experiment' \in [Cycles -> Experiment]
      <4>1. Append(proc[c].view, patch) \in Versions
        BY <1>3, VersionsGrow DEF Evaluate, At, WorkInv, Work
      <4> DEFINE v == Append(proc[c].view, patch)
      <4> HIDE DEF v
      <4>2. v \in Versions
        BY <4>1 DEF v
      <4>3. CASE c \in RsiCycles
        <5>1. proc' = [proc EXCEPT ![c].candidate = v, ![c].pc = "write"]
          BY <3>2, <4>3 DEF v
        <5> QED
          BY <3>2, <4>2, <5>1, ProposedMoves DEF TypeOK
      <4>4. CASE c \notin RsiCycles
        <5>1. proc' = [proc EXCEPT ![c].candidate = v, ![c].pc = "decide"]
          BY <3>2, <4>4 DEF v
        <5> QED
          BY <3>2, <4>2, <5>1, ProposedMoves DEF TypeOK
      <4> QED
        BY <4>3, <4>4
    <3> QED
      BY <1>3, <3>1, <3>2 DEF Evaluate
  <2> QED
    BY <1>3, <2>1 DEF Evaluate, TypeOK, store, bounds
<1>4. CASE WriteCandidate(c)
  <2>1. /\ proc' \in [Processes -> Process] /\ lock' \in Cycles \cup {Nothing}
        /\ experiment' \in [Cycles -> Experiment]
        /\ DOMAIN versions' \subseteq Versions
        /\ \A v \in DOMAIN versions' : versions'[v] \in Processes \cup {Nothing}
    <3>1. CASE Exists(proc[c].candidate)
      BY <1>4, <3>1, ActivationFailedTyped DEF WriteCandidate, TypeOK
    <3>2. CASE ~ Exists(proc[c].candidate)
      <4>1. proc' \in [Processes -> Process]
        <5>1. CASE c \in RsiCycles
          BY <1>4, <3>2, <5>1, GoesMoves DEF WriteCandidate
        <5>2. CASE c \notin RsiCycles
          BY <1>4, <3>2, <5>2, GoesMoves DEF WriteCandidate
        <5> QED
          BY <5>1, <5>2
      <4>2. proc[c].candidate \in Versions
        BY <1>4 DEF WriteCandidate, At, WorkInv, Work, Working
      <4> QED
        BY <1>4, <3>2, <4>1, <4>2 DEF WriteCandidate, TypeOK, Stored
    <3> QED
      BY <3>1, <3>2
  <2> QED
    BY <1>4, <2>1 DEF WriteCandidate, TypeOK, bounds
<1>5. CASE Decide(c, promote)
  <2>1. proc' \in [Processes -> Process]
    <3>1. CASE ~ promote
      BY <1>5, <3>1, EndsMoves DEF Decide, Final
    <3>2. CASE promote /\ c \in RsiCycles
      BY <1>5, <3>2, GoesMoves DEF Decide
    <3>3. CASE promote /\ c \notin RsiCycles
      BY <1>5, <3>3, GoesMoves DEF Decide
    <3> QED
      BY <3>1, <3>2, <3>3
  <2>2. experiment' \in [Cycles -> Experiment]
    <3>1. proc[c].candidate \in Versions \cup {Nothing}
      BY DEF TypeOK, Process
    <3>2. CASE c \in RsiCycles /\ promote
      BY <1>5, <3>2 DEF Decide, TypeOK, Experiment
    <3>3. CASE c \in RsiCycles /\ ~ promote
      BY <1>5, <3>3 DEF Decide, TypeOK, Experiment
    <3>4. CASE c \notin RsiCycles /\ promote
      BY <1>5, <3>1, <3>4, RecordedMoves DEF Decide
    <3>5. CASE c \notin RsiCycles /\ ~ promote
      BY <1>5, <3>1, <3>5, RecordedMoves DEF Decide
    <3> QED
      BY <3>2, <3>3, <3>4, <3>5
  <2> QED
    BY <1>5, <2>1, <2>2 DEF Decide, TypeOK, store, bounds
<1> QED
  BY <1>1, <1>2, <1>3, <1>4, <1>5

\* The end of a cycle keeps the types.
LEMMA FinishTyped ==
  ASSUME TypeOK, WorkInv, NEW c \in Cycles,
         \/ Recheck(c) \/ Seal(c) \/ Activate(c) \/ ActivateRenames(c)
         \/ \E n \in 0 .. 3, cut \in BOOLEAN : FinishRsi(c, n, cut)
         \/ \E ok \in BOOLEAN : FinishImprover(c, ok)
  PROVE  TypeOK'
<1> c \in Processes
  BY DEF Processes
<1>1. CASE Recheck(c)
  <2>1. proc' \in [Processes -> Process]
    <3>1. CASE active # proc[c].view
      BY <1>1, <3>1, EndsMoves DEF Recheck, Final
    <3>2. CASE active = proc[c].view
      BY <1>1, <3>2, GoesMoves DEF Recheck
    <3> QED
      BY <3>1, <3>2
  <2> QED
    BY <1>1, <2>1 DEF Recheck, TypeOK, store, bounds
<1>2. CASE Seal(c)
  <2>1. proc' \in [Processes -> Process]
    BY <1>2, GoesMoves DEF Seal
  <2>2. experiment' \in [Cycles -> Experiment]
    BY <1>2, SealedMoves DEF Seal
  <2> QED
    BY <1>2, <2>1, <2>2 DEF Seal, TypeOK, store, bounds
<1>3. CASE Activate(c)
  <2>1. proc' \in [Processes -> Process]
    BY <1>3, GoesMoves DEF Activate
  <2>2. temporary' \in Versions \cup {Nothing}
    BY <1>3 DEF Activate, TypeOK, Process
  <2> QED
    BY <1>3, <2>1, <2>2 DEF Activate, TypeOK, bounds
<1>4. CASE ActivateRenames(c)
  <2>1. /\ proc' \in [Processes -> Process] /\ lock' \in Cycles \cup {Nothing}
        /\ experiment' \in [Cycles -> Experiment]
        /\ active' \in Versions \cup {Nothing} /\ temporary' \in Versions \cup {Nothing}
        /\ moved' \subseteq Cycles
    <3>1. CASE temporary = Nothing
      BY <1>4, <3>1, ActivationFailedTyped DEF ActivateRenames, TypeOK
    <3>2. CASE temporary # Nothing
      <4>1. proc' \in [Processes -> Process]
        BY <1>4, <3>2, EndsMoves DEF ActivateRenames, Final
      <4> QED
        BY <1>4, <3>2, <4>1 DEF ActivateRenames, TypeOK
    <3> QED
      BY <3>1, <3>2
  <2> QED
    BY <1>4, <2>1 DEF ActivateRenames, TypeOK, bounds
<1>5. ASSUME NEW n \in 0 .. 3, NEW cut \in BOOLEAN, FinishRsi(c, n, cut)
      PROVE  TypeOK'
  <2>1. /\ proc' \in [Processes -> Process] /\ lock' \in Cycles \cup {Nothing}
        /\ failures' \in 0 .. MaxFailures
    <3>1. lock' = IF lock = c THEN Nothing ELSE lock
      BY <1>5, FinishRsiMoves
    <3> QED
      BY <1>5, <3>1, FinishRsiMoves DEF TypeOK
  <2>2. experiment' \in [Cycles -> Experiment]
    BY <1>5, FinishRsiMoves
  <2> QED
    BY <1>5, <2>1, <2>2 DEF FinishRsi, TypeOK, store
<1>6. ASSUME NEW ok \in BOOLEAN, FinishImprover(c, ok)
      PROVE  TypeOK'
  <2>1. proc' \in [Processes -> Process] /\ lock' \in Cycles \cup {Nothing}
    BY <1>6, DoneMoves DEF FinishImprover, TypeOK
  <2>2. experiment' \in [Cycles -> Experiment]
    <3>1. CASE experiment' = [experiment EXCEPT ![c].status = "promoted"]
      BY <3>1 DEF TypeOK, Experiment, Final
    <3>2. CASE UNCHANGED experiment
      BY <3>2 DEF TypeOK
    <3> QED
      BY <1>6, <3>1, <3>2 DEF FinishImprover
  <2>3. failures' \in 0 .. MaxFailures
    BY <1>6, PolicyAssumption DEF FinishImprover, TypeOK
  <2> QED
    BY <1>6, <2>1, <2>2, <2>3 DEF FinishImprover, TypeOK, store
<1> QED
  BY <1>1, <1>2, <1>3, <1>4, <1>5, <1>6

\* A failed write and a kill keep the types.
LEMMA FaultTyped ==
  ASSUME TypeOK, WorkInv, NEW p \in Processes, WriteFails(p) \/ Crash(p)
  PROVE  TypeOK'
<1>1. CASE WriteFails(p)
  <2>1. /\ proc' \in [Processes -> Process] /\ lock' \in Cycles \cup {Nothing}
        /\ experiment' \in [Cycles -> Experiment]
    <3>1. CASE Raised(p) /\ UNCHANGED experiment
      BY <3>1, RaisedMoves DEF TypeOK
    <3>2. CASE Ends(p, "error") /\ UNCHANGED <<lock, experiment>>
      BY <3>2, EndsMoves DEF TypeOK, Final
    <3>3. CASE p \in Cycles /\ ActivationFailed(p)
      BY <3>3, ActivationFailedTyped
    <3>4. CASE p \in Cycles /\ Raised(p) /\ CutOff(p)
      <4>1. experiment' \in [Cycles -> Experiment]
        BY <3>4, CutOffMoves
      <4> QED
        BY <3>4, <4>1, RaisedMoves DEF TypeOK
    <3> QED
      BY <1>1, <3>1, <3>2, <3>3, <3>4 DEF WriteFails, Cycles
  <2>2. failures' \in 0 .. MaxFailures
    BY <1>1, PolicyAssumption DEF WriteFails, TypeOK
  <2> QED
    BY <1>1, <2>1, <2>2 DEF WriteFails, TypeOK, store
<1>2. CASE Crash(p)
  <2>1. proc' \in [Processes -> Process] /\ experiment' \in [Cycles -> Experiment]
    BY <1>2, CrashMoves
  <2>2. crashes' \in 0 .. MaxCrashes
    BY <1>2, PolicyAssumption DEF Crash, TypeOK
  <2> QED
    BY <1>2, <2>1, <2>2 DEF Crash, TypeOK, store
<1> QED
  BY <1>1, <1>2

-----------------------------------------------------------------------------
(* One process moves: what it must show for the others to be untouched.     *)

\* Every other cycle works as before if the lock is taken from nobody else.
LEMMA WorkKept ==
  ASSUME WorkInv, NEW p \in Processes, Alone(p),
         lock # p /\ lock # Nothing => lock' = lock,
         p \in Cycles => Work(p)'
  PROVE  WorkInv'
<1> SUFFICES ASSUME NEW c \in Cycles PROVE Work(c)'
  BY DEF WorkInv
<1>1. CASE c = p
  BY <1>1
<1>2. CASE c # p
  <2>1. c \in Processes /\ Work(c) /\ proc'[c] = proc[c] /\ c # Nothing
    BY <1>2, PolicyAssumption DEF WorkInv, Alone, Processes
  <2>2. lock = c => lock' = c
    BY <1>2, <2>1
  <2> QED
    BY <2>1, <2>2 DEF Work
<1> QED
  BY <1>1, <1>2

\* So is the line of policies, if the pointer stays.
LEMMA LineKept ==
  ASSUME TypeOK, StoreInv, OwnerInv, MovedInv, ActiveInv, NEW p \in Processes, Alone(p),
         lock # p /\ lock # Nothing => lock' = lock,
         temporary' = temporary \/ lock = p,
         active' = active, moved' = moved,
         \A d \in Cycles : d # p => experiment'[d] = experiment[d],
         proc'[p].pc \notin Creating,
         p \in Cycles => Own(p)' /\ Moved(p)',
         p \in Cycles /\ p \in moved => experiment'[p].candidate = experiment[p].candidate
  PROVE  StoreInv' /\ OwnerInv' /\ MovedInv' /\ ActiveInv'
<1>1. StoreInv'
  BY DEF StoreInv, Alone
<1>2. ASSUME NEW c \in Cycles PROVE Own(c)' /\ Moved(c)'
  <2>1. CASE c = p
    BY <2>1
  <2>2. CASE c # p
    <3>1. /\ c \in Processes /\ Own(c) /\ Moved(c) /\ proc'[c] = proc[c] /\ c # Nothing
          /\ experiment'[c] = experiment[c]
      BY <2>2, PolicyAssumption DEF OwnerInv, MovedInv, Alone, Processes
    <3>2. Moved(c)'
      BY <3>1 DEF Moved
    <3>3. lock = c => lock' = c /\ temporary' = temporary
      BY <2>2, <3>1
    <3>4. Own(c)'
      BY <3>1, <3>3 DEF Own
    <3> QED
      BY <3>2, <3>4
  <2> QED
    BY <2>1, <2>2
<1>3. ActiveInv'
  <2> SUFFICES ASSUME active # Baseline
               PROVE  \E c \in moved : experiment'[c].candidate = active
    BY DEF ActiveInv
  <2>1. PICK c \in moved : experiment[c].candidate = active
    BY DEF ActiveInv
  <2>2. c \in Cycles
    BY <2>1 DEF TypeOK
  <2>3. experiment'[c].candidate = active
    <3>1. CASE c = p
      BY <2>1, <2>2, <3>1
    <3>2. CASE c # p
      BY <2>1, <2>2, <3>2
    <3> QED
      BY <3>1, <3>2
  <2> QED
    BY <2>1, <2>3
<1> QED
  BY <1>1, <1>2, <1>3 DEF OwnerInv, MovedInv


\* Loading the active policy.
LEMMA LoadKeeps ==
  ASSUME TypeOK, WorkInv, LineInv, NEW p \in Processes, LoadActive(p)
  PROVE  WorkInv' /\ LineInv'
<1>0. Baseline \in Versions /\ Nothing \notin Versions
  BY VersionsGrow, PolicyAssumption
<1>1. CASE ReadPointer(p) /\ active # Nothing
  <2>1. Loaded(p, active) /\ active \in Versions /\ lock' = lock
    BY <1>1 DEF ReadPointer, TypeOK
  <2>2. /\ Alone(p) /\ proc'[p].view = active
        /\ proc'[p].pc \in {"pin", "evaluate", "finish"}
        /\ p \in Cycles /\ lock = p <=> proc'[p].pc = "evaluate"
        /\ proc'[p].result \in {"error", proc[p].result}
        /\ p \in Improvers /\ lock # p => proc'[p].result = "error"
        /\ p \in Sessions <=> proc'[p].pc = "pin"
    BY <2>1, LoadedMoves
  <2>3. p \in Cycles => Work(p)'
    <3> SUFFICES ASSUME p \in Cycles PROVE Work(p)'
      OBVIOUS
    <3>1. proc'[p].pc = "finish" => proc'[p].result \in Final
      <4>1. p \in RsiCycles => lock = p
        BY <1>1 DEF ReadPointer, At, WorkInv, Work
      <4> QED
        BY <2>2, <4>1 DEF Cycles, Final
    <3> QED
      BY <2>1, <2>2, <3>1 DEF Work, Working, Creating
  <2>4. WorkInv'
    BY <2>1, <2>2, <2>3, WorkKept
  <2>5. LineInv'
    <3> SUFFICES ASSUME ~ fresh PROVE StoreInv' /\ OwnerInv' /\ MovedInv' /\ ActiveInv'
      BY <1>1 DEF ReadPointer, LineInv
    <3>1. StoreInv /\ OwnerInv /\ MovedInv /\ ActiveInv
      BY DEF LineInv
    <3>2. UNCHANGED <<active, temporary, moved, experiment>>
      BY <1>1 DEF ReadPointer, store
    <3>3. p \in Cycles => Own(p)' /\ Moved(p)'
      <4> SUFFICES ASSUME p \in Cycles PROVE Own(p)' /\ Moved(p)'
        OBVIOUS
      <4>1. Moved(p) /\ proc[p].pc = "load"
        BY <1>1, <3>1 DEF MovedInv, ReadPointer, At
      <4>2. Moved(p)'
        BY <2>2, <3>2, <4>1 DEF Moved
      <4>3. Own(p)'
        BY <2>1, <2>2, <3>2 DEF Own, Working
      <4> QED
        BY <4>2, <4>3
    <3>4. proc'[p].pc \notin Creating
      BY <2>2 DEF Creating
    <3> QED
      BY <2>1, <2>2, <3>1, <3>2, <3>3, <3>4, LineKept
  <2> QED
    BY <2>4, <2>5
<1>2. CASE ~ (ReadPointer(p) /\ active # Nothing)
  <2>1. fresh
    <3> SUFFICES ASSUME ~ fresh PROVE FALSE
      BY DEF TypeOK
    <3>1. active # Nothing /\ proc[p].pc \notin Creating
      BY DEF LineInv, StoreInv
    <3>2. ~ ReadPointer(p)
      BY <1>2, <3>1
    <3> QED
      BY <3>1, <3>2 DEF LoadActive, LookUp, Create, CreateRenames, Point, PointRenames, At, Creating
  <2>2. LineInv'
    BY <2>1 DEF LineInv, LoadActive, ReadPointer, LookUp, Create, CreateRenames, Point, PointRenames
  <2>3. /\ Alone(p) /\ (lock # p => lock' = lock)
        /\ p \in Cycles => Work(p)'
    <3>1. CASE ReadPointer(p) /\ active = Nothing
      <4>1. Goes(p, "lookup") /\ lock' = lock /\ proc[p].pc = "load"
        BY <3>1 DEF ReadPointer, At
      <4>2. Alone(p) /\ proc'[p].pc = "lookup"
        BY <4>1, GoesMoves
      <4> QED
        BY <4>1, <4>2 DEF WorkInv, Work, Working, Creating
    <3>2. CASE LookUp(p)
      <4>1. Alone(p) /\ proc'[p].pc \in {"create", "point"} /\ lock' = lock /\ proc[p].pc = "lookup"
        <5>1. CASE Exists(Baseline)
          BY <3>2, <5>1, GoesMoves DEF LookUp, At
        <5>2. CASE ~ Exists(Baseline)
          BY <3>2, <5>2, GoesMoves DEF LookUp, At
        <5> QED
          BY <5>1, <5>2
      <4> QED
        BY <4>1 DEF WorkInv, Work, Working, Creating
    <3>3. CASE Raised(p)
      <4>1. /\ Alone(p) /\ proc'[p].pc \in {"idle", "finish", "done"}
            /\ p \in Cycles => proc'[p].result \in {"error", "raised"}
            /\ lock' = IF lock = p THEN Nothing ELSE lock
        BY <3>3, RaisedMoves
      <4>2. p \in Cycles /\ proc'[p].pc = "finish" => proc'[p].result \in Final
        BY <3>3, RaisedEnds
      <4> QED
        BY <4>1, <4>2 DEF Work, Working, Creating
    <3>4. CASE Goes(p, "created") /\ lock' = lock /\ proc[p].pc = "create"
      BY <3>4, GoesMoves DEF WorkInv, Work, Working, Creating
    <3>5. CASE Goes(p, "point") /\ lock' = lock /\ proc[p].pc = "created"
      BY <3>5, GoesMoves DEF WorkInv, Work, Working, Creating
    <3>6. CASE Goes(p, "pointed") /\ lock' = lock /\ proc[p].pc = "point"
      BY <3>6, GoesMoves DEF WorkInv, Work, Working, Creating
    <3>7. CASE Loaded(p, Baseline) /\ lock' = lock /\ proc[p].pc = "pointed"
      <4>1. /\ Alone(p) /\ proc'[p].view = Baseline
            /\ proc'[p].pc \in {"pin", "evaluate", "finish"}
            /\ p \in Cycles /\ lock = p <=> proc'[p].pc = "evaluate"
            /\ p \in Improvers /\ lock # p => proc'[p].result = "error"
        BY <1>0, <3>7, LoadedMoves
      <4>2. p \in RsiCycles => lock = p
        BY <3>7 DEF WorkInv, Work, Creating, Cycles
      <4> QED
        BY <1>0, <3>7, <4>1, <4>2 DEF Work, Working, Creating, Cycles, Final
    <3> QED
      BY <1>2, <3>1, <3>2, <3>3, <3>4, <3>5, <3>6, <3>7
      DEF LoadActive, ReadPointer, Create, CreateRenames, Point, PointRenames, At
  <2>4. WorkInv'
    BY <2>3, WorkKept
  <2> QED
    BY <2>2, <2>4
<1> QED
  BY <1>1, <1>2

\* Steps of sessions.
LEMMA SessionKeeps ==
  ASSUME TypeOK, WorkInv, LineInv, NEW s \in Sessions, SessionStarts(s) \/ Pin(s) \/ SessionEnds(s)
  PROVE  WorkInv' /\ LineInv'
<1> s \in Processes /\ s \notin Cycles
  BY PolicyAssumption DEF Processes
<1>1. Alone(s) /\ proc'[s].pc \in {"running", "load", "idle"}
  <2>1. CASE SessionStarts(s) /\ snapshot[s] # Nothing
    BY <2>1 DEF SessionStarts, Alone, TypeOK, Process
  <2>2. CASE SessionStarts(s) /\ snapshot[s] = Nothing
    BY <2>2, GoesMoves DEF SessionStarts
  <2>3. CASE Pin(s)
    BY <2>3, GoesMoves DEF Pin
  <2>4. CASE SessionEnds(s)
    BY <2>4, GoesMoves DEF SessionEnds
  <2> QED
    BY <2>1, <2>2, <2>3, <2>4
<1>2. UNCHANGED <<fresh, active, temporary, lock, experiment, moved>>
  BY DEF SessionStarts, Pin, SessionEnds, store
<1>3. WorkInv'
  BY <1>1, <1>2, WorkKept
<1>4. LineInv'
  <2> SUFFICES ASSUME ~ fresh PROVE StoreInv' /\ OwnerInv' /\ MovedInv' /\ ActiveInv'
    BY <1>2 DEF LineInv
  <2>1. StoreInv /\ OwnerInv /\ MovedInv /\ ActiveInv
    BY DEF LineInv
  <2>2. proc'[s].pc \notin Creating
    BY <1>1 DEF Creating
  <2> QED
    BY <1>1, <1>2, <2>1, <2>2, LineKept
<1> QED
  BY <1>3, <1>4

\* A failed activation does not move the pointer: the candidate is not active before it.
LEMMA ActivationFailedKeeps ==
  ASSUME TypeOK, WorkInv, NEW c \in Cycles, ActivationFailed(c), proc[c].pc \in Working
  PROVE  /\ Alone(c) /\ (lock # c => lock' = lock) /\ Work(c)'
         /\ proc'[c].pc \in {"finish", "done"}
         /\ \A d \in Cycles : d # c => experiment'[d] = experiment[d]
         /\ experiment'[c].candidate = experiment[c].candidate
         /\ experiment'[c].status \in {experiment[c].status, "error"}
         /\ active # proc[c].candidate => proc'[c].result \in {"error", "raised"}
<1> c \in Processes
  BY DEF Processes
<1>1. CASE Raised(c) /\ UNCHANGED experiment
  <2>1. /\ Alone(c) /\ proc'[c].pc \in {"finish", "done"} /\ proc'[c].result \in {"error", "raised"}
        /\ lock' = IF lock = c THEN Nothing ELSE lock
    BY <1>1, RaisedMoves
  <2>2. proc'[c].pc = "finish" => proc'[c].result \in Final
    BY <1>1, RaisedEnds
  <2> QED
    BY <1>1, <2>1, <2>2 DEF Work, Working, Creating
<1>2. ASSUME NEW result \in {"promoted", "error"}, Ends(c, result), UNCHANGED lock,
             result = "promoted" => active = proc[c].candidate,
             UNCHANGED experiment \/ experiment' = [experiment EXCEPT ![c].status = "error"]
      PROVE  /\ Alone(c) /\ (lock # c => lock' = lock) /\ Work(c)'
             /\ proc'[c].pc \in {"finish", "done"}
             /\ \A d \in Cycles : d # c => experiment'[d] = experiment[d]
             /\ experiment'[c].candidate = experiment[c].candidate
             /\ experiment'[c].status \in {experiment[c].status, "error"}
             /\ active # proc[c].candidate => proc'[c].result \in {"error", "raised"}
  <2>1. result \in Final
    BY DEF Final
  <2>2. Alone(c) /\ proc'[c].pc = "finish" /\ proc'[c].result = result
    BY <1>2, <2>1, EndsMoves
  <2>3. /\ \A d \in Cycles : d # c => experiment'[d] = experiment[d]
        /\ experiment'[c].candidate = experiment[c].candidate
        /\ experiment'[c].status \in {experiment[c].status, "error"}
    BY <1>2 DEF TypeOK, Experiment
  <2>4. Work(c)'
    BY <2>1, <2>2 DEF Work, Working, Creating
  <2> QED
    BY <1>2, <2>2, <2>3, <2>4
<1> QED
  BY <1>1, <1>2 DEF ActivationFailed, RecordCycleError

\* A step of a cycle that leaves the pointer alone and ends, goes on or is cut off.
LEMMA CycleKept ==
  ASSUME TypeOK, WorkInv, LineInv, NEW c \in Cycles, Alone(c), Work(c)',
         lock # c /\ lock # Nothing => lock' = lock,
         UNCHANGED <<fresh, active, temporary, moved>>,
         \A d \in Cycles : d # c => experiment'[d] = experiment[d],
         ~ fresh => proc'[c].pc \notin Creating,
         ~ fresh => Own(c)' /\ Moved(c)',
         ~ fresh /\ c \in moved => experiment'[c].candidate = experiment[c].candidate
  PROVE  WorkInv' /\ LineInv'
<1> c \in Processes
  BY DEF Processes
<1>1. WorkInv'
  BY WorkKept
<1>2. LineInv'
  <2> SUFFICES ASSUME ~ fresh PROVE StoreInv' /\ OwnerInv' /\ MovedInv' /\ ActiveInv'
    BY DEF LineInv
  <2>1. StoreInv /\ OwnerInv /\ MovedInv /\ ActiveInv
    BY DEF LineInv
  <2> QED
    BY <2>1, LineKept
<1> QED
  BY <1>1, <1>2

\* A failed activation in a cycle.
LEMMA FailedActivationKeeps ==
  ASSUME TypeOK, WorkInv, LineInv, NEW c \in Cycles, ActivationFailed(c),
         proc[c].pc \in Working \ {"evaluate"},
         UNCHANGED <<fresh, active, temporary, moved>>
  PROVE  WorkInv' /\ LineInv'
<1>1. /\ Alone(c) /\ (lock # c => lock' = lock) /\ Work(c)'
      /\ proc'[c].pc \in {"finish", "done"}
      /\ \A d \in Cycles : d # c => experiment'[d] = experiment[d]
      /\ experiment'[c].candidate = experiment[c].candidate
      /\ experiment'[c].status \in {experiment[c].status, "error"}
      /\ active # proc[c].candidate => proc'[c].result \in {"error", "raised"}
  BY ActivationFailedKeeps
<1>2. proc'[c].pc \notin Creating /\ proc'[c].pc \notin Working
  BY <1>1 DEF Creating, Working
<1>3. ASSUME ~ fresh PROVE Moved(c)'
  <2>1. Own(c) /\ Moved(c)
    BY <1>3 DEF LineInv, OwnerInv, MovedInv
  <2>2. c \notin moved
    BY <2>1 DEF Moved, Working
  <2>3. active # proc[c].candidate
    <3>1. active \in Versions
      BY <1>3 DEF LineInv, StoreInv, TypeOK
    <3> QED
      BY <2>1, <3>1, VersionsGrow DEF Own
  <2> QED
    BY <1>1, <2>1, <2>2, <2>3 DEF Moved
<1> QED
  BY <1>1, <1>2, <1>3, CycleKept DEF Own

\* A cycle begins, takes the lock and evaluates.
LEMMA EvaluationKeeps ==
  ASSUME TypeOK, WorkInv, LineInv, NEW c \in Cycles, Begin(c) \/ Acquire(c) \/ Evaluate(c)
  PROVE  WorkInv' /\ LineInv'
<1> c \in Processes /\ c # Nothing
  BY PolicyAssumption DEF Processes
<1>0. Work(c) /\ (~ fresh => Own(c) /\ Moved(c))
  BY DEF WorkInv, LineInv, OwnerInv, MovedInv
<1>1. CASE Begin(c)
  <2>1. /\ Alone(c) /\ proc'[c].pc = "lock" /\ proc'[c].result = proc[c].result
        /\ proc[c].pc = "idle"
    BY <1>1, GoesMoves DEF Begin, At
  <2>2. /\ \A d \in Cycles : d # c => experiment'[d] = experiment[d]
        /\ experiment'[c].candidate = experiment[c].candidate
        /\ experiment'[c].status \in {experiment[c].status, "running"}
    BY <1>1 DEF Begin, TypeOK, Experiment
  <2>3. UNCHANGED <<fresh, active, temporary, lock, moved>>
    BY <1>1 DEF Begin, store
  <2>4. Work(c)' /\ proc'[c].pc \notin Creating /\ (~ fresh => Own(c)' /\ Moved(c)')
    BY <1>0, <2>1, <2>2, <2>3 DEF Work, Own, Moved, Working, Creating
  <2> QED
    BY <2>1, <2>2, <2>3, <2>4, CycleKept
<1>2. CASE Acquire(c)
  <2>1. /\ Alone(c) /\ proc[c].pc = "lock" /\ proc'[c].pc \in {"load", "finish"}
        /\ proc'[c].pc = "load" => proc'[c].result = proc[c].result /\ (c \in RsiCycles => lock' = c)
        /\ proc'[c].pc = "finish" => proc'[c].result = "error"
        /\ lock # Nothing => lock' = lock
    <3>1. CASE Ends(c, "error") /\ UNCHANGED lock
      BY <1>2, <3>1, EndsMoves DEF Acquire, At, Final
    <3>2. CASE c \in RsiCycles /\ Goes(c, "load") /\ lock' = c /\ lock = Nothing
      BY <1>2, <3>2, GoesMoves DEF Acquire, At
    <3>3. CASE c \in Improvers /\ Goes(c, "load")
      <4>1. c \notin RsiCycles
        BY <3>3, PolicyAssumption
      <4> QED
        BY <1>2, <3>3, <4>1, GoesMoves DEF Acquire, At
    <3> QED
      BY <1>2, <3>1, <3>2, <3>3 DEF Acquire, Cycles
  <2>2. UNCHANGED <<fresh, active, temporary, experiment, moved>>
    BY <1>2 DEF Acquire, store
  <2>3. Work(c)' /\ proc'[c].pc \notin Creating /\ (~ fresh => Own(c)' /\ Moved(c)')
    BY <1>0, <2>1, <2>2 DEF Work, Own, Moved, Working, Creating, Final
  <2> QED
    BY <2>1, <2>2, <2>3, CycleKept
<1>3. CASE Evaluate(c)
  <2>1. UNCHANGED <<fresh, active, temporary, lock, moved>> /\ proc[c].pc = "evaluate"
    BY <1>3 DEF Evaluate, store, At
  <2>2. proc[c].view \in Versions
    BY <1>0, <2>1 DEF Work
  <2>3. ASSUME NEW result \in Final \ {"promoted"}, Ends(c, result),
               UNCHANGED experiment \/ experiment' = [experiment EXCEPT ![c].status = "error"]
        PROVE  WorkInv' /\ LineInv'
    <3>1. Alone(c) /\ proc'[c].pc = "finish" /\ proc'[c].result = result
      BY <2>3, EndsMoves
    <3>2. /\ \A d \in Cycles : d # c => experiment'[d] = experiment[d]
          /\ experiment'[c].candidate = experiment[c].candidate
          /\ experiment'[c].status \in {experiment[c].status, "error"}
      BY <2>3 DEF TypeOK, Experiment
    <3>3. Work(c)' /\ proc'[c].pc \notin Creating /\ (~ fresh => Own(c)' /\ Moved(c)')
      BY <1>0, <2>1, <3>1, <3>2 DEF Work, Own, Moved, Working, Creating
    <3> QED
      BY <2>1, <3>1, <3>2, <3>3, CycleKept
  <2>4. ASSUME NEW patch \in Patches, NEW phase \in {"write", "decide"}, UNCHANGED experiment,
               phase = "write" => c \in RsiCycles,
               proc' = [proc EXCEPT ![c].candidate = Append(proc[c].view, patch), ![c].pc = phase]
        PROVE  WorkInv' /\ LineInv'
    <3> DEFINE v == Append(proc[c].view, patch)
    <3>1. v \in Versions
      BY <2>2, VersionsGrow
    <3>2. proc' = [proc EXCEPT ![c].candidate = v, ![c].pc = phase]
      BY <2>4
    <3> HIDE DEF v
    <3>3. /\ Alone(c) /\ proc'[c].pc = phase /\ proc'[c].view = proc[c].view
          /\ proc'[c].candidate = v /\ proc'[c].result = proc[c].result
      BY <3>1, <3>2, ProposedMoves
    <3>4. Work(c)' /\ proc'[c].pc \notin Creating
      BY <3>1, <3>3 DEF Work, Working, Creating
    <3>5. ASSUME ~ fresh PROVE Own(c)' /\ Moved(c)'
      <4>1. lock = c /\ proc[c].view = active
        BY <1>0, <2>1, <3>5 DEF Own, Working
      <4>2. proc'[c].candidate = Append(active, patch)
        BY <3>3, <4>1 DEF v
      <4>3. Own(c)'
        BY <2>1, <2>4, <3>3, <4>1, <4>2 DEF Own
      <4>4. Moved(c)'
        BY <1>0, <2>1, <2>4, <3>3, <3>5 DEF Moved
      <4> QED
        BY <4>3, <4>4
    <3> QED
      BY <2>1, <2>4, <3>3, <3>4, <3>5, CycleKept
  <2> QED
    BY <1>3, <2>3, <2>4 DEF Evaluate, RecordCycleError
<1> QED
  BY <1>1, <1>2, <1>3

\* A cycle writes its candidate, decides, and looks at the pointer again.
LEMMA DecisionKeeps ==
  ASSUME TypeOK, WorkInv, LineInv, NEW c \in Cycles, NEW promote \in BOOLEAN,
         WriteCandidate(c) \/ Decide(c, promote) \/ Recheck(c)
  PROVE  WorkInv' /\ LineInv'
<1> c \in Processes /\ c # Nothing
  BY PolicyAssumption DEF Processes
<1>0. Work(c) /\ (~ fresh => Own(c) /\ Moved(c))
  BY DEF WorkInv, LineInv, OwnerInv, MovedInv
<1>1. CASE WriteCandidate(c)
  <2>1. UNCHANGED <<fresh, active, temporary, moved>> /\ proc[c].pc = "write"
    BY <1>1 DEF WriteCandidate, At
  <2>2. CASE Exists(proc[c].candidate)
    <3>1. ActivationFailed(c)
      BY <1>1, <2>2 DEF WriteCandidate
    <3> QED
      BY <2>1, <3>1, FailedActivationKeeps DEF Working
  <2>3. CASE ~ Exists(proc[c].candidate)
    <3>1. UNCHANGED <<lock, experiment>> /\ \E phase \in {"decide", "activate"} : Goes(c, phase) /\ (c \in RsiCycles => phase = "decide")
      BY <1>1, <2>3 DEF WriteCandidate
    <3>2. /\ Alone(c) /\ proc'[c].pc \in {"decide", "activate"} /\ proc'[c].view = proc[c].view
          /\ proc'[c].candidate = proc[c].candidate /\ proc'[c].result = proc[c].result
          /\ c \in RsiCycles => proc'[c].pc = "decide"
      BY <3>1, GoesMoves
    <3>3. Work(c)' /\ proc'[c].pc \notin Creating
      BY <1>0, <2>1, <3>2 DEF Work, Working, Creating
    <3>4. ~ fresh => Own(c)' /\ Moved(c)'
      BY <1>0, <2>1, <3>1, <3>2 DEF Own, Moved, Working
    <3> QED
      BY <2>1, <3>1, <3>2, <3>3, <3>4, CycleKept
  <2> QED
    BY <2>2, <2>3
<1>2. CASE Decide(c, promote)
  <2>1. UNCHANGED <<fresh, active, temporary, lock, moved>> /\ proc[c].pc = "decide"
    BY <1>2 DEF Decide, store, At
  <2>2. /\ Alone(c) /\ proc'[c].pc \in {"finish", "recheck", "write"} /\ proc'[c].view = proc[c].view
        /\ proc'[c].candidate = proc[c].candidate
        /\ proc'[c].pc = "finish" => proc'[c].result = "rejected"
        /\ proc'[c].pc # "finish" => proc'[c].result = proc[c].result
    <3>1. CASE ~ promote
      BY <1>2, <3>1, EndsMoves DEF Decide, Final
    <3>2. CASE promote /\ c \in RsiCycles
      BY <1>2, <3>2, GoesMoves DEF Decide
    <3>3. CASE promote /\ c \notin RsiCycles
      BY <1>2, <3>3, GoesMoves DEF Decide
    <3> QED
      BY <3>1, <3>2, <3>3
  <2>3. /\ \A d \in Cycles : d # c => experiment'[d] = experiment[d]
        /\ experiment'[c].status \in {experiment[c].status, "approved", "rejected"}
    <3>1. proc[c].candidate \in Versions \cup {Nothing}
      BY DEF TypeOK, Process
    <3>2. CASE c \in RsiCycles
      BY <1>2, <3>2 DEF Decide, TypeOK, Experiment
    <3>3. CASE c \notin RsiCycles /\ promote
      BY <1>2, <3>1, <3>3, RecordedMoves DEF Decide
    <3>4. CASE c \notin RsiCycles /\ ~ promote
      BY <1>2, <3>1, <3>4, RecordedMoves DEF Decide
    <3> QED
      BY <3>2, <3>3, <3>4
  <2>4. Work(c)' /\ proc'[c].pc \notin Creating
    BY <1>0, <2>1, <2>2 DEF Work, Working, Creating, Final
  <2>5. ~ fresh => Own(c)' /\ Moved(c)'
    <3> SUFFICES ASSUME ~ fresh PROVE Own(c)' /\ Moved(c)'
      OBVIOUS
    <3>1. proc'[c].pc = "write" /\ c \notin RsiCycles =>
            experiment'[c].status = "approved" /\ experiment'[c].candidate = proc[c].candidate
      <4>1. proc[c].candidate \in Versions \cup {Nothing}
        BY DEF TypeOK, Process
      <4>2. CASE promote
        <5> SUFFICES ASSUME c \notin RsiCycles
                     PROVE  experiment'[c].status = "approved" /\ experiment'[c].candidate = proc[c].candidate
          OBVIOUS
        <5>1. experiment' = [experiment EXCEPT ![c].status = "approved", ![c].candidate = proc[c].candidate]
          BY <1>2, <4>2 DEF Decide
        <5> QED
          BY <4>1, <5>1, RecordedMoves
      <4>3. CASE ~ promote
        BY <1>2, <4>3, EndsMoves DEF Decide, Final
      <4> QED
        BY <4>2, <4>3
    <3>2. Own(c)'
      BY <1>0, <2>1, <2>2, <3>1 DEF Own, Working
    <3>3. Moved(c)'
      BY <1>0, <2>1, <2>2, <2>3 DEF Moved
    <3> QED
      BY <3>2, <3>3
  <2>6. ~ fresh /\ c \in moved => experiment'[c].candidate = experiment[c].candidate
    <3>1. fresh \/ c \notin moved
      BY <1>0, <2>1 DEF Moved
    <3> QED
      BY <3>1
  <2> QED
    BY <2>1, <2>2, <2>3, <2>4, <2>5, <2>6, CycleKept
<1>3. CASE Recheck(c)
  <2>1. UNCHANGED <<fresh, active, temporary, lock, experiment, moved>> /\ proc[c].pc = "recheck"
    BY <1>3 DEF Recheck, store, At
  <2>2. /\ Alone(c) /\ proc'[c].pc \in {"finish", "seal"} /\ proc'[c].view = proc[c].view
        /\ proc'[c].candidate = proc[c].candidate
        /\ proc'[c].pc = "finish" => proc'[c].result = "rejected"
        /\ proc'[c].pc = "seal" => proc'[c].result = proc[c].result
    <3>1. CASE active # proc[c].view
      BY <1>3, <3>1, EndsMoves DEF Recheck, Final
    <3>2. CASE active = proc[c].view
      BY <1>3, <3>2, GoesMoves DEF Recheck
    <3> QED
      BY <3>1, <3>2
  <2>3. Work(c)' /\ proc'[c].pc \notin Creating
    BY <1>0, <2>1, <2>2 DEF Work, Working, Creating, Final
  <2>4. ~ fresh => Own(c)' /\ Moved(c)'
    BY <1>0, <2>1, <2>2 DEF Own, Moved, Working
  <2> QED
    BY <2>1, <2>2, <2>3, <2>4, CycleKept
<1> QED
  BY <1>1, <1>2, <1>3

\* A cycle seals its experiment and moves the pointer.
LEMMA ActivationKeeps ==
  ASSUME TypeOK, WorkInv, LineInv, NEW c \in Cycles, Seal(c) \/ Activate(c) \/ ActivateRenames(c)
  PROVE  WorkInv' /\ LineInv'
<1> c \in Processes /\ c # Nothing
  BY PolicyAssumption DEF Processes
<1>0. Work(c) /\ (~ fresh => Own(c) /\ Moved(c))
  BY DEF WorkInv, LineInv, OwnerInv, MovedInv
<1>1. CASE Seal(c)
  <2>1. UNCHANGED <<fresh, active, temporary, lock, moved>> /\ proc[c].pc = "seal"
    BY <1>1 DEF Seal, store, At
  <2>2. /\ Alone(c) /\ proc'[c].pc = "activate" /\ proc'[c].view = proc[c].view
        /\ proc'[c].candidate = proc[c].candidate /\ proc'[c].result = proc[c].result
    BY <1>1, GoesMoves DEF Seal
  <2>3. /\ \A d \in Cycles : d # c => experiment'[d] = experiment[d]
        /\ experiment'[c].status = "approved" /\ experiment'[c].candidate = proc[c].candidate
    BY <1>1, SealedMoves DEF Seal
  <2>4. Work(c)' /\ proc'[c].pc \notin Creating
    BY <1>0, <2>1, <2>2 DEF Work, Working, Creating
  <2>5. ~ fresh => Own(c)' /\ Moved(c)'
    BY <1>0, <2>1, <2>2, <2>3 DEF Own, Moved, Working
  <2>6. ~ fresh => c \notin moved
    BY <1>0, <2>1 DEF Moved
  <2> QED
    BY <2>1, <2>2, <2>3, <2>4, <2>5, <2>6, CycleKept
<1>2. CASE Activate(c)
  <2>1. /\ UNCHANGED <<fresh, active, lock, experiment, moved>> /\ proc[c].pc = "activate"
        /\ temporary' = proc[c].candidate
    BY <1>2 DEF Activate, At
  <2>2. /\ Alone(c) /\ proc'[c].pc = "activated" /\ proc'[c].view = proc[c].view
        /\ proc'[c].candidate = proc[c].candidate /\ proc'[c].result = proc[c].result
    BY <1>2, GoesMoves DEF Activate
  <2>3. Work(c)' /\ proc'[c].pc \notin Creating
    BY <1>0, <2>1, <2>2 DEF Work, Working, Creating
  <2>4. WorkInv'
    BY <2>1, <2>2, <2>3, WorkKept
  <2>5. LineInv'
    <3> SUFFICES ASSUME ~ fresh PROVE StoreInv' /\ OwnerInv' /\ MovedInv' /\ ActiveInv'
      BY <2>1 DEF LineInv
    <3>1. StoreInv /\ OwnerInv /\ MovedInv /\ ActiveInv
      BY DEF LineInv
    <3>2. Own(c)' /\ Moved(c)' /\ lock = c
      BY <1>0, <2>1, <2>2 DEF Own, Moved, Working
    <3> QED
      BY <2>1, <2>2, <2>3, <3>1, <3>2, LineKept
  <2> QED
    BY <2>4, <2>5
<1>3. CASE ActivateRenames(c) /\ temporary = Nothing
  <2>1. /\ UNCHANGED <<fresh, active, temporary, moved>> /\ proc[c].pc = "activated"
        /\ ActivationFailed(c)
    BY <1>3 DEF ActivateRenames, At
  <2> QED
    BY <2>1, FailedActivationKeeps DEF Working
<1>4. CASE ActivateRenames(c) /\ temporary # Nothing
  <2>1. /\ UNCHANGED <<fresh, lock, experiment>> /\ proc[c].pc = "activated"
        /\ active' = temporary /\ temporary' = Nothing
        /\ moved' = IF temporary = proc[c].candidate THEN moved \cup {c} ELSE moved
    BY <1>4 DEF ActivateRenames, At
  <2>2. /\ Alone(c) /\ proc'[c].pc = "finish" /\ proc'[c].view = proc[c].view
        /\ proc'[c].candidate = proc[c].candidate /\ proc'[c].result = "promoted"
    BY <1>4, EndsMoves DEF ActivateRenames, Final
  <2>3. Work(c)'
    BY <2>2 DEF Work, Working, Creating, Final
  <2>4. WorkInv'
    BY <2>1, <2>2, <2>3, WorkKept
  <2>5. LineInv'
    <3> SUFFICES ASSUME ~ fresh PROVE StoreInv' /\ OwnerInv' /\ MovedInv' /\ ActiveInv'
      BY <2>1 DEF LineInv
    <3>1. StoreInv /\ OwnerInv /\ MovedInv /\ ActiveInv
      BY DEF LineInv
    <3>2. /\ lock = c /\ temporary = proc[c].candidate /\ experiment[c].candidate = temporary
          /\ experiment[c].status = "approved"
      BY <1>0, <2>1 DEF Own, Working
    <3>3. moved' = moved \cup {c}
      BY <2>1, <3>2
    <3>4. StoreInv'
      BY <1>4, <2>1, <2>2, <3>1 DEF StoreInv, Alone, Creating
    <3>5. ASSUME NEW d \in Cycles PROVE Own(d)' /\ Moved(d)'
      <4>1. CASE d = c
        BY <2>1, <2>2, <3>2, <3>3, <4>1 DEF Own, Moved, Working, Approves
      <4>2. CASE d # c
        <5>1. Own(d) /\ Moved(d) /\ proc'[d] = proc[d]
          BY <2>2, <3>1, <4>2 DEF OwnerInv, MovedInv, Alone, Processes
        <5>2. proc[d].pc \notin Working
          BY <3>2, <4>2, <5>1 DEF Own
        <5>3. d \in moved' <=> d \in moved
          BY <3>3, <4>2
        <5> QED
          BY <2>1, <5>1, <5>2, <5>3 DEF Own, Moved
      <4> QED
        BY <4>1, <4>2
    <3>6. ActiveInv'
      BY <2>1, <3>2, <3>3 DEF ActiveInv
    <3> QED
      BY <3>4, <3>5, <3>6 DEF OwnerInv, MovedInv
  <2> QED
    BY <2>4, <2>5
<1> QED
  BY <1>1, <1>2, <1>3, <1>4

\* A cycle finishes.
LEMMA FinishKeeps ==
  ASSUME TypeOK, WorkInv, LineInv, NEW c \in Cycles,
         \/ \E n \in 0 .. 3, cut \in BOOLEAN : FinishRsi(c, n, cut)
         \/ \E ok \in BOOLEAN : FinishImprover(c, ok)
  PROVE  WorkInv' /\ LineInv'
<1> c \in Processes /\ c # Nothing
  BY PolicyAssumption DEF Processes
<1>0. Work(c) /\ (~ fresh => Own(c) /\ Moved(c))
  BY DEF WorkInv, LineInv, OwnerInv, MovedInv
<1>1. ASSUME NEW n \in 0 .. 3, NEW cut \in BOOLEAN, FinishRsi(c, n, cut)
      PROVE  WorkInv' /\ LineInv'
  <2>1. UNCHANGED <<fresh, active, temporary, moved>> /\ proc[c].pc = "finish"
    BY <1>1 DEF FinishRsi, store, At
  <2>2. /\ proc' \in [Processes -> Process] /\ Alone(c)
        /\ \A d \in Cycles : d # c => experiment'[d] = experiment[d]
        /\ experiment'[c].status \in {experiment[c].status, proc[c].result, "torn"}
        /\ experiment'[c].candidate = experiment[c].candidate
        /\ proc[c].result = "promoted" /\ experiment[c].status \in {"approved", "promoted"}
             => Approves(experiment'[c]) /\ proc'[c].pc = "done"
        /\ proc'[c].pc \in {"finish", "done"}
        /\ proc[c].result = "promoted" => proc'[c].result = "promoted"
        /\ proc[c].result # "promoted" => proc'[c].result # "promoted"
        /\ lock' = IF lock = c THEN Nothing ELSE lock
    BY <1>1, FinishRsiMoves
  <2>3. proc'[c].pc = "finish" => proc'[c].result \in Final
    BY <1>1, FinishRsiEnds
  <2>4. Work(c)' /\ proc'[c].pc \notin Creating
    BY <2>2, <2>3 DEF Work, Working, Creating
  <2>5. ~ fresh => Own(c)' /\ Moved(c)'
    BY <1>0, <2>1, <2>2 DEF Own, Moved, Working
  <2> QED
    BY <2>1, <2>2, <2>4, <2>5, CycleKept
<1>2. ASSUME NEW ok \in BOOLEAN, FinishImprover(c, ok)
      PROVE  WorkInv' /\ LineInv'
  <2>1. UNCHANGED <<fresh, active, temporary, moved>> /\ proc[c].pc = "finish"
    BY <1>2 DEF FinishImprover, store, At
  <2>2. /\ Alone(c) /\ proc'[c].pc = "done" /\ proc'[c].result = proc[c].result
        /\ lock' = IF lock = c THEN Nothing ELSE lock
    BY <1>2, DoneMoves DEF FinishImprover
  <2>3. /\ \A d \in Cycles : d # c => experiment'[d] = experiment[d]
        /\ experiment'[c].candidate = experiment[c].candidate
        /\ \/ experiment'[c].status = experiment[c].status
           \/ experiment'[c].status = "promoted" /\ proc[c].result = "promoted"
    <3>1. CASE UNCHANGED experiment
      BY <3>1
    <3>2. CASE experiment' = [experiment EXCEPT ![c].status = "promoted"] /\ proc[c].result = "promoted"
      BY <3>2 DEF TypeOK, Experiment
    <3> QED
      BY <1>2, <3>1, <3>2 DEF FinishImprover
  <2>4. Work(c)' /\ proc'[c].pc \notin Creating
    BY <2>2 DEF Work, Working, Creating
  <2>5. ~ fresh => Own(c)' /\ Moved(c)'
    BY <1>0, <2>1, <2>2, <2>3 DEF Own, Moved, Working, Approves
  <2> QED
    BY <2>1, <2>2, <2>3, <2>4, <2>5, CycleKept
<1> QED
  BY <1>1, <1>2

\* A failed write and a kill.
LEMMA FaultKeeps ==
  ASSUME TypeOK, WorkInv, LineInv, NEW p \in Processes, WriteFails(p) \/ Crash(p)
  PROVE  WorkInv' /\ LineInv'
<1>0. UNCHANGED <<fresh, active, temporary, moved>>
  BY DEF WriteFails, Crash, store
<1>1. CASE p \in Cycles
  <2>0. p # Nothing /\ Work(p) /\ (~ fresh => Own(p) /\ Moved(p))
    BY <1>1, PolicyAssumption DEF WorkInv, LineInv, OwnerInv, MovedInv, Processes
  <2>1. CASE Raised(p) /\ (CutOff(p) \/ UNCHANGED experiment) /\ WriteFails(p)
             /\ proc[p].pc \notin {"idle", "finish", "done", "killed"}
    <3>1. /\ Alone(p) /\ proc'[p].pc \in {"finish", "done"} /\ proc'[p].result \in {"error", "raised"}
          /\ lock' = IF lock = p THEN Nothing ELSE lock
      BY <1>1, <2>1, RaisedMoves
    <3>2. proc'[p].pc = "finish" => proc'[p].result \in Final
      BY <1>1, <2>1, RaisedEnds
    <3>3. Work(p)' /\ proc'[p].pc \notin Creating
      BY <3>1, <3>2 DEF Work, Working, Creating
    <3>4. /\ \A d \in Cycles : d # p => experiment'[d] = experiment[d]
          /\ experiment'[p].status \in {experiment[p].status, "torn"}
          /\ experiment'[p].candidate = experiment[p].candidate
      BY <1>1, <2>1, CutOffMoves
    <3>5. ~ fresh => Own(p)' /\ Moved(p)'
      BY <1>0, <2>0, <2>1, <3>1, <3>4 DEF Own, Moved, Working
    <3> QED
      BY <1>0, <1>1, <2>1, <3>1, <3>3, <3>4, <3>5, CycleKept
  <2>2. CASE Ends(p, "error") /\ UNCHANGED <<lock, experiment>> /\ proc[p].pc = "decide"
    <3>1. Alone(p) /\ proc'[p].pc = "finish" /\ proc'[p].result = "error"
      BY <2>2, EndsMoves DEF Final
    <3>2. Work(p)' /\ proc'[p].pc \notin Creating
      BY <3>1 DEF Work, Working, Creating, Final
    <3>3. ~ fresh => Own(p)' /\ Moved(p)'
      BY <1>0, <2>0, <2>2, <3>1 DEF Own, Moved, Working
    <3> QED
      BY <1>0, <1>1, <2>2, <3>1, <3>2, <3>3, CycleKept
  <2>3. CASE ActivationFailed(p) /\ proc[p].pc \in {"write", "activate", "activated"}
    BY <1>0, <1>1, <2>3, FailedActivationKeeps DEF Working
  <2>4. CASE Crash(p)
    <3>1. /\ Alone(p) /\ proc'[p].pc = "killed" /\ proc'[p].result = proc[p].result
          /\ \A d \in Cycles : d # p => experiment'[d] = experiment[d]
          /\ Remains(p)
      BY <1>1, <2>4, CrashMoves
    <3>2. lock' = lock /\ proc[p].pc \notin {"done", "killed"}
      BY <2>4 DEF Crash
    <3>3. Work(p)' /\ proc'[p].pc \notin Creating
      BY <3>1 DEF Work, Working, Creating
    <3>4. ~ fresh => Own(p)' /\ Moved(p)'
      BY <1>0, <2>0, <3>1, <3>2 DEF Own, Moved, Working, Remains, At
    <3> QED
      BY <1>0, <1>1, <3>1, <3>2, <3>3, <3>4, CycleKept DEF Remains
  <2> QED
    BY <1>1, <2>1, <2>2, <2>3, <2>4 DEF WriteFails, At
<1>2. CASE p \notin Cycles
  <2>1. /\ p \in Sessions /\ p \notin RsiCycles /\ p \notin Improvers /\ p # Nothing
    BY <1>2, PolicyAssumption DEF Processes, Cycles
  <2>2. Alone(p) /\ proc'[p].pc \in {"idle", "finish", "done", "killed"} /\ lock' = lock /\ UNCHANGED experiment
    <3>1. CASE Raised(p) /\ UNCHANGED experiment
      <4>1. lock # p
        BY <1>2, <2>1 DEF TypeOK
      <4> QED
        BY <3>1, <4>1, RaisedMoves
    <3>2. CASE Crash(p)
      BY <2>1, <3>2, CrashMoves DEF Crash
    <3> QED
      BY <1>2, <2>1, <3>1, <3>2 DEF WriteFails
  <2>3. WorkInv'
    BY <1>2, <2>2, WorkKept
  <2>4. LineInv'
    <3> SUFFICES ASSUME ~ fresh PROVE StoreInv' /\ OwnerInv' /\ MovedInv' /\ ActiveInv'
      BY <1>0 DEF LineInv
    <3>1. StoreInv /\ OwnerInv /\ MovedInv /\ ActiveInv
      BY DEF LineInv
    <3>2. proc'[p].pc \notin Creating
      BY <2>2 DEF Creating
    <3> QED
      BY <1>0, <1>2, <2>2, <3>1, <3>2, LineKept
  <2> QED
    BY <2>3, <2>4
<1> QED
  BY <1>1, <1>2

-----------------------------------------------------------------------------
(* The theorems.                                                           *)

\* The beginning.
LEMMA InitIInv == Init => IInv
<1> SUFFICES ASSUME Init PROVE IInv
  OBVIOUS
<1>1. TypeOK
  BY InitTyped
<1>2. \A p \in Processes : proc[p].pc = "idle" /\ proc[p].result = "none"
  BY DEF Init
<1>3. \A c \in Cycles : c \in Processes /\ experiment[c].status = "none"
  BY DEF Init, NoExperiment, Processes
<1>4. WorkInv
  BY <1>2, <1>3 DEF WorkInv, Work, Working, Creating
<1>5. ASSUME ~ fresh PROVE StoreInv /\ OwnerInv /\ MovedInv /\ ActiveInv
  <2>1. active = Baseline /\ active # Nothing /\ moved = {}
    BY <1>5, VersionsGrow, PolicyAssumption DEF Init
  <2>2. StoreInv
    BY <1>2, <2>1 DEF StoreInv, Creating
  <2>3. OwnerInv /\ MovedInv
    BY <1>2, <1>3, <2>1 DEF OwnerInv, Own, MovedInv, Moved, Working
  <2> QED
    BY <2>1, <2>2, <2>3 DEF ActiveInv
<1> QED
  BY <1>1, <1>4, <1>5 DEF IInv, LineInv

\* Every step of every process keeps the invariant.
LEMMA NextIInv == IInv /\ [Next]_vars => IInv'
<1> SUFFICES ASSUME IInv, [Next]_vars PROVE IInv'
  OBVIOUS
<1>0. TypeOK /\ WorkInv /\ LineInv
  BY DEF IInv
<1>1. ASSUME NEW c \in Cycles, Begin(c) \/ CycleStep(c) PROVE IInv'
  <2> c \in Processes
    BY DEF Processes
  <2>1. CASE LoadActive(c)
    BY <1>0, <2>1, LoadTyped, LoadKeeps DEF IInv
  <2>2. CASE Begin(c) \/ Acquire(c) \/ Evaluate(c)
    <3>1. TRUE \in BOOLEAN
      OBVIOUS
    <3> QED
      BY <1>0, <2>2, <3>1, DecisionTyped, EvaluationKeeps DEF IInv
  <2>3. CASE WriteCandidate(c)
    <3>1. TRUE \in BOOLEAN
      OBVIOUS
    <3> QED
      BY <1>0, <2>3, <3>1, DecisionTyped, DecisionKeeps DEF IInv
  <2>4. ASSUME NEW promote \in BOOLEAN, Decide(c, promote) PROVE IInv'
    BY <1>0, <2>4, DecisionTyped, DecisionKeeps DEF IInv
  <2>5. CASE Recheck(c)
    <3>1. TRUE \in BOOLEAN
      OBVIOUS
    <3> QED
      BY <1>0, <2>5, <3>1, FinishTyped, DecisionKeeps DEF IInv
  <2>6. CASE Seal(c) \/ Activate(c) \/ ActivateRenames(c)
    BY <1>0, <2>6, FinishTyped, ActivationKeeps DEF IInv
  <2>7. CASE (\E n \in 0 .. 3, cut \in BOOLEAN : FinishRsi(c, n, cut)) \/ (\E ok \in BOOLEAN : FinishImprover(c, ok))
    BY <1>0, <2>7, FinishTyped, FinishKeeps DEF IInv
  <2> QED
    BY <1>1, <2>1, <2>2, <2>3, <2>4, <2>5, <2>6, <2>7 DEF CycleStep
<1>2. ASSUME NEW s \in Sessions, SessionStarts(s) \/ LoadActive(s) \/ Pin(s) \/ SessionEnds(s) PROVE IInv'
  <2> s \in Processes
    BY DEF Processes
  <2> QED
    BY <1>0, <1>2, LoadTyped, LoadKeeps, SessionTyped, SessionKeeps DEF IInv
<1>3. ASSUME NEW p \in Processes, WriteFails(p) \/ Crash(p) PROVE IInv'
  BY <1>0, <1>3, FaultTyped, FaultKeeps DEF IInv
<1>4. CASE UNCHANGED vars
  <2>1. TypeOK'
    BY <1>0, <1>4 DEF TypeOK, vars
  <2>2. WorkInv'
    BY <1>0, <1>4 DEF WorkInv, Work, vars
  <2>3. LineInv'
    BY <1>0, <1>4 DEF LineInv, StoreInv, OwnerInv, Own, MovedInv, Moved, ActiveInv, vars
  <2> QED
    BY <2>1, <2>2, <2>3 DEF IInv
<1> QED
  BY <1>1, <1>2, <1>3, <1>4 DEF Next

\* The inductive invariant holds for every number of cycles, sessions, kills and
\* failed writes.
THEOREM Invariance == Spec => []IInv
<1>1. Init => IInv
  BY InitIInv
<1>2. IInv /\ [Next]_vars => IInv'
  BY NextIInv
<1> QED
  BY <1>1, <1>2, PTL DEF Spec

\* The state keeps its types.
THEOREM Typed == Spec => []TypeOK
<1>1. IInv => TypeOK
  BY DEF IInv
<1> QED
  BY <1>1, Invariance, PTL

\* In a store that had its pointer, the active policy is the baseline or the candidate
\* of an experiment whose files on disk approve it: its manifest or, where the manifest is
\* torn, its outcome and its decision, whoever was killed and whatever was not written.
THEOREM ActiveIsApproved == Spec => []ActiveWasApproved
<1>1. IInv => ActiveWasApproved
  <2> SUFFICES ASSUME IInv, ~ fresh, active # Baseline
               PROVE  \E c \in Cycles : experiment[c].candidate = active
                                        /\ Approves(experiment[c])
    BY DEF ActiveWasApproved
  <2>1. PICK c \in moved : experiment[c].candidate = active
    BY DEF IInv, LineInv, ActiveInv
  <2>2. c \in Cycles
    BY <2>1 DEF IInv, TypeOK
  <2>3. Approves(experiment[c])
    BY <2>1, <2>2 DEF IInv, LineInv, MovedInv, Moved
  <2> QED
    BY <2>1, <2>2, <2>3
<1> QED
  BY <1>1, Invariance, PTL

\* A cycle says that it promoted, in its result or in its experiment, if and only if it
\* has moved the pointer to its candidate.
THEOREM OutcomesAgree == Spec => []OutcomesAreTruthful
<1>1. IInv => OutcomesAreTruthful
  <2> SUFFICES ASSUME IInv, ~ fresh, NEW c \in Cycles
               PROVE  /\ At(c, "done") => (proc[c].result = "promoted" <=> c \in moved)
                      /\ experiment[c].status = "promoted" => c \in moved
                      /\ experiment[c].status \in Final \ {"promoted"} => c \notin moved
    BY DEF OutcomesAreTruthful
  <2>1. Moved(c)
    BY DEF IInv, LineInv, MovedInv
  <2> QED
    BY <2>1 DEF Moved, Approves, Final
<1> QED
  BY <1>1, Invariance, PTL

\* A step of a cycle moves the pointer to a candidate derived from the active policy.
LEMMA StepExtends ==
  ASSUME IInv, [Next]_vars, ~ fresh, active' # active
  PROVE  \E patch \in Patches : active' = Append(active, patch)
<1>0. \A p \in Processes : proc[p].pc \notin Creating
  BY DEF IInv, LineInv, StoreInv
<1>1. \A p \in Processes : LoadActive(p) => active' = active
  BY <1>0 DEF LoadActive, ReadPointer, LookUp, Create, CreateRenames, Point, PointRenames, store, At, Creating
<1>2. \A s \in Sessions : SessionStarts(s) \/ Pin(s) \/ SessionEnds(s) => active' = active
  BY DEF SessionStarts, Pin, SessionEnds, store
<1>3. \A p \in Processes : WriteFails(p) \/ Crash(p) => active' = active
  BY DEF WriteFails, Crash, store
<1>4. \A c \in Cycles : Begin(c) \/ Acquire(c) \/ Evaluate(c) \/ WriteCandidate(c) \/ Recheck(c) \/ Seal(c) \/ Activate(c)
                          => active' = active
  BY DEF Begin, Acquire, Evaluate, WriteCandidate, Recheck, Seal, Activate, store
<1>5. \A c \in Cycles : \A promote \in BOOLEAN : Decide(c, promote) => active' = active
  BY DEF Decide, store
<1>6. \A c \in Cycles : (\A n \in 0 .. 3, cut \in BOOLEAN : FinishRsi(c, n, cut) => active' = active)
                          /\ \A ok \in BOOLEAN : FinishImprover(c, ok) => active' = active
  BY DEF FinishRsi, FinishImprover, store
<1>7. UNCHANGED vars => active' = active
  BY DEF vars
<1>8. PICK c \in Cycles : ActivateRenames(c)
  BY <1>1, <1>2, <1>3, <1>4, <1>5, <1>6, <1>7 DEF Next, CycleStep, Processes
<1>9. active' = temporary /\ proc[c].pc = "activated"
  BY <1>8 DEF ActivateRenames, At
<1>10. Own(c)
  BY DEF IInv, LineInv, OwnerInv
<1> QED
  BY <1>9, <1>10 DEF Own, Working

\* The pointer only moves from a policy to a candidate derived from that very policy,
\* whatever the processes of the store do at the same time.
THEOREM PromotionsExtend == Spec => PromotionsExtendTheActivePolicy
<1>1. IInv /\ [Next]_vars => [~ fresh /\ active' # active => \E patch \in Patches : active' = Append(active, patch)]_vars
  BY StepExtends
<1> QED
  BY <1>1, Invariance, PTL DEF Spec, PromotionsExtendTheActivePolicy

-----------------------------------------------------------------------------
(* What a sealed experiment and a session's snapshot rest on.              *)

\* The manifest of an rsi cycle gets a final status when the cycle ends, after its other
\* two files; a cycle comes to "promoted" only with a comparison that passed, and one
\* whose comparison is torn comes to an error, if it is not killed.
Seals(c) ==
  /\ experiment[c].status \in Final => Sealed(experiment[c]) /\ proc[c].pc \in {"done", "killed"}
  /\ proc[c].pc \in {"recheck", "seal", "activate", "activated"} => experiment[c].compared = "pass"
  /\ proc[c].result = "promoted" => experiment[c].compared = "pass" /\ proc[c].pc \in {"finish", "done", "killed"}
  /\ experiment[c].compared = "torn" =>
       proc[c].pc \in {"done", "killed"} \/ (proc[c].pc = "finish" /\ proc[c].result = "error")

SealInv == \A c \in RsiCycles : Seals(c)

\* A session that has not pinned a policy has no snapshot, and one that runs uses it.
Pins(s) ==
  /\ proc[s].pc \notin {"idle", "running"} => snapshot[s] = Nothing
  /\ proc[s].pc = "running" => proc[s].view = snapshot[s]

PinInv == \A s \in Sessions : Pins(s)

-----------------------------------------------------------------------------
\* The other cycles' records are as they were.
LEMMA SealsKept ==
  ASSUME TypeOK, SealInv, NEW p \in Processes, Alone(p),
         \A d \in Cycles : d # p => experiment'[d] = experiment[d],
         p \in RsiCycles => Seals(p)'
  PROVE  SealInv'
<1> SUFFICES ASSUME NEW c \in RsiCycles PROVE Seals(c)'
  BY DEF SealInv
<1>1. c \in Cycles /\ c \in Processes
  BY DEF Cycles, Processes
<1>2. CASE c = p
  BY <1>2
<1>3. CASE c # p
  <2>1. proc'[c] = proc[c] /\ experiment'[c] = experiment[c] /\ Seals(c)
    BY <1>1, <1>3 DEF Alone, SealInv
  <2> QED
    BY <2>1 DEF Seals, Sealed, Replays
<1> QED
  BY <1>2, <1>3

\* A step that leaves the cycle's records alone and takes it nowhere new.
LEMMA SealsStay ==
  ASSUME TypeOK, SealInv, NEW p \in Processes, Alone(p),
         UNCHANGED experiment,
         p \in RsiCycles =>
           /\ proc[p].pc \notin {"done", "killed"} \/ proc'[p].pc = proc[p].pc
           /\ proc[p].pc = "finish" => proc'[p].pc = "killed"
           /\ proc'[p].pc \in {"recheck", "seal", "activate", "activated"} =>
                proc[p].pc \in {"recheck", "seal", "activate", "activated"}
           /\ proc'[p].result = "promoted" =>
                \/ proc[p].result = "promoted"
                \/ proc[p].pc \in {"recheck", "seal", "activate", "activated"} /\ proc'[p].pc = "finish"
  PROVE  SealInv'
<1>1. p \in RsiCycles => Seals(p)'
  BY DEF SealInv, Seals, Sealed, Replays, Final
<1> QED
  BY <1>1, SealsKept

\* The beginning.
LEMMA InitSeals == Init => SealInv /\ PinInv
<1> SUFFICES ASSUME Init PROVE SealInv /\ PinInv
  OBVIOUS
<1>1. \A p \in Processes : proc[p].pc = "idle" /\ proc[p].result = "none"
  BY DEF Init
<1>2. \A c \in Cycles : experiment[c].status = "none" /\ experiment[c].compared = "none"
  BY DEF Init, NoExperiment
<1>3. SealInv
  BY <1>1, <1>2 DEF SealInv, Seals, Sealed, Final, Cycles, Processes
<1>4. PinInv
  BY <1>1 DEF PinInv, Pins, Processes
<1> QED
  BY <1>3, <1>4

\* Loading the active policy writes no experiment.
LEMMA LoadSeals ==
  ASSUME TypeOK, SealInv, NEW p \in Processes, LoadActive(p)
  PROVE  SealInv'
<1>0. Baseline \in Versions
  BY VersionsGrow
<1>1. UNCHANGED experiment /\ proc[p].pc \in {"load"} \cup Creating
  BY DEF LoadActive, ReadPointer, LookUp, Create, CreateRenames, Point, PointRenames, At, Creating
<1>2. CASE \E v \in Versions : Loaded(p, v)
  BY <1>1, <1>2, LoadedMoves, SealsStay DEF Creating
<1>3. CASE Raised(p)
  <2>1. /\ Alone(p) /\ proc'[p].pc \in {"idle", "finish", "done"}
        /\ p \in Cycles => proc'[p].result \in {"error", "raised"}
    BY <1>3, RaisedMoves
  <2> QED
    BY <1>1, <2>1, SealsStay DEF Cycles, Creating
<1>4. CASE \E phase \in {"lookup", "create", "created", "point", "pointed"} : Goes(p, phase)
  <2>1. Alone(p) /\ proc'[p].pc \in {"lookup", "create", "created", "point", "pointed"} /\ proc'[p].result = proc[p].result
    BY <1>4, GoesMoves
  <2> QED
    BY <1>1, <2>1, SealsStay DEF Creating
<1> QED
  BY <1>0, <1>2, <1>3, <1>4
  DEF LoadActive, ReadPointer, LookUp, Create, CreateRenames, Point, PointRenames, TypeOK

\* A failed activation writes no experiment of an rsi cycle.
LEMMA FailureSeals ==
  ASSUME TypeOK, WorkInv, SealInv, NEW c \in Cycles, ActivationFailed(c), proc[c].pc \in Working
  PROVE  SealInv'
<1> c \in Processes
  BY DEF Processes
<1>1. /\ Alone(c) /\ proc'[c].pc \in {"finish", "done"}
      /\ \A d \in Cycles : d # c => experiment'[d] = experiment[d]
  BY ActivationFailedKeeps
<1>2. CASE c \in RsiCycles
  <2>1. Raised(c) /\ UNCHANGED experiment
    BY <1>2 DEF ActivationFailed
  <2>2. proc'[c].result \in {"error", "raised"}
    BY <2>1, RaisedMoves
  <2> QED
    BY <1>1, <2>1, <2>2, SealsStay DEF Working
<1>3. CASE c \notin RsiCycles
  BY <1>1, <1>3, SealsKept
<1> QED
  BY <1>2, <1>3

\* Up to the evaluation an experiment is running.
LEMMA EvaluationSeals ==
  ASSUME TypeOK, WorkInv, SealInv, NEW c \in Cycles,
         Begin(c) \/ Acquire(c) \/ Evaluate(c) \/ WriteCandidate(c)
  PROVE  SealInv'
<1> c \in Processes
  BY DEF Processes
<1>1. CASE Begin(c)
  <2>1. Alone(c) /\ proc'[c].pc = "lock" /\ proc'[c].result = proc[c].result
    BY <1>1, GoesMoves DEF Begin
  <2>2. /\ \A d \in Cycles : d # c => experiment'[d] = experiment[d]
        /\ experiment'[c].compared = experiment[c].compared
        /\ c \in RsiCycles => experiment'[c].status = "running"
    BY <1>1 DEF Begin, TypeOK, Experiment
  <2>3. c \in RsiCycles => Seals(c)'
    BY <1>1, <2>1, <2>2 DEF Begin, At, SealInv, Seals, Final
  <2> QED
    BY <2>1, <2>2, <2>3, SealsKept
<1>2. CASE Acquire(c)
  <2>1. CASE Goes(c, "load")
    <3>1. Alone(c) /\ proc'[c].pc = "load" /\ proc'[c].result = proc[c].result
      BY <2>1, GoesMoves
    <3> QED
      BY <1>2, <3>1, SealsStay DEF Acquire, At
  <2>2. CASE Ends(c, "error")
    <3>1. Alone(c) /\ proc'[c].pc = "finish" /\ proc'[c].result = "error"
      BY <2>2, EndsMoves DEF Final
    <3> QED
      BY <1>2, <3>1, SealsStay DEF Acquire, At
  <2> QED
    BY <1>2, <2>1, <2>2 DEF Acquire
<1>3. CASE Evaluate(c)
  <2>1. ASSUME NEW result \in Final \ {"promoted"}, Ends(c, result)
        PROVE  Alone(c) /\ proc'[c].pc = "finish" /\ proc'[c].result # "promoted"
    BY <2>1, EndsMoves
  <2>2. ASSUME NEW patch \in Patches, NEW phase \in {"write", "decide"},
               proc' = [proc EXCEPT ![c].candidate = Append(proc[c].view, patch), ![c].pc = phase]
        PROVE  Alone(c) /\ proc'[c].pc = phase /\ proc'[c].result = proc[c].result
    <3> DEFINE v == Append(proc[c].view, patch)
    <3>1. v \in Versions
      BY <1>3, VersionsGrow DEF Evaluate, At, WorkInv, Work
    <3>2. proc' = [proc EXCEPT ![c].candidate = v, ![c].pc = phase]
      BY <2>2
    <3> HIDE DEF v
    <3> QED
      BY <3>1, <3>2, ProposedMoves
  <2>3. /\ Alone(c) /\ proc'[c].pc \in {"finish", "write", "decide"}
        /\ proc'[c].result = "promoted" => proc[c].result = "promoted"
    BY <1>3, <2>1, <2>2 DEF Evaluate
  <2>4. CASE c \in RsiCycles
    <3>1. UNCHANGED experiment
      BY <1>3, <2>4, PolicyAssumption DEF Evaluate
    <3> QED
      BY <1>3, <2>3, <3>1, SealsStay DEF Evaluate, At
  <2>5. CASE c \notin RsiCycles
    <3>1. \A d \in Cycles : d # c => experiment'[d] = experiment[d]
      BY <1>3 DEF Evaluate, RecordCycleError, TypeOK
    <3> QED
      BY <2>3, <2>5, <3>1, SealsKept
  <2> QED
    BY <2>4, <2>5
<1>4. CASE WriteCandidate(c) /\ Exists(proc[c].candidate)
  BY <1>4, FailureSeals DEF WriteCandidate, At, Working
<1>5. CASE WriteCandidate(c) /\ ~ Exists(proc[c].candidate)
  <2>1. UNCHANGED experiment /\ \E phase \in {"decide", "activate"} : Goes(c, phase) /\ (c \in RsiCycles => phase = "decide")
    BY <1>5 DEF WriteCandidate
  <2>2. /\ Alone(c) /\ proc'[c].pc \in {"decide", "activate"} /\ proc'[c].result = proc[c].result
        /\ c \in RsiCycles => proc'[c].pc = "decide"
    BY <2>1, GoesMoves
  <2> QED
    BY <1>5, <2>1, <2>2, SealsStay DEF WriteCandidate, At
<1> QED
  BY <1>1, <1>2, <1>3, <1>4, <1>5

\* A comparison that passed is written down before the pointer is looked at again.
LEMMA ActivationSeals ==
  ASSUME TypeOK, WorkInv, SealInv, NEW c \in Cycles, NEW promote \in BOOLEAN,
         Decide(c, promote) \/ Recheck(c) \/ Seal(c) \/ Activate(c) \/ ActivateRenames(c)
  PROVE  SealInv'
<1> c \in Processes
  BY DEF Processes
<1>1. CASE Decide(c, promote)
  <2>1. /\ Alone(c) /\ proc'[c].pc \in {"finish", "recheck", "write"}
        /\ proc'[c].pc = "finish" => proc'[c].result = "rejected"
        /\ proc'[c].pc # "finish" => proc'[c].result = proc[c].result
        /\ proc'[c].pc = "recheck" => promote /\ c \in RsiCycles
    <3>1. CASE ~ promote
      BY <1>1, <3>1, EndsMoves DEF Decide, Final
    <3>2. CASE promote /\ c \in RsiCycles
      BY <1>1, <3>2, GoesMoves DEF Decide
    <3>3. CASE promote /\ c \notin RsiCycles
      BY <1>1, <3>3, GoesMoves DEF Decide
    <3> QED
      BY <3>1, <3>2, <3>3
  <2>2. CASE c \in RsiCycles
    <3>1. /\ \A d \in Cycles : d # c => experiment'[d] = experiment[d]
          /\ experiment'[c].status = experiment[c].status
          /\ experiment'[c].compared = IF promote THEN "pass" ELSE "fail"
      BY <1>1, <2>2 DEF Decide, TypeOK, Experiment
    <3>2. experiment[c].status \notin Final /\ proc[c].result # "promoted"
      BY <1>1, <2>2 DEF Decide, At, SealInv, Seals
    <3>3. ~ promote => proc'[c].result = "rejected"
      BY <1>1, EndsMoves DEF Decide, Final
    <3>4. Seals(c)'
      BY <2>1, <3>1, <3>2, <3>3 DEF Seals
    <3> QED
      BY <2>1, <3>1, <3>4, SealsKept
  <2>3. CASE c \notin RsiCycles
    <3>1. \A d \in Cycles : d # c => experiment'[d] = experiment[d]
      BY <1>1, <2>3 DEF Decide, TypeOK
    <3> QED
      BY <2>1, <2>3, <3>1, SealsKept
  <2> QED
    BY <2>2, <2>3
<1>2. CASE Recheck(c)
  <2>1. CASE active # proc[c].view
    <3>1. Alone(c) /\ proc'[c].pc = "finish" /\ proc'[c].result = "rejected"
      BY <1>2, <2>1, EndsMoves DEF Recheck, Final
    <3> QED
      BY <1>2, <3>1, SealsStay DEF Recheck, At
  <2>2. CASE active = proc[c].view
    <3>1. Alone(c) /\ proc'[c].pc = "seal" /\ proc'[c].result = proc[c].result
      BY <1>2, <2>2, GoesMoves DEF Recheck
    <3> QED
      BY <1>2, <3>1, SealsStay DEF Recheck, At
  <2> QED
    BY <2>1, <2>2
<1>3. CASE Seal(c)
  <2>1. Alone(c) /\ proc'[c].pc = "activate" /\ proc'[c].result = proc[c].result /\ proc[c].pc = "seal"
    BY <1>3, GoesMoves DEF Seal, At
  <2>2. /\ \A d \in Cycles : d # c => experiment'[d] = experiment[d]
        /\ experiment'[c].status = "approved" /\ experiment'[c].compared = experiment[c].compared
    <3>1. experiment'[c].compared = experiment[c].compared
      BY <1>3 DEF Seal, TypeOK, Experiment
    <3> QED
      BY <1>3, <3>1, SealedMoves DEF Seal
  <2>3. c \in RsiCycles => Seals(c)'
    BY <2>1, <2>2 DEF SealInv, Seals, Final
  <2> QED
    BY <2>1, <2>2, <2>3, SealsKept
<1>4. CASE Activate(c)
  <2>1. Alone(c) /\ proc'[c].pc = "activated" /\ proc'[c].result = proc[c].result
    BY <1>4, GoesMoves DEF Activate
  <2> QED
    BY <1>4, <2>1, SealsStay DEF Activate, At
<1>5. CASE ActivateRenames(c) /\ temporary = Nothing
  BY <1>5, FailureSeals DEF ActivateRenames, At, Working
<1>6. CASE ActivateRenames(c) /\ temporary # Nothing
  <2>1. Alone(c) /\ proc'[c].pc = "finish" /\ proc'[c].result = "promoted"
    BY <1>6, EndsMoves DEF ActivateRenames, Final
  <2> QED
    BY <1>6, <2>1, SealsStay DEF ActivateRenames, At
<1> QED
  BY <1>1, <1>2, <1>3, <1>4, <1>5, <1>6

\* The files of a finish: the manifest is the last, and then all three agree.
LEMMA FilesAgree ==
  ASSUME NEW e \in Experiment, NEW result \in Final, NEW n \in 0 .. 3, NEW cut \in BOOLEAN
  PROVE  LET f == Files(e, result, n, cut) IN
         /\ f.compared = e.compared
         /\ n # 3 => f.status \in {e.status, "torn"}
         /\ n = 3 => f.status = result /\ f.outcome = result /\ f.promote = Verdict(result)
BY DEF Files, Written, Experiment, Final

\* A finish that is complete can be replayed.
LEMMA CompleteSeals ==
  ASSUME NEW e \in Experiment, NEW result \in Final, NEW cut \in BOOLEAN,
         result = "promoted" => e.compared = "pass", e.compared = "torn" => result = "error"
  PROVE  Sealed(Files(e, result, 3, cut))
<1> DEFINE f == Files(e, result, 3, cut)
<1>1. 3 \in 0 .. 3
  OBVIOUS
<1>2. /\ f.compared = e.compared /\ f.status = result /\ f.outcome = result
      /\ f.promote = Verdict(result)
  BY <1>1, FilesAgree
<1> HIDE DEF f
<1>3. Sealed(f)
  BY <1>2 DEF Sealed, Replays, Verdict, Final
<1> QED
  BY <1>3 DEF f

\* Writing the files of a finish, all or some.
LEMMA FilesSeal ==
  ASSUME TypeOK, WorkInv, SealInv, NEW c \in RsiCycles, proc[c].pc = "finish", NEW n \in 0 .. 3, NEW cut \in BOOLEAN,
         experiment' = [experiment EXCEPT ![c] = Files(experiment[c], proc[c].result, n, cut)]
  PROVE  /\ \A d \in Cycles : d # c => experiment'[d] = experiment[d]
         /\ experiment'[c].compared = experiment[c].compared
         /\ experiment'[c].status \in Final => n = 3 /\ Sealed(experiment'[c])
<1> c \in Cycles
  BY DEF Cycles
<1>1. proc[c].result \in Final /\ experiment[c] \in Experiment
  BY DEF WorkInv, Work, TypeOK
<1>2. /\ experiment[c].status \notin Final /\ (proc[c].result = "promoted" => experiment[c].compared = "pass")
      /\ experiment[c].compared = "torn" => proc[c].result = "error"
  BY DEF SealInv, Seals
<1>3. experiment'[c] = Files(experiment[c], proc[c].result, n, cut)
  BY DEF TypeOK
<1>4. /\ experiment'[c].compared = experiment[c].compared
      /\ n # 3 => experiment'[c].status \in {experiment[c].status, "torn"}
  BY <1>1, <1>3, FilesAgree
<1>5. n = 3 => Sealed(experiment'[c])
  BY <1>1, <1>2, <1>3, CompleteSeals
<1>6. \A d \in Cycles : d # c => experiment'[d] = experiment[d]
  BY DEF TypeOK
<1>7. "torn" \notin Final
  BY DEF Final
<1> QED
  BY <1>2, <1>4, <1>5, <1>6, <1>7

\* A cycle finishes.
LEMMA FinishSeals ==
  ASSUME TypeOK, WorkInv, SealInv, NEW c \in Cycles,
         \/ c \in RsiCycles /\ \E n \in 0 .. 3, cut \in BOOLEAN : FinishRsi(c, n, cut)
         \/ c \in Improvers /\ \E ok \in BOOLEAN : FinishImprover(c, ok)
  PROVE  SealInv'
<1> c \in Processes
  BY DEF Processes
<1>1. ASSUME c \in RsiCycles, NEW n \in 0 .. 3, NEW cut \in BOOLEAN, FinishRsi(c, n, cut)
      PROVE  SealInv'
  <2>1. /\ Alone(c) /\ proc'[c].pc \in {"finish", "done"} /\ proc[c].pc = "finish"
        /\ proc[c].result # "promoted" => proc'[c].result # "promoted"
    BY <1>1, FinishRsiMoves DEF FinishRsi, At
  <2>2. /\ \A d \in Cycles : d # c => experiment'[d] = experiment[d]
        /\ experiment'[c].compared = experiment[c].compared
        /\ experiment'[c].status \in Final => n = 3 /\ Sealed(experiment'[c])
    BY <1>1, FilesSeal DEF FinishRsi, At
  <2>3. (n = 3 => proc'[c].pc = "done") /\ (proc'[c].pc = "finish" => Raised(c))
    BY <1>1, DoneMoves DEF FinishRsi, TypeOK, Process
  <2>4. Raised(c) => proc'[c].result = "error"
    BY <1>1 DEF Raised, TypeOK, Process, Cycles, Processes, PolicyAssumption
  <2>5. Seals(c)'
    BY <1>1, <2>1, <2>2, <2>3, <2>4 DEF SealInv, Seals, Sealed, Replays
  <2> QED
    BY <2>1, <2>2, <2>5, SealsKept
<1>2. ASSUME c \in Improvers, NEW ok \in BOOLEAN, FinishImprover(c, ok)
      PROVE  SealInv'
  <2>1. Alone(c) /\ c \notin RsiCycles
    BY <1>2, DoneMoves, PolicyAssumption DEF FinishImprover
  <2>2. \A d \in Cycles : d # c => experiment'[d] = experiment[d]
    BY <1>2 DEF FinishImprover, TypeOK
  <2> QED
    BY <2>1, <2>2, SealsKept
<1> QED
  BY <1>1, <1>2

\* A failed write and a kill.
LEMMA FaultSeals ==
  ASSUME TypeOK, WorkInv, SealInv, NEW p \in Processes, WriteFails(p) \/ Crash(p)
  PROVE  SealInv'
<1>1. CASE Raised(p) /\ UNCHANGED experiment /\ proc[p].pc \notin {"finish", "done", "killed"}
  <2>1. /\ Alone(p) /\ proc'[p].pc \in {"idle", "finish", "done"}
        /\ p \in Cycles => proc'[p].result \in {"error", "raised"}
    BY <1>1, RaisedMoves
  <2> QED
    BY <1>1, <2>1, SealsStay DEF Cycles
<1>5. CASE p \in RsiCycles /\ Raised(p) /\ CutOff(p) /\ proc[p].pc \in {"evaluate", "decide", "seal"}
  <2>0. p \in Cycles /\ p \notin Sessions
    BY <1>5, PolicyAssumption DEF Cycles
  <2>1. Alone(p) /\ proc'[p].pc = "finish" /\ proc'[p].result = "error"
    BY <1>5, <2>0, RaisedMoves DEF Raised, TypeOK, Process
  <2>2. /\ \A d \in Cycles : d # p => experiment'[d] = experiment[d]
        /\ experiment'[p].status \in {experiment[p].status, "torn"}
    BY <1>5, <2>0, CutOffMoves
  <2>3. experiment[p].status \notin Final /\ "torn" \notin Final
    BY <1>5 DEF SealInv, Seals, Final
  <2>4. Seals(p)'
    BY <2>1, <2>2, <2>3 DEF Seals
  <2> QED
    BY <2>1, <2>2, <2>4, SealsKept
<1>2. CASE p \in Improvers /\ Ends(p, "error") /\ UNCHANGED experiment
  <2>1. Alone(p) /\ p \notin RsiCycles
    BY <1>2, EndsMoves, PolicyAssumption DEF Final
  <2> QED
    BY <1>2, <2>1, SealsStay
<1>3. CASE p \in Cycles /\ ActivationFailed(p) /\ proc[p].pc \in {"write", "activate", "activated"}
  BY <1>3, FailureSeals DEF Working
<1>4. CASE Crash(p)
  <2>1. /\ Alone(p) /\ proc'[p].pc \in {"idle", "killed"} /\ proc'[p].result = proc[p].result
        /\ p \in Cycles => proc'[p].pc = "killed"
    BY <1>4, CrashMoves
  <2>2. CASE UNCHANGED experiment
    BY <1>4, <2>1, <2>2, SealsStay DEF Crash, Cycles
  <2>3. CASE p \in RsiCycles /\ CutOff(p)
    <3>0. p \in Cycles /\ proc'[p].pc = "killed"
      BY <2>1, <2>3 DEF Cycles
    <3>1. /\ \A d \in Cycles : d # p => experiment'[d] = experiment[d]
          /\ experiment'[p].status \in {experiment[p].status, "torn"} /\ "torn" \notin Final
          /\ proc[p].pc \notin {"decide", "seal"} => experiment'[p] = experiment[p]
      BY <2>3, <3>0, CutOffMoves DEF Final
    <3>2. proc[p].pc \notin {"done", "killed"}
      BY <1>4 DEF Crash
    <3>3. Seals(p)'
      BY <2>1, <2>3, <3>0, <3>1, <3>2 DEF SealInv, Seals
    <3> QED
      BY <2>1, <3>1, <3>3, SealsKept
  <2>4. ASSUME p \in RsiCycles, At(p, "finish"), NEW n \in 0 .. 3, NEW cut \in BOOLEAN,
               experiment' = [experiment EXCEPT ![p] = Files(@, proc[p].result, n, cut)]
        PROVE  SealInv'
    <3>1. /\ \A d \in Cycles : d # p => experiment'[d] = experiment[d]
          /\ experiment'[p].compared = experiment[p].compared
          /\ experiment'[p].status \in Final => Sealed(experiment'[p])
      BY <2>4, FilesSeal DEF At
    <3>2. Seals(p)'
      BY <2>1, <2>4, <3>1 DEF SealInv, Seals, Cycles
    <3> QED
      BY <2>1, <3>1, <3>2, SealsKept
  <2> QED
    BY <1>4, <2>2, <2>3, <2>4 DEF Crash
<1> QED
  BY <1>1, <1>2, <1>3, <1>4, <1>5 DEF WriteFails, At

\* Whoever loads the active policy does nothing to the others.
LEMMA LoadAlone ==
  ASSUME TypeOK, NEW p \in Processes, LoadActive(p)
  PROVE  Alone(p) /\ proc'[p].pc # "running"
<1>0. Baseline \in Versions
  BY VersionsGrow
<1>1. CASE \E v \in Versions : Loaded(p, v)
  BY <1>1, LoadedMoves
<1>2. CASE Raised(p)
  BY <1>2, RaisedMoves
<1>3. CASE \E phase \in {"lookup", "create", "created", "point", "pointed"} : Goes(p, phase)
  BY <1>3, GoesMoves
<1> QED
  BY <1>0, <1>1, <1>2, <1>3
  DEF LoadActive, ReadPointer, LookUp, Create, CreateRenames, Point, PointRenames, TypeOK

\* A session does nothing to the others.
LEMMA SessionAlone ==
  ASSUME TypeOK, NEW s \in Sessions, SessionStarts(s) \/ Pin(s) \/ SessionEnds(s)
  PROVE  Alone(s)
<1> s \in Processes
  BY DEF Processes
<1>1. CASE \E phase \in {"load", "running", "idle"} : Goes(s, phase)
  BY <1>1, GoesMoves
<1>2. CASE proc' = [proc EXCEPT ![s].view = snapshot[s], ![s].pc = "running"]
  BY <1>2 DEF TypeOK, Alone
<1> QED
  BY <1>1, <1>2 DEF SessionStarts, Pin, SessionEnds

\* A fault of a process does nothing to the others, and a session starts again.
LEMMA FaultAlone ==
  ASSUME TypeOK, NEW p \in Processes, WriteFails(p) \/ Crash(p)
  PROVE  Alone(p) /\ (p \in Sessions => proc'[p].pc = "idle")
<1>0. p \in Sessions => p \notin Cycles /\ p \notin RsiCycles /\ p \notin Improvers
  BY PolicyAssumption DEF Cycles
<1>1. CASE Raised(p)
  <2>1. p \in Sessions => proc'[p].pc = "idle"
    BY <1>0, <1>1 DEF Raised, TypeOK, Process
  <2> QED
    BY <1>1, <2>1, RaisedMoves
<1>2. CASE p \in Cycles /\ (Ends(p, "error") \/ Ends(p, "promoted"))
  <2>1. p \notin Sessions
    BY <1>2, PolicyAssumption
  <2> QED
    BY <1>2, <2>1, EndsMoves DEF Final
<1>3. CASE \E phase \in {"idle", "killed"} : Goes(p, phase) /\ (p \in Sessions => phase = "idle")
  BY <1>3, GoesMoves
<1> QED
  BY <1>1, <1>2, <1>3 DEF WriteFails, Crash, ActivationFailed, Cycles

\* A cycle does nothing to the others.
LEMMA CycleAlone ==
  ASSUME TypeOK, NEW c \in Cycles, Begin(c) \/ CycleStep(c)
  PROVE  Alone(c)
<1> c \in Processes
  BY DEF Processes
<1>1. CASE LoadActive(c)
  BY <1>1, LoadAlone
<1>2. ASSUME NEW phase, Goes(c, phase) PROVE Alone(c)
  BY <1>2 DEF Goes, Alone, TypeOK
<1>3. ASSUME NEW result, Ends(c, result) PROVE Alone(c)
  BY <1>3 DEF Ends, Alone, TypeOK
<1>4. Raised(c) => Alone(c)
  BY DEF Raised, Alone, TypeOK
<1>5. Done(c) => Alone(c)
  BY DEF Done, Alone, TypeOK
<1>6. ActivationFailed(c) => Alone(c)
  BY <1>3, <1>4 DEF ActivationFailed
<1>7. Evaluate(c) => Alone(c)
  <2>1. ASSUME NEW patch \in Patches,
               proc' = [proc EXCEPT ![c].candidate = Append(proc[c].view, patch),
                                    ![c].pc = IF c \in RsiCycles THEN "write" ELSE "decide"]
        PROVE  Alone(c)
    BY <2>1 DEF Alone, TypeOK
  <2> QED
    BY <1>3, <2>1 DEF Evaluate
<1>8. \A n \in 0 .. 3, cut \in BOOLEAN : FinishRsi(c, n, cut) => Alone(c)
  <2>1. proc' = [proc EXCEPT ![c].pc = "done", ![c].result = "raised"] => Alone(c)
    BY DEF Alone, TypeOK
  <2> QED
    BY <1>4, <1>5, <2>1 DEF FinishRsi
<1>9. Begin(c) \/ Acquire(c) \/ WriteCandidate(c) \/ Recheck(c) \/ Seal(c) \/ Activate(c) \/ ActivateRenames(c) => Alone(c)
  BY <1>2, <1>3, <1>6 DEF Begin, Acquire, WriteCandidate, Recheck, Seal, Activate, ActivateRenames
<1>10. \A promote \in BOOLEAN : Decide(c, promote) => Alone(c)
  BY <1>2, <1>3 DEF Decide
<1>11. \A ok \in BOOLEAN : FinishImprover(c, ok) => Alone(c)
  BY <1>5 DEF FinishImprover
<1> QED
  BY <1>1, <1>7, <1>8, <1>9, <1>10, <1>11 DEF CycleStep

\* The sessions of the others are as they were.
LEMMA PinsKept ==
  ASSUME TypeOK, PinInv, NEW p \in Processes, Alone(p),
         \A s \in Sessions : s # p => snapshot'[s] = snapshot[s],
         p \in Sessions => Pins(p)'
  PROVE  PinInv'
<1> SUFFICES ASSUME NEW s \in Sessions PROVE Pins(s)'
  BY DEF PinInv
<1>1. CASE s = p
  BY <1>1
<1>2. CASE s # p
  <2>1. s \in Processes
    BY DEF Processes
  <2> QED
    BY <1>2, <2>1 DEF PinInv, Pins, Alone
<1> QED
  BY <1>1, <1>2

\* A session has one snapshot for ever, and runs only on it.
LEMMA StepPins ==
  ASSUME TypeOK, PinInv, [Next]_vars
  PROVE  /\ PinInv'
         /\ \A s \in Sessions :
              /\ snapshot[s] # Nothing => snapshot'[s] = snapshot[s]
              /\ At(s, "running")' => proc'[s].view = snapshot'[s]
<1>0. \A s \in Sessions : s \in Processes /\ s \notin Cycles
  BY PolicyAssumption DEF Processes
<1>1. PinInv' /\ \A s \in Sessions : snapshot[s] # Nothing => snapshot'[s] = snapshot[s]
  <2>1. ASSUME NEW c \in Cycles, Begin(c) \/ CycleStep(c) PROVE PinInv' /\ UNCHANGED snapshot
    <3>1. UNCHANGED snapshot
      BY <2>1 DEF Begin, CycleStep, LoadActive, ReadPointer, LookUp, Create, CreateRenames, Point, PointRenames,
                  Acquire, Evaluate, WriteCandidate, Decide, Recheck, Seal, Activate, ActivateRenames,
                  FinishRsi, FinishImprover
    <3>2. c \in Processes /\ c \notin Sessions
      BY PolicyAssumption DEF Processes
    <3>3. Alone(c)
      BY <2>1, CycleAlone DEF CycleStep
    <3> QED
      BY <3>1, <3>2, <3>3, PinsKept
  <2>2. ASSUME NEW s \in Sessions, LoadActive(s) PROVE PinInv' /\ UNCHANGED snapshot
    <3>1. UNCHANGED snapshot /\ proc[s].pc \notin {"idle", "running"}
      BY <2>2 DEF LoadActive, ReadPointer, LookUp, Create, CreateRenames, Point, PointRenames, At
    <3>2. Alone(s) /\ proc'[s].pc # "running"
      BY <1>0, <2>2, LoadAlone
    <3>3. Pins(s)'
      BY <3>1, <3>2 DEF PinInv, Pins
    <3> QED
      BY <1>0, <3>1, <3>2, <3>3, PinsKept
  <2>3. ASSUME NEW s \in Sessions, SessionStarts(s)
        PROVE  PinInv' /\ UNCHANGED snapshot
    <3>1. CASE snapshot[s] # Nothing
      <4>1. Alone(s) /\ proc'[s].pc = "running" /\ proc'[s].view = snapshot[s] /\ UNCHANGED snapshot
        BY <1>0, <2>3, <3>1 DEF SessionStarts, Alone, TypeOK, Process
      <4>2. Pins(s)'
        BY <4>1 DEF Pins
      <4> QED
        BY <1>0, <4>1, <4>2, PinsKept
    <3>2. CASE snapshot[s] = Nothing
      <4>1. Alone(s) /\ proc'[s].pc = "load" /\ UNCHANGED snapshot
        BY <1>0, <2>3, <3>2, GoesMoves DEF SessionStarts
      <4>2. Pins(s)'
        BY <3>2, <4>1 DEF Pins
      <4> QED
        BY <1>0, <4>1, <4>2, PinsKept
    <3> QED
      BY <3>1, <3>2
  <2>4. ASSUME NEW s \in Sessions, Pin(s)
        PROVE  PinInv' /\ \A t \in Sessions : snapshot[t] # Nothing => snapshot'[t] = snapshot[t]
    <3>1. Alone(s) /\ proc'[s].pc = "running" /\ proc'[s].view = proc[s].view /\ proc[s].pc = "pin"
      BY <1>0, <2>4, GoesMoves DEF Pin, At
    <3>2. snapshot'[s] = proc[s].view /\ \A t \in Sessions : t # s => snapshot'[t] = snapshot[t]
      BY <2>4 DEF Pin, TypeOK
    <3>3. snapshot[s] = Nothing
      BY <3>1 DEF PinInv, Pins
    <3>4. Pins(s)'
      BY <3>1, <3>2 DEF Pins
    <3>5. PinInv'
      BY <1>0, <3>1, <3>2, <3>4, PinsKept
    <3> QED
      BY <3>2, <3>3, <3>5
  <2>5. ASSUME NEW s \in Sessions, SessionEnds(s) PROVE PinInv' /\ UNCHANGED snapshot
    <3>1. Alone(s) /\ proc'[s].pc = "idle" /\ UNCHANGED snapshot
      BY <1>0, <2>5, GoesMoves DEF SessionEnds
    <3>2. Pins(s)'
      BY <3>1 DEF Pins
    <3> QED
      BY <1>0, <3>1, <3>2, PinsKept
  <2>6. ASSUME NEW p \in Processes, WriteFails(p) \/ Crash(p) PROVE PinInv' /\ UNCHANGED snapshot
    <3>1. UNCHANGED snapshot
      BY <2>6 DEF WriteFails, Crash
    <3>2. Alone(p) /\ (p \in Sessions => proc'[p].pc = "idle")
      BY <1>0, <2>6, FaultAlone
    <3>3. p \in Sessions => Pins(p)'
      BY <3>2 DEF Pins
    <3> QED
      BY <3>1, <3>2, <3>3, PinsKept
  <2>7. CASE UNCHANGED vars
    BY <2>7 DEF vars, PinInv, Pins
  <2> QED
    BY <2>1, <2>2, <2>3, <2>4, <2>5, <2>6, <2>7 DEF Next
<1> QED
  BY <1>1 DEF PinInv, Pins, At

-----------------------------------------------------------------------------
\* Every step keeps the records.
LEMMA NextSeals == IInv /\ SealInv /\ [Next]_vars => SealInv'
<1> SUFFICES ASSUME IInv, SealInv, [Next]_vars PROVE SealInv'
  OBVIOUS
<1>0. TypeOK /\ WorkInv
  BY DEF IInv
<1>1. ASSUME NEW c \in Cycles, Begin(c) \/ CycleStep(c) PROVE SealInv'
  <2>1. CASE LoadActive(c)
    BY <1>0, <2>1, LoadSeals DEF Processes
  <2>2. CASE Begin(c) \/ Acquire(c) \/ Evaluate(c) \/ WriteCandidate(c)
    BY <1>0, <2>2, EvaluationSeals
  <2>3. ASSUME NEW promote \in BOOLEAN, Decide(c, promote) PROVE SealInv'
    BY <1>0, <2>3, ActivationSeals
  <2>4. CASE Recheck(c) \/ Seal(c) \/ Activate(c) \/ ActivateRenames(c)
    <3>1. TRUE \in BOOLEAN
      OBVIOUS
    <3> QED
      BY <1>0, <2>4, <3>1, ActivationSeals
  <2>5. CASE \/ c \in RsiCycles /\ \E n \in 0 .. 3, cut \in BOOLEAN : FinishRsi(c, n, cut)
             \/ c \in Improvers /\ \E ok \in BOOLEAN : FinishImprover(c, ok)
    BY <1>0, <2>5, FinishSeals
  <2> QED
    BY <1>1, <2>1, <2>2, <2>3, <2>4, <2>5 DEF CycleStep
<1>2. ASSUME NEW s \in Sessions, LoadActive(s) PROVE SealInv'
  BY <1>0, <1>2, LoadSeals DEF Processes
<1>3. ASSUME NEW s \in Sessions, SessionStarts(s) \/ Pin(s) \/ SessionEnds(s) PROVE SealInv'
  <2>1. s \in Processes /\ s \notin RsiCycles
    BY PolicyAssumption DEF Processes, Cycles
  <2>2. UNCHANGED experiment
    BY <1>3 DEF SessionStarts, Pin, SessionEnds
  <2>3. Alone(s)
    BY <1>0, <1>3, <2>1, SessionAlone
  <2> QED
    BY <1>0, <2>1, <2>2, <2>3, SealsStay
<1>4. ASSUME NEW p \in Processes, WriteFails(p) \/ Crash(p) PROVE SealInv'
  BY <1>0, <1>4, FaultSeals
<1>5. CASE UNCHANGED vars
  BY <1>5 DEF vars, SealInv, Seals, Sealed, Replays
<1> QED
  BY <1>1, <1>2, <1>3, <1>4, <1>5 DEF Next

\* An rsi cycle whose manifest has a final status can be replayed, wherever the writing
\* of its files failed or was cut off.
THEOREM ExperimentsReplay == Spec => []SealedExperimentsReplay
<1>1. Init => SealInv
  BY InitSeals
<1>2. IInv /\ SealInv /\ [Next]_vars => SealInv'
  BY NextSeals
<1>3. SealInv => SealedExperimentsReplay
  BY DEF SealInv, Seals, SealedExperimentsReplay
<1> QED
  BY <1>1, <1>2, <1>3, Invariance, PTL DEF Spec

\* A session runs on the policy it pinned when it first started, whatever is promoted
\* meanwhile and however often it is killed.
THEOREM SessionsStayPinned == Spec => SessionsArePinned
<1>1. Init => PinInv
  BY InitSeals
<1>2. TypeOK /\ PinInv /\ [Next]_vars =>
        PinInv' /\ [\A s \in Sessions :
                      /\ snapshot[s] # Nothing => snapshot'[s] = snapshot[s]
                      /\ At(s, "running")' => proc'[s].view = snapshot'[s]]_vars
  BY StepPins
<1> QED
  BY <1>1, <1>2, Typed, PTL DEF Spec, SessionsArePinned

-----------------------------------------------------------------------------
(* The store implements PolicyLineage: what a session pins is the active    *)
(* policy or an ancestor of it.                                             *)

Ancestor(v, w) == \E n \in 0 .. Len(w) : v = SubSeq(w, 1, n)

\* What a session is about to pin was active when it was read, and the active policy has
\* only grown since.
AncestryInv == ~ fresh => \A s \in Sessions : At(s, "pin") => Ancestor(proc[s].view, active)

Lineaged == [Lineage!Next]_(Lineage!lineageVars)

LEMMA AncestorsGrow ==
  ASSUME NEW w \in Versions
  PROVE  /\ Ancestor(w, w)
         /\ \A v, patch : patch \in Patches /\ Ancestor(v, w) => Ancestor(v, Append(w, patch))
<1>1. w \in Seq(Patches) /\ Len(w) \in Nat
  BY DEF Versions
<1>2. Ancestor(w, w)
  <2>1. w = SubSeq(w, 1, Len(w))
    BY <1>1, SubSeqFull
  <2>2. PICK n \in Nat : n = Len(w)
    BY <1>1
  <2>3. n \in 0 .. Len(w)
    BY <2>2
  <2>4. w = SubSeq(w, 1, n)
    BY <2>1, <2>2
  <2> QED
    BY <2>3, <2>4, Zenon DEF Ancestor
<1>3. ASSUME NEW v, NEW patch \in Patches, Ancestor(v, w) PROVE Ancestor(v, Append(w, patch))
  <2> DEFINE x == Append(w, patch)
  <2>1. PICK n \in 0 .. Len(w) : v = SubSeq(w, 1, n)
    BY <1>3 DEF Ancestor
  <2>2. x \in Seq(Patches) /\ Len(x) = Len(w) + 1 /\ \A i \in 1 .. Len(w) : x[i] = w[i]
    BY <1>1
  <2> HIDE DEF x
  <2>3. n \in 0 .. Len(x) /\ n \in Int
    BY <1>1, <2>2
  <2>4. \A i \in 1 .. n : w[i] \in Patches /\ x[i] \in Patches /\ x[i] = w[i]
    BY <1>1, <2>2
  <2>5. /\ SubSeq(w, 1, n) \in Seq(Patches) /\ Len(SubSeq(w, 1, n)) = IF 1 <= n THEN n - 1 + 1 ELSE 0
        /\ \A i \in 1 .. n - 1 + 1 : SubSeq(w, 1, n)[i] = w[1 + i - 1]
    BY <2>3, <2>4, SubSeqProperties
  <2>6. /\ SubSeq(x, 1, n) \in Seq(Patches) /\ Len(SubSeq(x, 1, n)) = IF 1 <= n THEN n - 1 + 1 ELSE 0
        /\ \A i \in 1 .. n - 1 + 1 : SubSeq(x, 1, n)[i] = x[1 + i - 1]
    BY <2>3, <2>4, SubSeqProperties
  <2>7. SubSeq(w, 1, n) = SubSeq(x, 1, n)
    <3> DEFINE a == SubSeq(w, 1, n)
               b == SubSeq(x, 1, n)
    <3>1. Len(a) = n /\ Len(b) = n
      BY <2>3, <2>5, <2>6
    <3>2. \A i \in 1 .. n : a[i] = w[i] /\ b[i] = x[i]
      <4>1. n - 1 + 1 = n /\ \A i \in 1 .. n : 1 + i - 1 = i
        BY <2>3
      <4> QED
        BY <2>5, <2>6, <4>1
    <3>3. a \in Seq(Patches) /\ b \in Seq(Patches)
      BY <2>5, <2>6
    <3> HIDE DEF a, b
    <3>4. a = b
      BY <2>4, <3>1, <3>2, <3>3, SeqEqual
    <3> QED
      BY <3>4 DEF a, b
  <2> QED
    BY <2>1, <2>3, <2>7 DEF Ancestor, x
<1> QED
  BY <1>2, <1>3

\* Only a session changes its own snapshot, and nothing changes what the store was.
LEMMA OnlySessionsPin ==
  ASSUME [Next]_vars
  PROVE  fresh' = fresh /\ (UNCHANGED snapshot \/ \E s \in Sessions : Pin(s))
<1>1. ASSUME NEW p \in Processes, LoadActive(p) PROVE UNCHANGED <<fresh, snapshot>>
  BY <1>1 DEF LoadActive, ReadPointer, LookUp, Create, CreateRenames, Point, PointRenames
<1>2. ASSUME NEW c \in Cycles, Begin(c) \/ CycleStep(c) PROVE UNCHANGED <<fresh, snapshot>>
  <2>1. c \in Processes
    BY DEF Processes
  <2> QED
    BY <1>1, <1>2, <2>1 DEF Begin, CycleStep, Acquire, Evaluate, WriteCandidate, Decide, Recheck, Seal, Activate,
                            ActivateRenames, FinishRsi, FinishImprover
<1>3. ASSUME NEW s \in Sessions, SessionStarts(s) \/ LoadActive(s) \/ SessionEnds(s) PROVE UNCHANGED <<fresh, snapshot>>
  <2>1. s \in Processes
    BY DEF Processes
  <2> QED
    BY <1>1, <1>3, <2>1 DEF SessionStarts, SessionEnds
<1>4. ASSUME NEW s \in Sessions, Pin(s) PROVE fresh' = fresh
  BY <1>4 DEF Pin
<1>5. ASSUME NEW p \in Processes, WriteFails(p) \/ Crash(p) PROVE UNCHANGED <<fresh, snapshot>>
  BY <1>5 DEF WriteFails, Crash
<1>6. CASE UNCHANGED vars
  BY <1>6 DEF vars
<1> QED
  BY <1>2, <1>3, <1>4, <1>5, <1>6 DEF Next

\* A session that is about to pin has read the pointer, or had read it before.
LEMMA PinsAreRead ==
  ASSUME IInv, [Next]_vars, ~ fresh, NEW s \in Sessions, At(s, "pin")'
  PROVE  proc'[s] = proc[s] \/ (proc'[s].view = active /\ active' = active)
<1>0. TypeOK /\ s \in Processes /\ proc[s].pc \notin Creating
  BY DEF IInv, LineInv, StoreInv, Processes
<1>1. \A c \in Cycles : c # s
  BY PolicyAssumption
<1>2. ASSUME NEW c \in Cycles, Begin(c) \/ CycleStep(c) PROVE proc'[s] = proc[s]
  BY <1>0, <1>1, <1>2, CycleAlone DEF Alone
<1>3. ASSUME NEW t \in Sessions, t # s, SessionStarts(t) \/ LoadActive(t) \/ Pin(t) \/ SessionEnds(t)
      PROVE  proc'[s] = proc[s]
  <2>1. t \in Processes
    BY DEF Processes
  <2> QED
    BY <1>0, <1>3, <2>1, SessionAlone, LoadAlone DEF Alone
<1>4. ASSUME NEW p \in Processes, WriteFails(p) \/ Crash(p) PROVE proc'[s] = proc[s]
  BY <1>0, <1>4, FaultAlone DEF Alone, At
<1>5. CASE SessionStarts(s)
  <2>1. proc'[s].pc \in {"running", "load"}
    <3>1. CASE snapshot[s] = Nothing
      <4>1. Goes(s, "load")
        BY <1>5, <3>1 DEF SessionStarts
      <4> QED
        BY <1>0, <4>1, GoesMoves
    <3>2. CASE snapshot[s] # Nothing
      <4>1. proc' = [proc EXCEPT ![s].view = snapshot[s], ![s].pc = "running"]
        BY <1>5, <3>2 DEF SessionStarts
      <4> QED
        BY <1>0, <4>1 DEF TypeOK, Process
    <3> QED
      BY <3>1, <3>2
  <2> QED
    BY <2>1 DEF At
<1>6. CASE Pin(s) \/ SessionEnds(s)
  <2>1. proc'[s].pc \in {"running", "idle"}
    <3>1. Goes(s, "idle") \/ Goes(s, "running")
      BY <1>6 DEF Pin, SessionEnds
    <3> QED
      BY <1>0, <3>1, GoesMoves
  <2> QED
    BY <2>1 DEF At
<1>7. CASE LoadActive(s)
  <2>1. ReadPointer(s)
    BY <1>0, <1>7 DEF LoadActive, LookUp, Create, CreateRenames, Point, PointRenames, At, Creating
  <2>2. active # Nothing /\ active \in Versions
    BY DEF IInv, LineInv, StoreInv, TypeOK
  <2>3. Loaded(s, active) /\ active' = active
    BY <2>1, <2>2 DEF ReadPointer, store
  <2> QED
    BY <1>0, <2>2, <2>3, LoadedMoves
<1>8. CASE UNCHANGED vars
  BY <1>8 DEF vars
<1> QED
  BY <1>2, <1>3, <1>4, <1>5, <1>6, <1>7, <1>8 DEF Next

LEMMA AncestryContinues ==
  ASSUME IInv, AncestryInv, [Next]_vars
  PROVE  AncestryInv'
<1>1. fresh' = fresh
  BY OnlySessionsPin
<1>2. SUFFICES ASSUME ~ fresh, NEW s \in Sessions, At(s, "pin")' PROVE Ancestor(proc'[s].view, active')
  BY <1>1 DEF AncestryInv
<1>3. active \in Versions
  BY <1>2 DEF IInv, LineInv, StoreInv, TypeOK
<1>4. active' = active \/ \E patch \in Patches : active' = Append(active, patch)
  BY <1>2, StepExtends
<1>5. CASE proc'[s] = proc[s]
  <2>1. Ancestor(proc[s].view, active)
    BY <1>2, <1>5 DEF AncestryInv, At
  <2> QED
    BY <1>3, <1>4, <1>5, <2>1, AncestorsGrow
<1>6. CASE proc'[s].view = active /\ active' = active
  BY <1>3, <1>6, AncestorsGrow
<1> QED
  BY <1>2, <1>5, <1>6, PinsAreRead

LEMMA StepIsOfTheLineage ==
  ASSUME IInv, PinInv, AncestryInv, [Next]_vars
  PROVE  Lineaged
<1> USE DEF Lineaged, Lineage!lineageVars
<1>1. fresh' = fresh /\ (UNCHANGED snapshot \/ \E s \in Sessions : Pin(s))
  BY OnlySessionsPin
<1>2. CASE fresh
  BY <1>1, <1>2
<1>3. CASE ~ fresh /\ \E s \in Sessions : Pin(s)
  <2>1. PICK s \in Sessions : Pin(s)
    BY <1>3
  <2>2. /\ At(s, "pin") /\ snapshot' = [snapshot EXCEPT ![s] = proc[s].view] /\ active' = active
    BY <2>1 DEF Pin, store
  <2>3. snapshot[s] = Nothing
    BY <2>2 DEF PinInv, Pins, At
  <2>4. PICK n \in 0 .. Len(active) : proc[s].view = SubSeq(active, 1, n)
    BY <1>3, <2>2 DEF AncestryInv, Ancestor
  <2>5. Lineage!Pin(s, n)
    BY <1>1, <1>3, <2>2, <2>3, <2>4 DEF Lineage!Pin
  <2>6. n \in 0 .. Len(IF fresh THEN Baseline ELSE active)
    BY <1>3, <2>4
  <2> QED
    BY <2>5, <2>6 DEF Lineage!Next
<1>4. CASE ~ fresh /\ UNCHANGED snapshot
  <2>1. CASE active' = active
    BY <1>1, <1>4, <2>1
  <2>2. CASE \E patch \in Patches : active' = Append(active, patch)
    <3>1. PICK patch \in Patches : active' = Append(active, patch)
      BY <2>2
    <3>2. Lineage!Promote(patch)
      BY <1>1, <1>4, <3>1 DEF Lineage!Promote
    <3> QED
      BY <3>2 DEF Lineage!Next
  <2> QED
    BY <1>4, <2>1, <2>2, StepExtends
<1> QED
  BY <1>1, <1>2, <1>3, <1>4

\* A store that has its pointer behaves as PolicyLineage promises, for every number of
\* cycles and sessions, kills and failed writes: promotions and pins are its only steps,
\* and what a session has pinned is an ancestor of the active policy.
THEOREM LineageIsImplemented == Spec => ImplementsLineage
<1>1. Init => Lineage!Init /\ AncestryInv /\ PinInv
  <2>1. Init => Lineage!Init
    BY DEF Init, Lineage!Init, Baseline
  <2>2. Init => AncestryInv
    BY DEF Init, AncestryInv, At, Processes
  <2> QED
    BY <2>1, <2>2, InitSeals
<1>2. IInv /\ AncestryInv /\ [Next]_vars => AncestryInv'
  BY AncestryContinues
<1>3. IInv /\ PinInv /\ [Next]_vars => PinInv'
  BY StepPins DEF IInv
<1>4. IInv /\ PinInv /\ AncestryInv /\ [Next]_vars => [Lineage!Next]_(Lineage!lineageVars)
  BY StepIsOfTheLineage DEF Lineaged
<1> QED
  BY <1>1, <1>2, <1>3, <1>4, Invariance, PTL DEF Spec, ImplementsLineage, Lineage!Spec

-----------------------------------------------------------------------------
(* The live comparison.                                                     *)

\* What a replay leaves to be compared.
EndedReplays == [outcome : {"success", "failed", "unscorable"}, models : SUBSET (Models \cup {Unknown}),
            consumed : SUBSET (Calls \cup {"foreign"}), findings : SUBSET Claims, passed : BOOLEAN]

\* From the binding on the reviewer's expectation is of the content that is replayed,
\* and every replay has been assessed by it.
BoundInv == pc \in {"replay", "done"} => expectation.content = held

AttemptsInv == attempts \in 0 .. MaxAttempts

RunsInv ==
  /\ runs \in Seq(EndedReplays) /\ Len(runs) <= 4 * Repeats
  /\ pc \notin {"replay", "done"} => runs = <<>>
  /\ \A i \in DOMAIN runs :
       /\ runs[i].outcome = "success" => ~ Unplayable(ContentOf(Plan[i].case))
       /\ runs[i].passed <=> Passed(runs[i], ExpectationOf(Plan[i].case))

\* An improvement is reported of a whole and fair comparison only.
ReportInv ==
  report.improved =>
    /\ pc = "done" /\ Len(runs) = 4 * Repeats
    /\ Fair /\ Passes("target", "candidate") > Passes("target", "baseline")

ComparisonInv == BoundInv /\ AttemptsInv /\ RunsInv /\ ReportInv

LEMMA PlanIsOfPairs ==
  /\ Repeats \in Nat /\ Repeats > 0 /\ DOMAIN Plan = 1 .. 4 * Repeats /\ Len(Plan) = 4 * Repeats
  /\ \A i \in 1 .. 4 * Repeats :
       /\ Plan[i].case = IF i <= 2 * Repeats THEN "target" ELSE "guard"
       /\ Plan[i].variant = IF i % 2 = 1 THEN "baseline" ELSE "candidate"
  BY ComparisonAssumption DEF ComparisonAssumption, Plan

LEMMA ReplayIsAReplay ==
  ASSUME NEW content, NEW b \in Behaviours
  PROVE  /\ Replay(content, b) \in EndedReplays
         /\ Replay(content, b).outcome = "success" => ~ Unplayable(content)
<1>1. b.models \in SUBSET (Models \cup {Unknown}) /\ b.findings \in SUBSET Claims
      /\ b.calls \in SUBSET (Calls \cup {"foreign"})
  BY DEF Behaviours
<1>2. Matched(content, b) \in SUBSET (Calls \cup {"foreign"})
  BY <1>1 DEF Matched
<1>3. Finished(content, b) \in EndedReplays
  BY <1>1, <1>2 DEF Finished, EndedReplays
<1>4. \A outcome \in {"failed", "unscorable"} :
        Unfinished(outcome) \in EndedReplays /\ Unfinished(outcome).outcome # "success"
  BY DEF Unfinished, EndedReplays
<1> QED
  BY <1>3, <1>4 DEF Replay

\* No replay makes a request beyond the budget.
LEMMA ClaimsStayInBudget ==
  ASSUME NEW content, NEW b \in Behaviours, AttemptsInv
  PROVE  attempts + Claimed(content, b) \in 0 .. MaxAttempts
<1>1. b.requests \in Nat
  BY ComparisonAssumption DEF Behaviours, ComparisonAssumption
<1>2. attempts \in Nat /\ attempts <= MaxAttempts /\ MaxAttempts \in Nat
  BY ComparisonAssumption DEF AttemptsInv, ComparisonAssumption
<1> QED
  BY <1>1, <1>2 DEF Claimed, Exhausted

LEMMA RunNextKeeps ==
  ASSUME ComparisonInv, NEW b \in Behaviours, RunNext(b)
  PROVE  ComparisonInv'
<1> DEFINE n == Len(runs) + 1
           case == Plan[n].case
           run == Replay(ContentOf(case), b)
           assessed == [run EXCEPT !.passed = Passed(run, ExpectationOf(case))]
<1>1. runs \in Seq(EndedReplays) /\ Len(runs) \in Nat /\ n \in 1 .. 4 * Repeats
  <2>1. runs \in Seq(EndedReplays) /\ Len(runs) \in Nat
    BY DEF ComparisonInv, RunsInv
  <2> QED
    BY <2>1, PlanIsOfPairs DEF RunNext
<1>2. run \in EndedReplays /\ (run.outcome = "success" => ~ Unplayable(ContentOf(case)))
  BY ReplayIsAReplay
<1>3. runs' = Append(runs, assessed) /\ attempts' = attempts + Claimed(ContentOf(case), b)
  BY DEF RunNext
<1> HIDE DEF run
<1>4. Passed(run, ExpectationOf(case)) \in BOOLEAN
  BY DEF Passed
<1>5. /\ assessed \in EndedReplays /\ assessed.outcome = run.outcome
      /\ assessed.passed = Passed(run, ExpectationOf(case))
      /\ assessed.consumed = run.consumed /\ assessed.findings = run.findings
  BY <1>2, <1>4 DEF EndedReplays
<1> HIDE DEF assessed
<1>6. assessed.passed <=> Passed(assessed, ExpectationOf(case))
  BY <1>5 DEF Passed, Shown
<1>7. BoundInv' /\ AttemptsInv' /\ ReportInv'
  <2>1. BoundInv'
    BY DEF ComparisonInv, BoundInv, RunNext
  <2>2. AttemptsInv'
    BY <1>3, ClaimsStayInBudget DEF ComparisonInv, AttemptsInv
  <2>3. ReportInv'
    BY DEF ComparisonInv, ReportInv, RunNext
  <2> QED
    BY <2>1, <2>2, <2>3
<1>8. RunsInv'
  <2>1. /\ runs' \in Seq(EndedReplays) /\ Len(runs') = n /\ DOMAIN runs' = 1 .. n /\ runs'[n] = assessed
        /\ \A i \in 1 .. n : i = n \/ (i \in DOMAIN runs /\ runs'[i] = runs[i])
    BY <1>1, <1>3, <1>5
  <2>2. n <= 4 * Repeats
    BY <1>1
  <2>3. pc' = "replay"
    BY DEF RunNext
  <2>4. \A c : ContentOf(c)' = ContentOf(c) /\ ExpectationOf(c)' = ExpectationOf(c)
    BY DEF RunNext, ContentOf, ExpectationOf
  <2>5. ASSUME NEW i \in 1 .. n
        PROVE  /\ runs'[i].outcome = "success" => ~ Unplayable(ContentOf(Plan[i].case))
               /\ runs'[i].passed <=> Passed(runs'[i], ExpectationOf(Plan[i].case))
    <3>1. CASE i = n
      BY <1>2, <1>5, <1>6, <2>1, <3>1
    <3>2. CASE i # n
      BY <2>1, <3>2 DEF ComparisonInv, RunsInv
    <3> QED
      BY <3>1, <3>2
  <2> QED
    BY <2>1, <2>2, <2>3, <2>4, <2>5 DEF RunsInv
<1> QED
  BY <1>7, <1>8 DEF ComparisonInv

LEMMA ReportsKeeps ==
  ASSUME ComparisonInv, Reports
  PROVE  ComparisonInv'
<1>1. BoundInv' /\ AttemptsInv'
  BY DEF ComparisonInv, BoundInv, AttemptsInv, Reports
<1>2. RunsInv'
  BY DEF ComparisonInv, RunsInv, Reports, ContentOf, ExpectationOf
<1>3. ReportInv'
  <2>1. Len(runs) = 4 * Repeats
    BY PlanIsOfPairs DEF Reports
  <2>2. report'.improved <=> Fair /\ Passes("target", "candidate") > Passes("target", "baseline")
    BY DEF Reports
  <2>3. pc' = "done" /\ runs' = runs
    BY DEF Reports
  <2> QED
    BY <2>1, <2>2, <2>3 DEF ReportInv, Fair, Passes, Of
<1> QED
  BY <1>1, <1>2, <1>3 DEF ComparisonInv

\* Before the replays nothing of them is there, and what goes on is of no consequence.
LEMMA BeforeReplaysKeeps ==
  ASSUME ComparisonInv, pc \in {"idle", "cases"}, pc' \notin {"replay", "done"} \/ expectation'.content = held',
         pc' # "done", UNCHANGED <<attempts, runs, report>>
  PROVE  ComparisonInv'
<1>1. BoundInv' /\ AttemptsInv'
  BY DEF ComparisonInv, BoundInv, AttemptsInv
<1>2. RunsInv'
  BY DEF ComparisonInv, RunsInv
<1>3. ReportInv'
  BY DEF ComparisonInv, ReportInv
<1> QED
  BY <1>1, <1>2, <1>3 DEF ComparisonInv

LEMMA ComparisonNextKeeps ==
  ASSUME ComparisonInv, [CompareNext]_comparisonVars
  PROVE  ComparisonInv'
<1>1. CASE Session
  BY <1>1, BeforeReplaysKeeps DEF Session, compareVars
<1>2. CASE \E g \in DOMAIN cases : LoadCases(g) \/ \E withhold \in BOOLEAN : Review(g, withhold)
  BY <1>2, BeforeReplaysKeeps DEF LoadCases, Review
<1>3. CASE LoadExpectations
  BY <1>3, BeforeReplaysKeeps DEF LoadExpectations, Bound
<1>4. CASE \E b \in Behaviours : RunNext(b)
  BY <1>4, RunNextKeeps
<1>5. CASE Reports
  BY <1>5, ReportsKeeps
<1>6. CASE UNCHANGED comparisonVars
  <2>1. UNCHANGED <<expectation, pc, held, attempts, runs, report>>
    BY <1>6 DEF comparisonVars, compareVars
  <2> QED
    BY <2>1 DEF ComparisonInv, BoundInv, AttemptsInv, RunsInv, ReportInv, ContentOf, ExpectationOf,
       Fair, Passes, Of
<1> QED
  BY <1>1, <1>2, <1>3, <1>4, <1>5, <1>6 DEF CompareNext

LEMMA ComparisonBegins ==
  ASSUME CompareInit
  PROVE  ComparisonInv
<1>1. runs = <<>> /\ pc = "idle" /\ attempts = 0 /\ report.improved = FALSE
  BY DEF CompareInit, Nowhere
<1>2. AttemptsInv
  BY <1>1, ComparisonAssumption DEF AttemptsInv, ComparisonAssumption
<1>3. BoundInv /\ ReportInv
  BY <1>1 DEF BoundInv, ReportInv
<1>4. RunsInv
  BY <1>1, PlanIsOfPairs DEF RunsInv
<1> QED
  BY <1>2, <1>3, <1>4 DEF ComparisonInv

\* If the candidate passes the target more often there is a pair in which it alone passed.
LEMMA SomePairImproves ==
  ASSUME RunsInv, Len(runs) = 4 * Repeats, Passes("target", "candidate") > Passes("target", "baseline")
  PROVE  \E k \in 1 .. Repeats : runs[2 * k].passed /\ ~ runs[2 * k - 1].passed
<1> DEFINE Pass(variant) == {i \in Of("target", variant) : runs[i].passed}
<1>1. DOMAIN runs = 1 .. 4 * Repeats
  BY DEF RunsInv
<1>2. /\ Pass("baseline") = {i \in 1 .. 2 * Repeats : i % 2 = 1 /\ runs[i].passed}
      /\ Pass("candidate") = {i \in 1 .. 2 * Repeats : i % 2 # 1 /\ runs[i].passed}
  <2>1. \A i \in 1 .. 4 * Repeats :
          /\ Plan[i].case = "target" <=> i <= 2 * Repeats
          /\ Plan[i].variant = "baseline" <=> i % 2 = 1
          /\ Plan[i].variant = "candidate" <=> i % 2 # 1
    BY PlanIsOfPairs
  <2> QED
    BY <1>1, <2>1, PlanIsOfPairs DEF Of
<1> HIDE DEF Pass
<1>3. IsFiniteSet(Pass("baseline")) /\ IsFiniteSet(Pass("candidate"))
  <2>1. IsFiniteSet(1 .. 2 * Repeats)
    BY PlanIsOfPairs, FS_Interval
  <2>2. Pass("baseline") \subseteq 1 .. 2 * Repeats /\ Pass("candidate") \subseteq 1 .. 2 * Repeats
    BY <1>2
  <2> QED
    BY <2>1, <2>2, FS_Subset
<1>4. SUFFICES ASSUME \A k \in 1 .. Repeats : runs[2 * k].passed => runs[2 * k - 1].passed
               PROVE  FALSE
  OBVIOUS
<1> DEFINE before == [i \in Pass("candidate") |-> i - 1]
<1>5. \A i \in Pass("candidate") : i - 1 \in Pass("baseline")
  <2>1. SUFFICES ASSUME NEW i \in 1 .. 2 * Repeats, i % 2 # 1, runs[i].passed
                 PROVE  i - 1 \in 1 .. 2 * Repeats /\ (i - 1) % 2 = 1 /\ runs[i - 1].passed
    BY <1>2
  <2>2. PICK k \in 1 .. Repeats : i = 2 * k
    <3>1. i = 2 * (i \div 2) /\ i \div 2 \in 1 .. Repeats
      BY <2>1, PlanIsOfPairs
    <3> QED
      BY <3>1
  <2>3. i - 1 = 2 * k - 1 /\ (i - 1) % 2 = 1 /\ i - 1 \in 1 .. 2 * Repeats
    BY <2>2, PlanIsOfPairs
  <2> QED
    BY <1>4, <2>1, <2>2, <2>3
<1>6. before \in Injection(Pass("candidate"), Pass("baseline"))
  <2>1. before \in [Pass("candidate") -> Pass("baseline")]
    BY <1>5
  <2>2. \A i, j \in Pass("candidate") : before[i] = before[j] => i = j
    BY <1>2
  <2> QED
    BY <2>1, <2>2 DEF Injection, IsInjective
<1>7. Cardinality(Pass("candidate")) <= Cardinality(Pass("baseline"))
  BY <1>3, <1>6, FS_Injection
<1>8. Cardinality(Pass("candidate")) \in Nat /\ Cardinality(Pass("baseline")) \in Nat
  BY <1>3, FS_CardinalityType
<1>9. Passes("target", "candidate") = Cardinality(Pass("candidate"))
      /\ Passes("target", "baseline") = Cardinality(Pass("baseline"))
  BY DEF Passes, Pass
<1> QED
  BY <1>7, <1>8, <1>9

LEMMA ComparisonEarns ==
  ASSUME ComparisonInv
  PROVE  ImprovementsAreEarned
<1>1. SUFFICES ASSUME report.improved
               PROVE  /\ held = expectation.content /\ held.replayable /\ attempts <= MaxAttempts
                      /\ \A i \in 1 .. 4 * Repeats :
                           /\ runs[i].outcome = "success"
                           /\ runs[i].passed => \A c \in runs[i].findings :
                                \E t \in ToSet(ContentOf(Plan[i].case).traces) :
                                  c \in t.shows /\ t.call \in runs[i].consumed
                      /\ \E k \in 1 .. Repeats :
                           LET i == 2 * k - 1 IN
                             runs[i + 1].passed /\ ~ runs[i].passed
                             /\ \E m \in Models : runs[i].models \cup runs[i + 1].models = {m}
  BY DEF ImprovementsAreEarned
<1>2. /\ pc = "done" /\ Len(runs) = 4 * Repeats /\ DOMAIN runs = 1 .. 4 * Repeats
      /\ Fair /\ Passes("target", "candidate") > Passes("target", "baseline")
      /\ held = expectation.content
  BY <1>1 DEF ComparisonInv, ReportInv, BoundInv, RunsInv
<1>3. \A i \in 1 .. 4 * Repeats : runs[i].outcome = "success"
  BY <1>2 DEF Fair
<1>4. held.replayable
  <2>1. 1 \in 1 .. 4 * Repeats /\ Plan[1].case = "target"
    BY PlanIsOfPairs
  <2> QED
    BY <1>2, <1>3, <2>1 DEF ComparisonInv, RunsInv, Unplayable, ContentOf
<1>5. attempts <= MaxAttempts
  BY ComparisonAssumption DEF ComparisonInv, AttemptsInv, ComparisonAssumption
<1>6. ASSUME NEW i \in 1 .. 4 * Repeats, runs[i].passed, NEW c \in runs[i].findings
      PROVE  \E t \in ToSet(ContentOf(Plan[i].case).traces) : c \in t.shows /\ t.call \in runs[i].consumed
  <2>1. ExpectationOf(Plan[i].case).content = ContentOf(Plan[i].case)
    BY <1>2 DEF ExpectationOf, ContentOf, GuardExpectation
  <2>2. c \in Shown(ContentOf(Plan[i].case), runs[i])
    BY <1>2, <1>6, <2>1 DEF ComparisonInv, RunsInv, Passed
  <2> QED
    BY <2>2 DEF Shown
<1>7. PICK k \in 1 .. Repeats : runs[2 * k].passed /\ ~ runs[2 * k - 1].passed
  BY <1>2, SomePairImproves DEF ComparisonInv
<1>8. \E m \in Models : runs[2 * k - 1].models \cup runs[2 * k].models = {m}
  <2>1. 2 * k - 1 \in 1 .. 4 * Repeats /\ (2 * k - 1) % 2 = 1 /\ (2 * k - 1) + 1 = 2 * k
    BY PlanIsOfPairs
  <2> QED
    BY <1>2, <2>1 DEF Fair
<1>9. (2 * k - 1) + 1 = 2 * k
  OBVIOUS
<1> QED
  BY <1>2, <1>3, <1>4, <1>5, <1>6, <1>7, <1>8, <1>9

\* No improvement is reported that is not earned, with any number of repeats, any models
\* and any session whose case the comparison may have been given.
THEOREM ReportedImprovementsAreEarned == CompareSpec => []ImprovementsAreEarned
<1>1. CompareInit => ComparisonInv
  BY ComparisonBegins
<1>2. ComparisonInv /\ [CompareNext]_comparisonVars => ComparisonInv'
  BY ComparisonNextKeeps
<1>3. ComparisonInv => ImprovementsAreEarned
  BY ComparisonEarns
<1> QED
  BY <1>1, <1>2, <1>3, PTL DEF CompareSpec
=============================================================================
