---------------------------- MODULE SessionProofs ----------------------------
(***************************************************************************)
(* Proofs about Session, for every value of its constants: the inductive   *)
(* invariant IInv and the safety properties that follow from it, the       *)
(* finality of COMPLETED tasks, and that a session implements              *)
(* TaskLifecycle.                                                          *)
(***************************************************************************)
EXTENDS Session, FiniteSetTheorems, TLAPS

-----------------------------------------------------------------------------
(* What the three kinds of board mutation do to the board.                 *)

LEMMA TransitionFacts ==
  ASSUME TypeOK, NEW t \in DOMAIN board, NEW new, Transition(t, new)
  PROVE  /\ board' \in Seq(Task)
         /\ Len(board') = Len(board) /\ DOMAIN board' = DOMAIN board
         /\ \A u \in DOMAIN board : /\ board'[u].kind = board[u].kind
                                    /\ board'[u].allowed = board[u].allowed
                                    /\ board'[u].status = IF u = t THEN new ELSE board[u].status
         /\ \A u \in DOMAIN board : u # t => board'[u] = board[u]
         /\ <<board[t].status, new>> \in AllowedTransitions
<1>1. new \in Status
  BY DEF Transition, AllowedTransitions, Status
<1>2. board' = [board EXCEPT ![t].status = new] /\ board[t] \in Task
  BY DEF Transition, TypeOK
<1>3. [board[t] EXCEPT !.status = new] \in Task
  BY <1>1, <1>2 DEF Task
<1> QED
  BY <1>1, <1>2, <1>3 DEF Task, Transition, TypeOK

LEMMA AddFacts ==
  ASSUME TypeOK, NEW kind \in Kind, NEW allowed \in BOOLEAN,
         AddTask(kind, allowed)
  PROVE  /\ board' \in Seq(Task)
         /\ Len(board') = Len(board) + 1
         /\ DOMAIN board' = DOMAIN board \cup {Len(board) + 1}
         /\ DOMAIN board \subseteq DOMAIN board'
         /\ \A u \in DOMAIN board : board'[u] = board[u]
         /\ \A u \in DOMAIN board' \ DOMAIN board :
              board'[u] = [kind |-> kind, allowed |-> allowed, status |-> "PENDING"]
         /\ \A S : "PENDING" \notin S => Having(S)' = Having(S)
<1>1. [kind |-> kind, allowed |-> allowed, status |-> "PENDING"] \in Task
  BY DEF Task, Status
<1>2. /\ board' \in Seq(Task) /\ Len(board') = Len(board) + 1
      /\ DOMAIN board' = DOMAIN board \cup {Len(board) + 1}
      /\ DOMAIN board \subseteq DOMAIN board'
      /\ \A u \in DOMAIN board : board'[u] = board[u]
      /\ \A u \in DOMAIN board' \ DOMAIN board :
           board'[u] = [kind |-> kind, allowed |-> allowed, status |-> "PENDING"]
  BY <1>1 DEF AddTask, TypeOK
<1>3. ASSUME NEW S, "PENDING" \notin S PROVE Having(S)' = Having(S)
  <2>1. \A u \in DOMAIN board' \ DOMAIN board : board'[u].status = "PENDING"
    BY <1>2
  <2> QED
    BY <1>2, <1>3, <2>1 DEF Having
<1> QED
  BY <1>2, <1>3

LEMMA RequeueFacts ==
  ASSUME TypeOK, Requeue
  PROVE  /\ board' \in Seq(Task)
         /\ Len(board') = Len(board) /\ DOMAIN board' = DOMAIN board
         /\ \A u \in DOMAIN board : /\ board'[u].kind = board[u].kind
                                    /\ board'[u].allowed = board[u].allowed
                                    /\ board'[u].status = RequeuedStatus(board[u].status)
         /\ \A u \in Completed : board'[u] = board[u]
<1> DEFINE new(t) == [board[t] EXCEPT !.status = RequeuedStatus(board[t].status)]
<1>1. board' = [t \in 1 .. Len(board) |-> new(t)]
  BY DEF Requeue, TypeOK
<1>2. board \in Seq(Task) /\ \A t \in 1 .. Len(board) : board[t] \in Task
  BY DEF TypeOK
<1>3. \A t \in 1 .. Len(board) :
        /\ new(t) \in Task /\ new(t).status = RequeuedStatus(board[t].status)
        /\ new(t).kind = board[t].kind /\ new(t).allowed = board[t].allowed
        /\ board[t].status = "COMPLETED" => new(t) = board[t]
  BY <1>2 DEF Task, RequeuedStatus, Status
<1> HIDE DEF new
<1> QED
  BY <1>1, <1>2, <1>3 DEF Completed, Having

LEMMA AgentsFinite == TypeOK => IsFiniteSet(running)
<1> SUFFICES ASSUME TypeOK PROVE IsFiniteSet(running)
  OBVIOUS
<1>1. running \subseteq 1 .. Len(board) /\ Len(board) \in Nat
  BY DEF TypeOK
<1>2. IsFiniteSet(1 .. Len(board))
  BY <1>1, FS_Interval
<1> QED
  BY <1>1, <1>2, FS_Subset

\* Sub-agents that stop holding the semaphore leave room in it.
LEMMA SemaphoreFrees ==
  ASSUME TypeOK, SemaphoreHolds, pc' = "gather" => pc = "gather", running' \subseteq running
  PROVE  SemaphoreHolds'
<1>1. IsFiniteSet(running) /\ Cardinality(running') <= Cardinality(running)
  BY AgentsFinite, FS_Subset
<1>2. Cardinality(running) \in Nat /\ Cardinality(running') \in Nat /\ MaxSubAgents \in Nat
  BY <1>1, FS_CardinalityType, FS_Subset, SessionAssumption DEF SessionAssumption
<1> QED
  BY <1>1, <1>2 DEF SemaphoreHolds

-----------------------------------------------------------------------------
(* The inductive invariant.                                                *)

LEMMA Initially == Init => IInv
<1> SUFFICES ASSUME Init PROVE IInv
  OBVIOUS
<1>1. board = <<>> /\ Len(board) = 0 /\ DOMAIN board = {} /\ board \in Seq(Task)
  BY DEF Init
<1>2. resumes \in 0 .. MaxResumes /\ crashes \in 0 .. MaxCrashes
  BY SessionAssumption DEF Init, SessionAssumption
<1>3. TypeOK
  BY <1>1, <1>2 DEF Init, TypeOK, NoVerification, NoSynthesis, FileState, PC
<1> QED
  BY <1>1, <1>3 DEF IInv, Init, AgentsHoldTasks, SingleHasOneTask, PlansAreOpen,
     ActiveMeansWorking, DispatchTakesAll, SemaphoreHolds, CompletedHasReport,
     OnlyResearchProfilesRun, DeliveredIsSettled, Working, Having, Completed, Idle

\* One planned task more: what AddResearch, PlantGap and AddFollowUp share.
LEMMA PlannedKeepsIInv ==
  ASSUME IInv, NEW kind \in Kind, NEW allowed \in BOOLEAN,
         NEW here \in {"plan", "plant", "repair"}, NEW next,
         AddPlanned(kind, allowed, here, next),
         here = "plan" => next = "seed",
         here = "plant" => next = AfterSeed,
         here = "repair" => next = "reject"
  PROVE  IInv'
<1> USE DEF IInv, AddPlanned, evidenceVars, agentVars, boundVars
<1>1. /\ toAdd \in Nat /\ toAdd > 0 /\ toAdd' = toAdd - 1 /\ toAdd' \in Nat
      /\ pc' = (IF toAdd = 1 THEN next ELSE here)
      /\ toAdd # 1 => toAdd' > 0
  BY DEF TypeOK, PlansAreOpen
<1>2. pc' \in {here, "seed", "requeue", "reject"}
  BY <1>1 DEF AfterSeed
<1>3. TypeOK'
  BY <1>1, <1>2, AddFacts DEF TypeOK, PC
<1>4. AgentsHoldTasks' /\ SingleHasOneTask' /\ PlansAreOpen' /\ SemaphoreHolds'
  BY <1>1, <1>2 DEF AgentsHoldTasks, SingleHasOneTask, PlansAreOpen, SemaphoreHolds,
     Working, Idle, AfterSeed
<1>5. ActiveMeansWorking' /\ DispatchTakesAll' /\ CompletedHasReport' /\ DeliveredIsSettled'
  BY <1>1, <1>2, AddFacts DEF TypeOK, ActiveMeansWorking, DispatchTakesAll, PlansAreOpen,
     CompletedHasReport, DeliveredIsSettled, Completed, Working, AfterSeed
<1>6. OnlyResearchProfilesRun'
  BY AddFacts DEF TypeOK, OnlyResearchProfilesRun
<1> QED
  BY <1>3, <1>4, <1>5, <1>6

\* Run, RunSingle, Resume and the steps that write plans.
LEMMA StartingKeepsIInv == IInv /\ (Run \/ RunSingle \/ Resume) => IInv'
<1> SUFFICES ASSUME IInv, Run \/ RunSingle \/ Resume PROVE IInv'
  OBVIOUS
<1> USE DEF IInv, evidenceVars, flowVars, agentVars, boundVars, dirVars
<1>1. CASE Run
  <2>1. TypeOK'
    BY <1>1 DEF Run, TypeOK, PC
  <2>2. board = <<>> /\ DOMAIN board = {} /\ Idle /\ ~ requeueing
    BY <1>1 DEF Run, SingleHasOneTask, AgentsHoldTasks, PlansAreOpen
  <2> QED
    BY <1>1, <2>1, <2>2 DEF Run, AgentsHoldTasks, SingleHasOneTask, PlansAreOpen,
       ActiveMeansWorking, DispatchTakesAll, SemaphoreHolds, CompletedHasReport,
       OnlyResearchProfilesRun, DeliveredIsSettled, Working, Having, Completed, Idle
<1>2. CASE RunSingle
  <2>1. board = <<>> /\ Len(board) = 0 /\ DOMAIN board = {} /\ Idle /\ ~ requeueing
    BY <1>2 DEF RunSingle, SingleHasOneTask, AgentsHoldTasks, PlansAreOpen
  <2>2. /\ board' = <<[kind |-> "research", allowed |-> TRUE, status |-> "PENDING"]>>
        /\ Len(board') = 1
    BY <1>2, <2>1 DEF RunSingle, AddTask
  <2>3. TypeOK'
    BY <1>2, <2>1, AddFacts DEF RunSingle, TypeOK, PC, Kind
  <2> QED
    BY <1>2, <2>1, <2>2, <2>3 DEF RunSingle, AgentsHoldTasks, SingleHasOneTask, PlansAreOpen,
       ActiveMeansWorking, DispatchTakesAll, SemaphoreHolds, CompletedHasReport,
       OnlyResearchProfilesRun, DeliveredIsSettled, Working, Having, Completed, Idle
<1>3. CASE Resume
  <2>1. TypeOK'
    BY <1>3, SessionAssumption DEF SessionAssumption, Resume, TypeOK, PC
  <2>2. board = <<>> => DOMAIN board = {}
    OBVIOUS
  <2> QED
    BY <1>3, <2>1, <2>2 DEF Resume, AgentsHoldTasks, SingleHasOneTask, PlansAreOpen,
       ActiveMeansWorking, DispatchTakesAll, SemaphoreHolds, CompletedHasReport,
       OnlyResearchProfilesRun, DeliveredIsSettled, Working, Having, Completed, Idle,
       Pending, Unfinished
<1> QED
  BY <1>1, <1>2, <1>3

LEMMA PlanningKeepsIInv ==
  ASSUME IInv,
         \/ \E n \in 0 .. MaxSubAgents : Decompose(n)
         \/ \E allowed \in BOOLEAN : AddResearch(allowed)
         \/ \E n \in 0 .. MaxGapSeeds : SeedFromLedger(n)
         \/ PlantGap \/ MaybeReplan \/ FollowUp \/ AddFollowUp
  PROVE  IInv'
<1> USE DEF IInv, evidenceVars, flowVars, agentVars, boundVars, dirVars
<1>1. ASSUME NEW n \in 0 .. MaxSubAgents, Decompose(n) PROVE IInv'
  <2>1. TypeOK' /\ (n # 0 => n > 0)
    BY <1>1, SessionAssumption DEF SessionAssumption, Decompose, TypeOK, PC
  <2> QED
    BY <1>1, <2>1 DEF Decompose, AgentsHoldTasks, SingleHasOneTask, PlansAreOpen,
       ActiveMeansWorking, DispatchTakesAll, SemaphoreHolds, CompletedHasReport,
       OnlyResearchProfilesRun, DeliveredIsSettled, Working, Having, Completed, Idle
<1>2. ASSUME NEW allowed \in BOOLEAN, AddResearch(allowed) PROVE IInv'
  BY <1>2, PlannedKeepsIInv DEF AddResearch, Kind
<1>3. ASSUME NEW n \in 0 .. MaxGapSeeds, SeedFromLedger(n) PROVE IInv'
  <2>1. TypeOK' /\ (n # 0 => n > 0)
    BY <1>3, SessionAssumption DEF SessionAssumption, SeedFromLedger, AfterSeed, TypeOK, PC
  <2> QED
    BY <1>3, <2>1 DEF SeedFromLedger, AfterSeed, AgentsHoldTasks, SingleHasOneTask,
       PlansAreOpen, ActiveMeansWorking, DispatchTakesAll, SemaphoreHolds,
       CompletedHasReport, OnlyResearchProfilesRun, DeliveredIsSettled, Working, Having,
       Completed, Idle
<1>4. ASSUME PlantGap PROVE IInv'
  BY <1>4, PlannedKeepsIInv DEF PlantGap, Kind
<1>5. ASSUME MaybeReplan, ShouldReplan PROVE IInv'
  <2>1. PICK kind \in Kind, allowed \in BOOLEAN :
          AddTask(kind, allowed) /\ pc' = "reject" /\ pc = "replan"
    BY <1>5 DEF MaybeReplan, TypeOK, Kind
  <2>2. /\ board' \in Seq(Task) /\ DOMAIN board \subseteq DOMAIN board'
        /\ \A S : "PENDING" \notin S => Having(S)' = Having(S)
        /\ \A u \in DOMAIN board : board'[u] = board[u]
        /\ \A u \in DOMAIN board' \ DOMAIN board : board'[u].status = "PENDING"
    BY <2>1, AddFacts DEF TypeOK
  <2>5. TypeOK'
    BY <1>5, <2>1, <2>2 DEF MaybeReplan, TypeOK, PC
  <2>3. OnlyResearchProfilesRun'
    BY <2>2 DEF OnlyResearchProfilesRun
  <2>4. ActiveMeansWorking' /\ CompletedHasReport'
    BY <1>5, <2>1, <2>2 DEF MaybeReplan, ActiveMeansWorking, CompletedHasReport, Completed,
       Working
  <2> QED
    BY <1>5, <2>1, <2>3, <2>4, <2>5 DEF MaybeReplan, AgentsHoldTasks, SingleHasOneTask,
       PlansAreOpen, DispatchTakesAll, SemaphoreHolds, DeliveredIsSettled, Working, Idle
<1>6. ASSUME MaybeReplan, ~ ShouldReplan PROVE IInv'
  <2>1. TypeOK'
    BY <1>6 DEF MaybeReplan, TypeOK, PC
  <2> QED
    BY <1>6, <2>1 DEF MaybeReplan, AgentsHoldTasks, SingleHasOneTask, PlansAreOpen,
       ActiveMeansWorking, DispatchTakesAll, SemaphoreHolds, CompletedHasReport,
       OnlyResearchProfilesRun, DeliveredIsSettled, Working, Having, Completed, Pending, Idle
<1>7. ASSUME FollowUp PROVE IInv'
  <2>1. FollowUpTasks \in Nat
    <3>1. IsFiniteSet(verification.flagged)
      <4>1. verification.flagged \subseteq 1 .. Len(board) /\ Len(board) \in Nat
        BY DEF TypeOK
      <4>2. IsFiniteSet(1 .. Len(board))
        BY <4>1, FS_Interval
      <4> QED
        BY <4>1, <4>2, FS_Subset
    <3>2. Cardinality(verification.flagged) \in Nat
      BY <3>1, FS_CardinalityType
    <3> QED
      BY <3>2, SessionAssumption DEF SessionAssumption, FollowUpTasks, Least
  <2>2. TypeOK'
    BY <1>7, <2>1 DEF FollowUp, TypeOK, PC
  <2> QED
    BY <1>7, <2>2 DEF FollowUp, AgentsHoldTasks, SingleHasOneTask, PlansAreOpen,
       ActiveMeansWorking, DispatchTakesAll, SemaphoreHolds, CompletedHasReport,
       OnlyResearchProfilesRun, DeliveredIsSettled, Working, Having, Completed, Pending, Idle
<1>8. ASSUME AddFollowUp PROVE IInv'
  BY <1>8, PlannedKeepsIInv DEF AddFollowUp, Kind
<1> QED
  BY <1>1, <1>2, <1>3, <1>4, <1>5, <1>6, <1>7, <1>8

LEMMA DispatchKeepsIInv ==
  ASSUME IInv,
         \/ Requeue \/ Dispatch \/ DispatchDone
         \/ \E t \in DOMAIN board : RejectProfile(t) \/ Activate(t) \/ Book(t)
  PROVE  IInv'
<1> USE DEF IInv, evidenceVars, flowVars, agentVars, boundVars, dirVars, procVars
<1>1. ASSUME Requeue PROVE IInv'
  <2>1. /\ pc = "requeue" /\ pc' = "reject"
        /\ UNCHANGED <<file, evidenceVars, verification, synthesis, flowVars, agentVars, boundVars>>
    BY <1>1 DEF Requeue
  <2>2. Idle /\ Idle'
    BY <2>1 DEF AgentsHoldTasks, Idle
  <2>3. TypeOK'
    BY <1>1, <2>1, RequeueFacts DEF TypeOK, PC
  <2>4. Having({"ACTIVE"})' = {} /\ Completed' = Completed
    BY <1>1, RequeueFacts DEF TypeOK, Having, Completed, RequeuedStatus
  <2>5. OnlyResearchProfilesRun'
    BY <1>1, RequeueFacts DEF TypeOK, OnlyResearchProfilesRun, RequeuedStatus
  <2> QED
    BY <2>1, <2>2, <2>3, <2>4, <2>5 DEF AgentsHoldTasks, SingleHasOneTask, PlansAreOpen,
       ActiveMeansWorking, DispatchTakesAll, SemaphoreHolds, CompletedHasReport,
       DeliveredIsSettled, Working, Idle
<1>2. ASSUME Dispatch PROVE IInv'
  <2>1. TypeOK'
    BY <1>2 DEF Dispatch, AfterDispatch, TypeOK, PC, Pending, Having
  <2>2. running = {} /\ running' = {} /\ pc' \in {"replan", "reload", "verify", "gather"}
    BY <1>2 DEF Dispatch, AfterDispatch, AgentsHoldTasks, Idle, TypeOK
  <2>3. SemaphoreHolds'
    BY <2>2, FS_EmptySet, SessionAssumption DEF SemaphoreHolds, SessionAssumption
  <2> QED
    BY <1>2, <2>1, <2>2, <2>3 DEF Dispatch, AgentsHoldTasks, SingleHasOneTask, PlansAreOpen,
       ActiveMeansWorking, DispatchTakesAll, CompletedHasReport, OnlyResearchProfilesRun,
       DeliveredIsSettled, Working, Having, Completed, Pending, Rejected, Idle
<1>3. ASSUME DispatchDone PROVE IInv'
  <2>1. TypeOK' /\ pc' \in {"replan", "reload", "verify"}
    BY <1>3 DEF DispatchDone, AfterDispatch, TypeOK, PC
  <2> QED
    BY <1>3, <2>1 DEF DispatchDone, SemaphoreHolds, AgentsHoldTasks, SingleHasOneTask, PlansAreOpen,
       ActiveMeansWorking, DispatchTakesAll, CompletedHasReport, OnlyResearchProfilesRun,
       DeliveredIsSettled, Working, Having, Completed, Pending, Rejected, Idle
<1>4. ASSUME NEW t \in DOMAIN board, RejectProfile(t) PROVE IInv'
  <2>1. TypeOK'
    BY <1>4, TransitionFacts DEF RejectProfile, TypeOK, PC
  <2>2. t \in Pending
    BY <1>4 DEF RejectProfile, IsFirst, Rejected
  <2>3. /\ DOMAIN board' = DOMAIN board /\ Len(board') = Len(board)
        /\ \A u \in DOMAIN board : /\ board'[u].allowed = board[u].allowed
                                   /\ board'[u].status = IF u = t THEN "CANCELLED" ELSE board[u].status
    BY <1>4, TransitionFacts DEF RejectProfile
  <2>4. /\ pc = "reject" /\ pc' = "reject" /\ Idle /\ Idle' /\ UNCHANGED <<reports, toAdd, requeueing>>
    BY <1>4 DEF RejectProfile, AgentsHoldTasks, Idle
  <2>5. Having({"ACTIVE"})' = Having({"ACTIVE"}) /\ Completed' = Completed
    BY <2>2, <2>3 DEF Having, Pending, Completed
  <2>6. OnlyResearchProfilesRun'
    BY <2>2, <2>3 DEF OnlyResearchProfilesRun
  <2> QED
    BY <2>1, <2>4, <2>5, <2>6 DEF AgentsHoldTasks, SingleHasOneTask, PlansAreOpen,
       ActiveMeansWorking, DispatchTakesAll, SemaphoreHolds, CompletedHasReport,
       DeliveredIsSettled, Working, Idle
<1>5. ASSUME NEW t \in DOMAIN board, Activate(t) PROVE IInv'
  <2>1. TypeOK'
    BY <1>5, TransitionFacts DEF Activate, TypeOK, PC
  <2>2. SemaphoreHolds'
    <3>1. /\ IsFiniteSet(running) /\ running' = running \cup {t}
          /\ Cardinality(running) < MaxSubAgents /\ MaxSubAgents \in Nat
      BY <1>5, AgentsFinite, SessionAssumption DEF SessionAssumption, Activate
    <3>2. Cardinality(running) \in Nat
      BY <3>1, FS_CardinalityType
    <3>3. Cardinality(running') = Cardinality(running) \/ Cardinality(running') = Cardinality(running) + 1
      BY <3>1, FS_AddElement
    <3> QED
      BY <3>1, <3>2, <3>3 DEF SemaphoreHolds
  <2>3. t \in queued /\ t \in Pending /\ board[t].allowed
    BY <1>5 DEF Activate, IsFirst, DispatchTakesAll, Rejected, TypeOK, Task
  <2>4. /\ DOMAIN board' = DOMAIN board /\ Len(board') = Len(board)
        /\ \A u \in DOMAIN board : /\ board'[u].allowed = board[u].allowed
                                   /\ board'[u].status = IF u = t THEN "ACTIVE" ELSE board[u].status
    BY <1>5, TransitionFacts DEF Activate
  <2>5. /\ pc = "gather" /\ pc' = "gather" /\ queued' = queued \ {t} /\ running' = running \cup {t}
        /\ UNCHANGED <<reports, returned, raised, toAdd, requeueing>>
    BY <1>5 DEF Activate
  <2>6. /\ Having({"ACTIVE"})' = Having({"ACTIVE"}) \cup {t} /\ Pending' = Pending \ {t}
        /\ Completed' = Completed /\ Rejected' = Rejected
    BY <2>3, <2>4 DEF Having, Pending, Completed, Rejected
  <2>7. OnlyResearchProfilesRun'
    BY <2>3, <2>4 DEF OnlyResearchProfilesRun
  <2> QED
    BY <2>1, <2>2, <2>3, <2>5, <2>6, <2>7 DEF AgentsHoldTasks, SingleHasOneTask, PlansAreOpen,
       ActiveMeansWorking, DispatchTakesAll, CompletedHasReport, DeliveredIsSettled, Working,
       Idle
<1>6. ASSUME NEW t \in DOMAIN board, Book(t) PROVE IInv'
  <2>1. PICK new \in {"COMPLETED", "BLOCKED"} :
          Transition(t, new) /\ (new = "COMPLETED" => t \in returned)
    BY <1>6 DEF Book
  <2>2. TypeOK'
    BY <1>6, <2>1, TransitionFacts DEF Book, TypeOK, PC
  <2>3. t \in Working /\ running' = running
    BY <1>6 DEF Book, IsFirst, Working
  <2>4. /\ DOMAIN board' = DOMAIN board /\ Len(board') = Len(board)
        /\ \A u \in DOMAIN board : /\ board'[u].allowed = board[u].allowed
                                   /\ board'[u].status = IF u = t THEN new ELSE board[u].status
    BY <2>1, TransitionFacts
  <2>5. /\ pc = "gather" /\ pc' = "gather" /\ queued = {} /\ queued' = {} /\ running = {}
        /\ returned' = returned \ {t} /\ raised' = raised \ {t}
        /\ UNCHANGED <<reports, running, toAdd, requeueing>>
    BY <1>6 DEF Book
  <2>6. /\ Having({"ACTIVE"})' = Having({"ACTIVE"}) \ {t} /\ Pending' = {} /\ Rejected' = {}
        /\ Completed' \subseteq Completed \cup returned
    BY <2>1, <2>4, <2>5 DEF Having, Pending, Completed, Rejected, DispatchTakesAll
  <2>7. board[t].allowed /\ OnlyResearchProfilesRun'
    <3>1. board[t].status = "ACTIVE"
      BY <2>3, <2>5 DEF ActiveMeansWorking, Having
    <3> QED
      BY <2>4, <3>1 DEF OnlyResearchProfilesRun
  <2> QED
    BY <2>2, <2>3, <2>5, <2>6, <2>7 DEF AgentsHoldTasks, SingleHasOneTask, PlansAreOpen,
       ActiveMeansWorking, DispatchTakesAll, SemaphoreHolds, CompletedHasReport,
       DeliveredIsSettled, Working, Idle
<1> QED
  BY <1>1, <1>2, <1>3, <1>4, <1>5, <1>6

LEMMA AgentsKeepIInv ==
  ASSUME IInv, NEW t \in running, AgentStep(t)
  PROVE  IInv'
<1> USE DEF IInv, flowVars, boundVars, AppendTraces
<1>1. running' \subseteq running /\ pc' = pc
  BY DEF AgentStep, AgentReturns, AgentRaises
<1>2. SemaphoreHolds'
  BY <1>1, SemaphoreFrees
<1>3. ASSUME NEW findings \in BOOLEAN, NEW mock \in BOOLEAN, AgentReturns(t, findings, mock)
      PROVE  IInv'
  <2>1. TypeOK'
    BY <1>3 DEF AgentReturns, TypeOK
  <2> QED
    BY <1>2, <1>3, <2>1 DEF AgentReturns, TypeOK, AgentsHoldTasks, SingleHasOneTask, PlansAreOpen,
       ActiveMeansWorking, DispatchTakesAll, CompletedHasReport, OnlyResearchProfilesRun,
       DeliveredIsSettled, Working, Having, Completed, Pending, Rejected, Idle
<1>4. ASSUME NEW mock \in BOOLEAN, AgentRaises(t, mock) PROVE IInv'
  <2>1. TypeOK'
    BY <1>4 DEF AgentRaises, TypeOK
  <2> QED
    BY <1>2, <1>4, <2>1 DEF AgentRaises, TypeOK, AgentsHoldTasks, SingleHasOneTask, PlansAreOpen,
       ActiveMeansWorking, DispatchTakesAll, CompletedHasReport, OnlyResearchProfilesRun,
       DeliveredIsSettled, Working, Having, Completed, Pending, Rejected, Idle
<1> QED
  BY <1>3, <1>4 DEF AgentStep

LEMMA AnsweringKeepsIInv ==
  ASSUME IInv,
         \/ Reload \/ ReturnSaved \/ Synthesize \/ Deliver \/ Raise
         \/ \E flagged \in SUBSET evident, mock \in BOOLEAN : Verify(flagged, mock)
  PROVE  IInv'
<1> USE DEF IInv, evidenceVars, flowVars, agentVars, boundVars, dirVars, procVars,
            AppendTraces, Verdicts, End
<1>1. TypeOK' /\ board' = board /\ reports' = reports
  <2>1. CASE Reload
    BY <2>1 DEF Reload, TypeOK, PC
  <2>2. CASE ReturnSaved
    BY <2>2 DEF ReturnSaved, TypeOK, PC
  <2>3. CASE Synthesize
    BY <2>3 DEF Synthesize, TypeOK, PC
  <2>4. CASE Deliver
    <3>1. [md |-> TRUE, json |-> "saved", over |-> Completed \cap reports]
            \in [md : BOOLEAN, json : FileState, over : SUBSET DOMAIN board]
      BY DEF FileState, Completed, Having
    <3> QED
      BY <2>4, <3>1 DEF Deliver, TypeOK, PC
  <2>5. CASE Raise
    BY <2>5 DEF Raise, TypeOK, PC
  <2>6. ASSUME NEW flagged \in SUBSET evident, NEW mock \in BOOLEAN, Verify(flagged, mock)
        PROVE  TypeOK' /\ board' = board /\ reports' = reports
    BY <2>6 DEF Verify, TypeOK, PC, FileState, Completed, Having
  <2> QED
    BY <2>1, <2>2, <2>3, <2>4, <2>5, <2>6
<1>2. ASSUME Reload \/ Synthesize \/ \E flagged \in SUBSET evident, mock \in BOOLEAN : Verify(flagged, mock)
      PROVE  IInv'
  BY <1>1, <1>2 DEF Reload, Synthesize, Verify, SemaphoreHolds, AgentsHoldTasks, SingleHasOneTask, PlansAreOpen,
       ActiveMeansWorking, DispatchTakesAll, CompletedHasReport, OnlyResearchProfilesRun,
       DeliveredIsSettled, Working, Having, Completed, Pending, Rejected, Idle
<1>3. ASSUME ReturnSaved \/ Deliver \/ Raise PROVE IInv'
  BY <1>1, <1>3 DEF ReturnSaved, Deliver, Raise, SemaphoreHolds, AgentsHoldTasks, SingleHasOneTask, PlansAreOpen,
       ActiveMeansWorking, DispatchTakesAll, CompletedHasReport, OnlyResearchProfilesRun,
       DeliveredIsSettled, Working, Having, Completed, Pending, Rejected, Idle
<1> QED
  BY <1>2, <1>3

\* run_single: its board holds task 1 only.
LEMMA SingleKeepsIInv ==
  ASSUME IInv,
         \/ SingleActivate \/ SingleComplete \/ SingleFails
         \/ \E flagged \in SUBSET evident, mock \in BOOLEAN : SingleVerify(flagged, mock)
  PROVE  IInv'
<1> USE DEF IInv, evidenceVars, flowVars, agentVars, boundVars
<1>1. /\ Len(board) = 1 /\ DOMAIN board = {1} /\ board \in Seq(Task)
      /\ pc \in {"single_start", "single_run", "single_answer"} /\ queued = {}
  <2>1. pc \in {"single_start", "single_run", "single_answer"}
    BY DEF SingleActivate, SingleComplete, SingleFails, SingleVerify
  <2> QED
    BY <2>1 DEF SingleHasOneTask, TypeOK, AgentsHoldTasks
<1>2. ASSUME NEW new \in {"ACTIVE", "COMPLETED", "BLOCKED"}, Transition(1, new)
      PROVE  /\ Len(board') = 1 /\ DOMAIN board' = {1}
             /\ board'[1].status = new /\ board'[1].allowed = board[1].allowed
  BY <1>1, <1>2, TransitionFacts
<1>3. SemaphoreHolds'
  BY DEF SingleActivate, SingleComplete, SingleFails, SingleVerify, SemaphoreHolds, End
<1>4. ASSUME SingleActivate PROVE IInv'
  <2>1. Transition(1, "ACTIVE") /\ Idle /\ board[1].status \in {"PENDING", "BLOCKED"}
    BY <1>4 DEF SingleActivate, AgentsHoldTasks, Transition, AllowedTransitions
  <2>2. board[1].allowed
    BY <1>1 DEF SingleHasOneTask
  <2>3. TypeOK'
    BY <1>1, <1>2, <1>4, <2>1, TransitionFacts DEF SingleActivate, TypeOK, PC
  <2> QED
    BY <1>1, <1>2, <1>3, <1>4, <2>1, <2>2, <2>3 DEF SingleActivate, AgentsHoldTasks,
       SingleHasOneTask, PlansAreOpen, ActiveMeansWorking, DispatchTakesAll,
       CompletedHasReport, OnlyResearchProfilesRun, DeliveredIsSettled, Working, Having,
       Completed, Idle
<1>5. ASSUME NEW flagged \in SUBSET evident, NEW mock \in BOOLEAN, SingleVerify(flagged, mock)
      PROVE  IInv'
  <2>1. TypeOK'
    BY <1>5 DEF SingleVerify, Verdicts, AppendTraces, TypeOK, PC, FileState
  <2> QED
    BY <1>1, <1>3, <1>5, <2>1 DEF SingleVerify, AgentsHoldTasks, SingleHasOneTask,
       PlansAreOpen, ActiveMeansWorking, DispatchTakesAll, CompletedHasReport,
       OnlyResearchProfilesRun, DeliveredIsSettled, Working, Having, Completed, Idle
<1>6. ASSUME SingleComplete \/ SingleFails PROVE IInv'
  <2>1. PICK new \in {"COMPLETED", "BLOCKED"} :
          Transition(1, new) /\ (new = "COMPLETED" => 1 \in reports)
    BY <1>6 DEF SingleComplete, SingleFails, SingleHasOneTask, AgentsHoldTasks
  <2>2. /\ pc' \in {"down", "delivered"} /\ Idle' /\ ~ requeueing' /\ UNCHANGED reports
        /\ 1 \in Working
    BY <1>6 DEF SingleComplete, SingleFails, End, Idle, SingleHasOneTask, Working
  <2>3. board[1].allowed
    BY <1>1 DEF SingleHasOneTask
  <2>4. TypeOK'
    <3>1. board' \in Seq(Task) /\ DOMAIN board' = DOMAIN board
      BY <1>1, <2>1, TransitionFacts
    <3>2. UNCHANGED <<file, reports, evident, traces, verification, synthesis, resumes, crashes>>
      BY <1>6 DEF SingleComplete, SingleFails
    <3>3. /\ pc' \in PC /\ wave' = "first" /\ ran' = FALSE /\ requeueing' = FALSE /\ toAdd' = 0
          /\ queued' = {} /\ running' = {} /\ returned' = {} /\ raised' = {}
      BY <1>6 DEF SingleComplete, SingleFails, End, PC
    <3> QED
      BY <3>1, <3>2, <3>3 DEF TypeOK
  <2> QED
    BY <1>1, <1>2, <1>3, <2>1, <2>2, <2>3, <2>4 DEF AgentsHoldTasks, SingleHasOneTask,
       PlansAreOpen, ActiveMeansWorking, DispatchTakesAll, CompletedHasReport,
       OnlyResearchProfilesRun, DeliveredIsSettled, Working, Having, Pending, Completed, Idle
<1> QED
  BY <1>4, <1>5, <1>6

\* A kill touches the report of a task that is being worked on, or none.
LEMMA CrashKeepsIInv ==
  ASSUME IInv, CrashStep
  PROVE  IInv'
<1> USE DEF IInv, evidenceVars
<1>1. Killed
  BY DEF CrashStep, Crash, TearBoard, TearTraces, TearVerification, TearSynthesis, TearReport
<1>2. /\ board' = board /\ pc' = "down" /\ Idle' /\ ~ requeueing'
      /\ wave' = "first" /\ ran' = FALSE /\ requeueing' = FALSE /\ toAdd' = 0
      /\ resumes' = resumes /\ crashes' = crashes + 1 /\ crashes < MaxCrashes
  BY <1>1 DEF Killed, End, Idle
<1>3. crashes' \in 0 .. MaxCrashes
  BY <1>2, SessionAssumption DEF SessionAssumption, TypeOK
<1>4. running \subseteq Having({"ACTIVE"})
  BY DEF ActiveMeansWorking, AgentsHoldTasks, Working, Idle
<1>5. Completed \subseteq reports'
  <2>1. Completed \cap running = {}
    BY <1>4 DEF Completed, Having
  <2>2. reports' = reports \/ reports' = reports \ running
        \/ (\E t \in running : reports' \in {reports, reports \cup {t}, reports \ {t}})
    BY DEF CrashStep, Crash, TearBoard, TearTraces, TearVerification, TearSynthesis, TearReport
  <2> QED
    BY <2>1, <2>2 DEF CompletedHasReport
<1>6. reports' \subseteq DOMAIN board /\ evident' \subseteq reports'
  BY DEF CrashStep, Crash, TearBoard, TearTraces, TearVerification, TearSynthesis, TearReport,
     TypeOK
<1>7. /\ file' \in {"absent", "readable", "torn"} /\ traces' \in {"clean", "mock", "torn"}
      /\ verification' \in [file : FileState, given : SUBSET DOMAIN board,
                            covered : SUBSET DOMAIN board, flagged : SUBSET DOMAIN board]
      /\ synthesis' \in [md : BOOLEAN, json : FileState, over : SUBSET DOMAIN board]
  BY DEF CrashStep, Crash, TearBoard, TearTraces, TearVerification, TearSynthesis, TearReport,
     TypeOK, NoVerification, NoSynthesis, FileState
<1>8. TypeOK'
  BY <1>2, <1>3, <1>6, <1>7 DEF TypeOK, PC, Idle
<1> QED
  BY <1>2, <1>5, <1>8 DEF AgentsHoldTasks, SingleHasOneTask, PlansAreOpen,
     ActiveMeansWorking, DispatchTakesAll, SemaphoreHolds, CompletedHasReport,
     OnlyResearchProfilesRun, DeliveredIsSettled, Working, Having, Completed, Idle

LEMMA StepKeepsIInv == IInv /\ [Next]_vars => IInv'
<1> SUFFICES ASSUME IInv, [Next]_vars PROVE IInv'
  OBVIOUS
<1>1. CASE UNCHANGED vars
  BY <1>1 DEF vars, dirVars, procVars, IInv, TypeOK, AgentsHoldTasks, SingleHasOneTask,
     PlansAreOpen, ActiveMeansWorking, DispatchTakesAll, SemaphoreHolds, CompletedHasReport,
     OnlyResearchProfilesRun, DeliveredIsSettled, Working, Having, Completed, Pending,
     Rejected, Idle
<1>2. CASE Run \/ RunSingle \/ Resume
  BY <1>2, StartingKeepsIInv
<1>3. CASE CoordinatorStep
  BY <1>3, PlanningKeepsIInv, DispatchKeepsIInv, AnsweringKeepsIInv, SingleKeepsIInv
     DEF CoordinatorStep
<1>4. CASE \E t \in running : AgentStep(t)
  BY <1>4, AgentsKeepIInv
<1>5. CASE CrashStep
  BY <1>5, CrashKeepsIInv
<1> QED
  BY <1>1, <1>2, <1>3, <1>4, <1>5 DEF Next

\* In every reachable state of every instance the inductive invariant holds.
THEOREM Invariance == Spec => []IInv
  BY Initially, StepKeepsIInv, PTL DEF Spec

\* The state stays within its types, whatever the bounds.
THEOREM TypeCorrect == Spec => []TypeOK
  BY Invariance, PTL DEF IInv

-----------------------------------------------------------------------------
(* Safety properties that follow from it.                                  *)

\* SubAgent.run persists the report before dispatch_all books the task, so a
\* COMPLETED task has an intact report, whichever write a kill cut short.
THEOREM ReportsAreKept == Spec => []CompletedHasReport
  BY Invariance, PTL DEF IInv

\* dispatch_all cancels the tasks of other profiles before it starts any agent.
THEOREM ProfilesAreChecked == Spec => []OnlyResearchProfilesRun
  BY Invariance, PTL DEF IInv

\* requeue_unfinished leaves no ACTIVE task behind, and the semaphore of
\* dispatch_all bounds the sub-agents that run.
THEOREM ActiveIsOwned == Spec => []ActiveTasksAreOwned
<1>1. IInv => ActiveTasksAreOwned
  BY DEF IInv, ActiveMeansWorking, SemaphoreHolds, ActiveTasksAreOwned, Working
<1> QED
  BY <1>1, Invariance, PTL

\* Neither run, resume nor run_single ends with an answer while work is left.
THEOREM DeliveryIsSettled == Spec => []DeliveredIsSettled
  BY Invariance, PTL DEF IInv

\* A step changes the tasks, reports and findings of no COMPLETED task.
LEMMA StepKeepsCompleted ==
  ASSUME IInv, [Next]_vars, NEW t \in Completed
  PROVE  /\ board'[t] = board[t]
         /\ t \in reports <=> t \in reports'
         /\ t \in evident <=> t \in evident'
<1> USE DEF IInv, evidenceVars, dirVars, procVars
<1>1. t \in DOMAIN board /\ board[t].status = "COMPLETED"
  BY DEF Completed, Having
<1>2. t \notin running
  BY <1>1 DEF AgentsHoldTasks, ActiveMeansWorking, Working, Having, Idle
<1>3. ASSUME UNCHANGED <<reports, evident>>, board' = board \/ Requeue
      PROVE  board'[t] = board[t] /\ (t \in reports <=> t \in reports') /\ (t \in evident <=> t \in evident')
  BY <1>3, RequeueFacts
<1>4. ASSUME UNCHANGED <<reports, evident>>,
             \E kind \in Kind, allowed \in BOOLEAN : AddTask(kind, allowed)
      PROVE  board'[t] = board[t] /\ (t \in reports <=> t \in reports') /\ (t \in evident <=> t \in evident')
  BY <1>1, <1>4, AddFacts
<1>5. ASSUME UNCHANGED <<reports, evident>>,
             \E u \in DOMAIN board, new \in Status : Transition(u, new)
      PROVE  board'[t] = board[t] /\ (t \in reports <=> t \in reports') /\ (t \in evident <=> t \in evident')
  <2>1. PICK u \in DOMAIN board, new \in Status : Transition(u, new)
    BY <1>5
  <2>2. t # u
    BY <1>1, <2>1 DEF Transition, AllowedTransitions
  <2> QED
    BY <1>1, <1>5, <2>1, <2>2, TransitionFacts
<1>6. CASE Run \/ Resume \/ UNCHANGED vars
  BY <1>3, <1>6 DEF Run, Resume, vars
<1>7. CASE RunSingle
  BY <1>4, <1>7 DEF RunSingle, Kind
<1>8. CASE CoordinatorStep
  <2>1. CASE \/ \E n \in 0 .. MaxSubAgents : Decompose(n)
             \/ \E n \in 0 .. MaxGapSeeds : SeedFromLedger(n)
             \/ Dispatch \/ DispatchDone \/ Reload \/ ReturnSaved \/ FollowUp \/ Synthesize
             \/ Deliver \/ Raise \/ Requeue
             \/ \E flagged \in SUBSET evident, mock \in BOOLEAN :
                  Verify(flagged, mock) \/ SingleVerify(flagged, mock)
    BY <1>3, <2>1 DEF Decompose, SeedFromLedger, Dispatch, DispatchDone, Reload, ReturnSaved,
       FollowUp, Synthesize, Deliver, Raise, Requeue, Verify, SingleVerify
  <2>2. CASE \/ \E allowed \in BOOLEAN : AddResearch(allowed)
             \/ PlantGap \/ AddFollowUp
    BY <1>4, <2>2 DEF AddResearch, PlantGap, AddFollowUp, AddPlanned, Kind
  <2>3. CASE MaybeReplan
    BY <1>3, <1>4, <2>3 DEF MaybeReplan, Kind
  <2>4. CASE \E u \in DOMAIN board : RejectProfile(u) \/ Activate(u) \/ Book(u)
    BY <1>5, <2>4 DEF RejectProfile, Activate, Book, Status
  <2>5. CASE SingleActivate \/ SingleComplete \/ SingleFails
    <3>1. 1 \in DOMAIN board
      BY <2>5 DEF SingleActivate, SingleComplete, SingleFails, SingleHasOneTask, TypeOK
    <3> QED
      BY <1>5, <2>5, <3>1 DEF SingleActivate, SingleComplete, SingleFails, Status
  <2> QED
    BY <1>8, <2>1, <2>2, <2>3, <2>4, <2>5 DEF CoordinatorStep
<1>9. CASE \E u \in running : AgentStep(u)
  BY <1>2, <1>9 DEF AgentStep, AgentReturns, AgentRaises
<1>10. CASE CrashStep
  BY <1>2, <1>10 DEF CrashStep, Crash, TearBoard, TearTraces, TearVerification, TearSynthesis,
     TearReport, Killed
<1> QED
  BY <1>6, <1>7, <1>8, <1>9, <1>10 DEF Next

\* COMPLETED is final: no resume runs the task again, and no later step, a kill
\* included, changes its report.
THEOREM CompletedStays == Spec => CompletedIsFinal
<1> DEFINE Keeps == \A t \in Completed : /\ board'[t] = board[t]
                                         /\ t \in reports <=> t \in reports'
                                         /\ t \in evident <=> t \in evident'
<1>1. IInv /\ [Next]_vars => Keeps
  BY StepKeepsCompleted
<1>2. CompletedIsFinal <=> [][Keeps]_vars
  BY DEF CompletedIsFinal
<1> HIDE DEF Keeps
<1> QED
  BY <1>1, <1>2, Invariance, PTL DEF Spec

-----------------------------------------------------------------------------
(* The bounds of a session, and what its answers rest on.                  *)

LEMMA KindsAreFinite ==
  ASSUME TypeOK, NEW k
  PROVE  IsFiniteSet(OfKind(k)) /\ Cardinality(OfKind(k)) \in Nat
<1>1. OfKind(k) \subseteq 1 .. Len(board) /\ Len(board) \in Nat
  BY DEF OfKind, TypeOK
<1>2. IsFiniteSet(1 .. Len(board))
  BY <1>1, FS_Interval
<1>3. IsFiniteSet(OfKind(k))
  BY <1>1, <1>2, FS_Subset
<1> QED
  BY <1>3, FS_CardinalityType

LEMMA KindsStay ==
  ASSUME DOMAIN board' = DOMAIN board, \A u \in DOMAIN board : board'[u].kind = board[u].kind
  PROVE  \A k : OfKind(k)' = OfKind(k)
  BY DEF OfKind

\* A task more is one more of its kind.
LEMMA KindIsAdded ==
  ASSUME TypeOK, NEW kind \in Kind, NEW allowed \in BOOLEAN, AddTask(kind, allowed)
  PROVE  /\ \A k \in Kind \ {kind} : OfKind(k)' = OfKind(k)
         /\ Cardinality(OfKind(kind)') = Cardinality(OfKind(kind)) + 1
<1>1. /\ Len(board) \in Nat /\ DOMAIN board = 1 .. Len(board)
      /\ DOMAIN board' = DOMAIN board \cup {Len(board) + 1}
      /\ \A u \in DOMAIN board : board'[u] = board[u]
      /\ board'[Len(board) + 1].kind = kind
  <2>1. /\ Len(board) \in Nat /\ DOMAIN board = 1 .. Len(board)
        /\ Len(board) + 1 \notin DOMAIN board
    BY DEF TypeOK
  <2>2. /\ DOMAIN board' = DOMAIN board \cup {Len(board) + 1}
        /\ \A u \in DOMAIN board : board'[u] = board[u]
        /\ \A u \in DOMAIN board' \ DOMAIN board :
             board'[u] = [kind |-> kind, allowed |-> allowed, status |-> "PENDING"]
    BY AddFacts
  <2> QED
    BY <2>1, <2>2
<1>2. OfKind(kind)' = OfKind(kind) \cup {Len(board) + 1} /\ Len(board) + 1 \notin OfKind(kind)
  BY <1>1 DEF OfKind
<1>3. \A k \in Kind \ {kind} : OfKind(k)' = OfKind(k)
  BY <1>1 DEF OfKind
<1> QED
  BY <1>2, <1>3, KindsAreFinite, FS_AddElement

BoundsInv == OrchestrationBounds /\ PlansFit

\* A step that adds no task and opens no plan.
LEMMA NothingPlanned ==
  ASSUME TypeOK, BoundsInv, DOMAIN board' = DOMAIN board,
         \A u \in DOMAIN board : board'[u].kind = board[u].kind,
         pc' \notin {"decompose", "plan", "plant", "repair"} \/ UNCHANGED <<pc, toAdd, board>>
  PROVE  BoundsInv'
  BY KindsStay DEF BoundsInv, OrchestrationBounds, PlansFit

\* AddResearch, PlantGap and AddFollowUp: a plan shrinks as the board grows.
LEMMA PlannedKeepsBounds ==
  ASSUME IInv, BoundsInv,
         \/ \E allowed \in BOOLEAN : AddResearch(allowed)
         \/ PlantGap \/ AddFollowUp
  PROVE  BoundsInv'
<1> DEFINE Bound(kind) == CASE kind = "research" -> MaxSubAgents
                            [] kind = "gap"      -> MaxGapSeeds
                            [] kind = "followup" -> Least(MaxFollowUps, MaxSubAgents)
           Place(kind) == CASE kind = "research" -> "plan"
                            [] kind = "gap"      -> "plant"
                            [] kind = "followup" -> "repair"
<1>1. PICK kind \in {"research", "gap", "followup"}, allowed \in BOOLEAN,
           next \in {"seed", "requeue", "reject"} :
        AddPlanned(kind, allowed, Place(kind), next)
  BY DEF AddResearch, PlantGap, AddFollowUp, AfterSeed
<1>2. /\ pc = Place(kind) /\ toAdd \in Nat /\ toAdd > 0 /\ toAdd' = toAdd - 1
      /\ pc' \in {Place(kind), next} /\ AddTask(kind, allowed)
  BY <1>1 DEF AddPlanned, IInv, TypeOK, PlansAreOpen
<1>3. Cardinality(OfKind(kind)) \in Nat /\ Cardinality(OfKind(kind)) + toAdd <= Bound(kind)
  BY <1>2, KindsAreFinite DEF BoundsInv, PlansFit, IInv
<1>4. Bound(kind) \in Nat
  BY SessionAssumption DEF SessionAssumption, Least
<1>5. Cardinality(OfKind(kind)') + toAdd' <= Bound(kind) /\ Cardinality(OfKind(kind)') <= Bound(kind)
  BY <1>1, <1>2, <1>3, <1>4, KindIsAdded DEF IInv, Kind
<1>6. \A k \in Kind \ {kind} : OfKind(k)' = OfKind(k)
  BY <1>1, <1>2, KindIsAdded DEF IInv, Kind
<1> QED
  BY <1>1, <1>2, <1>5, <1>6 DEF BoundsInv, OrchestrationBounds, PlansFit, Kind

LEMMA StepKeepsBounds ==
  ASSUME IInv, BoundsInv, [Next]_vars
  PROVE  BoundsInv'
<1> USE DEF IInv, evidenceVars, dirVars, procVars, flowVars, agentVars, boundVars
<1>1. ASSUME UNCHANGED board, pc' \notin {"decompose", "plan", "plant", "repair"} \/ UNCHANGED <<pc, toAdd>>
      PROVE  BoundsInv'
  BY <1>1, NothingPlanned
<1>2. ASSUME \E t \in DOMAIN board, new \in Status : Transition(t, new),
             pc' \notin {"decompose", "plan", "plant", "repair"}
      PROVE  BoundsInv'
  BY <1>2, TransitionFacts, NothingPlanned
<1>3. ASSUME NEW kind \in {"research", "replan"}, AddTask(kind, TRUE), OfKind(kind) = {},
             pc' \notin {"decompose", "plan", "plant", "repair"}
      PROVE  BoundsInv'
  <2>1. /\ Cardinality(OfKind(kind)') = 1 /\ \A k \in Kind \ {kind} : OfKind(k)' = OfKind(k)
    <3>1. Cardinality(OfKind(kind)) = 0
      BY <1>3, FS_EmptySet
    <3>2. kind \in Kind
      BY DEF Kind
    <3>3. /\ \A k \in Kind \ {kind} : OfKind(k)' = OfKind(k)
          /\ Cardinality(OfKind(kind)') = Cardinality(OfKind(kind)) + 1
      BY <1>3, <3>2, KindIsAdded
    <3> QED
      BY <3>1, <3>3
  <2>2. MaxSubAgents \in Nat /\ MaxSubAgents >= 1
    BY SessionAssumption DEF SessionAssumption
  <2> QED
    BY <1>3, <2>1, <2>2 DEF BoundsInv, OrchestrationBounds, PlansFit, Kind
<1>4. CASE Run \/ Resume
  <2>1. UNCHANGED board /\ pc' \notin {"plan", "plant", "repair"} /\ (pc' = "decompose" => board = <<>>)
    BY <1>4 DEF Run, Resume, SingleHasOneTask
  <2> QED
    BY <2>1, KindsStay DEF BoundsInv, OrchestrationBounds, PlansFit
<1>5. CASE RunSingle
  <2>1. board = <<>> /\ OfKind("research") = {}
    BY <1>5 DEF RunSingle, SingleHasOneTask, OfKind
  <2> QED
    BY <1>3, <1>5, <2>1 DEF RunSingle
<1>6. CASE CoordinatorStep
  <2>1. ASSUME NEW n \in 0 .. MaxSubAgents, Decompose(n) PROVE BoundsInv'
    <3>1. board = <<>> /\ Cardinality(OfKind("research")) = 0
      BY <2>1, FS_EmptySet DEF Decompose, BoundsInv, PlansFit, OfKind
    <3>2. toAdd' \in Nat /\ toAdd' <= MaxSubAgents /\ pc' \in {"seed", "plan"} /\ UNCHANGED board
      BY <2>1, SessionAssumption DEF SessionAssumption, Decompose
    <3> QED
      BY <3>1, <3>2, KindsStay DEF BoundsInv, OrchestrationBounds, PlansFit
  <2>2. ASSUME NEW n \in 0 .. MaxGapSeeds, SeedFromLedger(n) PROVE BoundsInv'
    <3>1. n # 0 => Cardinality(OfKind("gap")) = 0
      BY <2>2, FS_EmptySet DEF SeedFromLedger
    <3>2. /\ toAdd' = n /\ n \in Nat /\ n <= MaxGapSeeds /\ UNCHANGED board
          /\ pc' = IF n = 0 THEN AfterSeed ELSE "plant"
      BY <2>2, SessionAssumption DEF SessionAssumption, SeedFromLedger
    <3>3. pc' \notin {"decompose", "plan", "repair"} /\ (pc' = "plant" => n # 0)
      BY <3>2 DEF AfterSeed
    <3> QED
      BY <3>1, <3>2, <3>3, KindsStay DEF BoundsInv, OrchestrationBounds, PlansFit
  <2>3. ASSUME MaybeReplan PROVE BoundsInv'
    BY <1>1, <1>3, <2>3 DEF MaybeReplan, ShouldReplan
  <2>4. ASSUME FollowUp PROVE BoundsInv'
    <3>1. /\ UNCHANGED board /\ pc' \in {"repair", "synthesize"}
          /\ pc' = "repair" => toAdd' = FollowUpTasks /\ Cardinality(OfKind("followup")) = 0
      BY <2>4, FS_EmptySet DEF FollowUp
    <3>2. FollowUpTasks \in Nat /\ FollowUpTasks <= Least(MaxFollowUps, MaxSubAgents)
      <4>1. IsFiniteSet(verification.flagged)
        <5>1. verification.flagged \subseteq 1 .. Len(board) /\ Len(board) \in Nat
          BY DEF TypeOK
        <5>2. IsFiniteSet(1 .. Len(board))
          BY <5>1, FS_Interval
        <5> QED
          BY <5>1, <5>2, FS_Subset
      <4> QED
        BY <4>1, FS_CardinalityType, SessionAssumption DEF SessionAssumption, FollowUpTasks, Least
    <3> QED
      BY <3>1, <3>2, KindsStay DEF BoundsInv, OrchestrationBounds, PlansFit
  <2>5. CASE \/ \E allowed \in BOOLEAN : AddResearch(allowed)
             \/ PlantGap \/ AddFollowUp
    BY <2>5, PlannedKeepsBounds
  <2>6. CASE Requeue
    BY <2>6, RequeueFacts, NothingPlanned DEF Requeue
  <2>7. CASE \E u \in DOMAIN board : RejectProfile(u) \/ Activate(u) \/ Book(u)
    BY <1>2, <2>7 DEF RejectProfile, Activate, Book, Status
  <2>8. CASE SingleActivate \/ SingleComplete \/ SingleFails
    <3>1. 1 \in DOMAIN board
      BY <2>8 DEF SingleActivate, SingleComplete, SingleFails, SingleHasOneTask, TypeOK
    <3> QED
      BY <1>2, <2>8, <3>1 DEF SingleActivate, SingleComplete, SingleFails, Status, End
  <2>9. CASE \/ Dispatch \/ DispatchDone \/ Reload \/ ReturnSaved \/ Synthesize \/ Deliver \/ Raise
             \/ \E flagged \in SUBSET evident, mock \in BOOLEAN :
                  Verify(flagged, mock) \/ SingleVerify(flagged, mock)
    BY <1>1, <2>9 DEF TypeOK, Dispatch, DispatchDone, AfterDispatch, Reload, ReturnSaved, Synthesize,
       Deliver, Raise, Verify, SingleVerify, End
  <2> QED
    BY <1>6, <2>1, <2>2, <2>3, <2>4, <2>5, <2>6, <2>7, <2>8, <2>9 DEF CoordinatorStep
<1>7. CASE \E t \in running : AgentStep(t)
  BY <1>1, <1>7 DEF AgentStep, AgentReturns, AgentRaises
<1>8. CASE CrashStep
  BY <1>1, <1>8 DEF CrashStep, Crash, TearBoard, TearTraces, TearVerification, TearSynthesis,
     TearReport, Killed, End
<1>9. CASE UNCHANGED vars
  BY <1>1, <1>9 DEF vars
<1> QED
  BY <1>4, <1>5, <1>6, <1>7, <1>8, <1>9 DEF Next

\* Nothing completes and no evidence appears between a verification, or its reuse,
\* and the answer that rests on it.
LEMMA StepKeepsAnswers ==
  ASSUME IInv, AnswersAreVerified, [Next]_vars
  PROVE  AnswersAreVerified'
<1> USE DEF IInv, evidenceVars, dirVars, procVars, flowVars, agentVars, boundVars
<1>1. ASSUME pc' \notin {"finish", "synthesize", "render"} PROVE AnswersAreVerified'
  BY <1>1 DEF AnswersAreVerified
<1>2. ASSUME pc \in {"finish", "synthesize", "render"}, UNCHANGED <<board, evident, verification, ran>>
      PROVE  AnswersAreVerified'
  BY <1>2 DEF AnswersAreVerified, Completed, Having, OfKind
<1>3. CASE Run \/ RunSingle \/ Resume
  BY <1>1, <1>3 DEF Run, RunSingle, Resume
<1>4. CASE CoordinatorStep
  <2>1. ASSUME Reload PROVE AnswersAreVerified'
    <3>1. UNCHANGED <<board, evident, verification, ran>>
          /\ (pc' = "finish" => ~ ran /\ ~ FollowupNeedsReverify) /\ pc' \in {"verify", "finish"}
      BY <2>1 DEF Reload
    <3> QED
      BY <3>1 DEF AnswersAreVerified, FollowupNeedsReverify, Completed, Having, OfKind
  <2>2. ASSUME NEW flagged \in SUBSET evident, NEW mock \in BOOLEAN, Verify(flagged, mock)
        PROVE  AnswersAreVerified'
    <3>1. /\ UNCHANGED <<board, evident, ran>>
          /\ verification'.given = Completed \cap reports
          /\ verification'.covered = Completed \cap reports \cap evident
      BY <2>2 DEF Verify, Verdicts
    <3> QED
      BY <3>1 DEF AnswersAreVerified, CompletedHasReport, Completed, Having, OfKind
  <2>3. CASE FollowUp \/ Synthesize
    BY <1>2, <2>3 DEF FollowUp, Synthesize
  <2>4. CASE \/ \E n \in 0 .. MaxSubAgents : Decompose(n)
             \/ \E allowed \in BOOLEAN : AddResearch(allowed)
             \/ \E n \in 0 .. MaxGapSeeds : SeedFromLedger(n)
             \/ PlantGap \/ Requeue \/ Dispatch \/ DispatchDone \/ MaybeReplan \/ AddFollowUp
    BY <1>1, <2>4 DEF TypeOK, Decompose, AddResearch, SeedFromLedger, PlantGap, Requeue, Dispatch,
       DispatchDone, MaybeReplan, AddFollowUp, AddPlanned, AfterSeed, AfterDispatch
  <2>5. CASE \/ \E u \in DOMAIN board : RejectProfile(u) \/ Activate(u) \/ Book(u)
             \/ ReturnSaved \/ Deliver \/ Raise
             \/ \E flagged \in SUBSET evident, mock \in BOOLEAN : SingleVerify(flagged, mock)
             \/ SingleActivate \/ SingleComplete \/ SingleFails
    BY <1>1, <2>5 DEF RejectProfile, Activate, Book, ReturnSaved, Deliver, Raise, SingleVerify,
       SingleActivate, SingleComplete, SingleFails, End
  <2> QED
    BY <1>4, <2>1, <2>2, <2>3, <2>4, <2>5 DEF CoordinatorStep
<1>5. CASE \E t \in running : AgentStep(t)
  BY <1>1, <1>5 DEF AgentStep, AgentReturns, AgentRaises, AgentsHoldTasks, Idle
<1>6. CASE CrashStep
  BY <1>1, <1>6 DEF CrashStep, Crash, TearBoard, TearTraces, TearVerification, TearSynthesis,
     TearReport, Killed, End
<1>7. CASE UNCHANGED vars
  BY <1>7 DEF vars, AnswersAreVerified, Completed, Having, OfKind
<1> QED
  BY <1>3, <1>4, <1>5, <1>6, <1>7 DEF Next

\* Over the whole life of a session, whatever is killed and resumed, the bounds hold,
\* an open plan fits into them, and what is answered from has been verified.
THEOREM LifeInvariance == Spec => []LifeInv
<1>1. Init => LifeInv
  <2> SUFFICES ASSUME Init PROVE LifeInv
    OBVIOUS
  <2>1. \A k \in Kind : OfKind(k) = {}
    BY DEF Init, OfKind
  <2>2. \A k \in Kind : Cardinality(OfKind(k)) = 0
    BY <2>1, FS_EmptySet
  <2> QED
    BY <2>2, SessionAssumption DEF SessionAssumption, Init, LifeInv, OrchestrationBounds,
       PlansFit, AnswersAreVerified, Least, Kind
<1>2. IInv /\ LifeInv /\ [Next]_vars => LifeInv'
  BY StepKeepsBounds, StepKeepsAnswers DEF LifeInv, BoundsInv
<1> QED
  BY <1>1, <1>2, Invariance, PTL DEF Spec

\* However often a session is killed and resumed, its board has at most MaxSubAgents
\* planned tasks, MaxGapSeeds planted gaps, one replan task and one follow-up round.
THEOREM BoundsHold == Spec => []OrchestrationBounds
  BY LifeInvariance, PTL DEF LifeInv

\* A process that dispatched work writes its synthesis over reports its verifier saw.
THEOREM DispatchedIsVerified == Spec => []DispatchedWorkIsVerified
<1>1. LifeInv => DispatchedWorkIsVerified
  BY DEF LifeInv, AnswersAreVerified, DispatchedWorkIsVerified
<1> QED
  BY <1>1, LifeInvariance, PTL

\* The evidence of the follow-up round has verdicts before it is synthesized, also if
\* a kill came between that round and its verification (_followup_needs_reverify).
THEOREM FollowUpsGetVerdicts == Spec => []FollowUpsAreVerified
<1>1. LifeInv => FollowUpsAreVerified
  BY DEF LifeInv, AnswersAreVerified, FollowUpsAreVerified
<1> QED
  BY <1>1, LifeInvariance, PTL

-----------------------------------------------------------------------------
(* A session implements TaskLifecycle: every step is a step of the board   *)
(* and the reports, or leaves both alone.                                  *)

Statuses == [t \in DOMAIN board |-> board[t].status]
Lifecycled == [Lifecycle!Next]_(Lifecycle!boardVars)

LEMMA StatusesFacts ==
  ASSUME NEW b \in Seq(Task)
  PROVE  /\ [t \in DOMAIN b |-> b[t].status] \in Seq(Status)
         /\ Len([t \in DOMAIN b |-> b[t].status]) = Len(b)
<1>1. DOMAIN b = 1 .. Len(b) /\ Len(b) \in Nat /\ \A t \in 1 .. Len(b) : b[t] \in Task
  OBVIOUS
<1>2. \A t \in 1 .. Len(b) : b[t].status \in Status
  BY <1>1 DEF Task
<1> QED
  BY <1>1, <1>2

LEMMA QuietRefines ==
  ASSUME UNCHANGED <<board, reports>>
  PROVE  Lifecycled
  BY DEF Lifecycled, Lifecycle!boardVars

LEMMA AddRefines ==
  ASSUME IInv, IInv', NEW kind \in Kind, NEW allowed \in BOOLEAN, AddTask(kind, allowed),
         UNCHANGED reports
  PROVE  Lifecycled
<1>1. /\ DOMAIN board' = 1 .. Len(board) + 1
      /\ \A u \in 1 .. Len(board) : board'[u] = board[u]
      /\ board'[Len(board) + 1].status = "PENDING"
      /\ Len(board) \in Nat
  BY AddFacts DEF IInv, TypeOK
<1>2. Statuses \in Seq(Status) /\ Len(Statuses) = Len(board) /\ "PENDING" \in Status
  BY StatusesFacts DEF IInv, TypeOK, Statuses, Status
<1>3. Statuses' \in Seq(Status) /\ Len(Statuses') = Len(board) + 1
  <2>1. board' \in Seq(Task) /\ Len(board') = Len(board) + 1
    BY AddFacts DEF IInv
  <2> QED
    BY <2>1, StatusesFacts DEF Statuses
<1>4. \A t \in 1 .. Len(board) + 1 : Statuses'[t] = Append(Statuses, "PENDING")[t]
  BY <1>1, <1>2 DEF Statuses
<1>5. Statuses' = Append(Statuses, "PENDING")
  BY <1>1, <1>2, <1>3, <1>4
<1> QED
  BY <1>5 DEF Lifecycled, Lifecycle!Next, Lifecycle!Add, Statuses

LEMMA MoveRefines ==
  ASSUME IInv, NEW t \in DOMAIN board, NEW new \in Status, Transition(t, new),
         new = "COMPLETED" => t \in reports, UNCHANGED reports
  PROVE  Lifecycled
<1>1. Statuses' = [Statuses EXCEPT ![t] = new] /\ <<Statuses[t], new>> \in AllowedTransitions
  <2>1. /\ DOMAIN board' = DOMAIN board
        /\ \A u \in DOMAIN board : board'[u].status = IF u = t THEN new ELSE board[u].status
        /\ <<board[t].status, new>> \in AllowedTransitions
    BY TransitionFacts DEF IInv
  <2>2. Statuses[t] = board[t].status
    BY DEF Statuses
  <2>3. Statuses' = [u \in DOMAIN board |-> IF u = t THEN new ELSE board[u].status]
    BY <2>1 DEF Statuses
  <2>4. [Statuses EXCEPT ![t] = new] = [u \in DOMAIN board |-> IF u = t THEN new ELSE board[u].status]
    BY DEF Statuses
  <2> QED
    BY <2>1, <2>2, <2>3, <2>4
<1>2. Lifecycle!Move(t, new)
  BY <1>1 DEF Lifecycle!Move, Lifecycle!AllowedTransitions, AllowedTransitions, Statuses
<1>3. t \in DOMAIN Statuses /\ new \in Lifecycle!Status
  BY DEF Statuses, Status, Lifecycle!Status
<1> QED
  BY <1>2, <1>3 DEF Lifecycled, Lifecycle!Next, Statuses

LEMMA RequeueRefines ==
  ASSUME IInv, Requeue
  PROVE  Lifecycled
<1>1. Statuses' = [t \in DOMAIN Statuses |-> RequeuedStatus(Statuses[t])] /\ UNCHANGED reports
  BY RequeueFacts DEF IInv, Statuses, Requeue, evidenceVars
<1> QED
  BY <1>1 DEF Lifecycled, Lifecycle!Next, Lifecycle!RequeueUnfinished,
     Lifecycle!RequeuedStatus, RequeuedStatus, Statuses

LEMMA ReportRefines ==
  ASSUME IInv, NEW t \in running, UNCHANGED board,
         reports' \in {reports, reports \cup {t}, reports \ {t}}
  PROVE  Lifecycled
<1>1. t \in DOMAIN Statuses /\ Statuses[t] = "ACTIVE"
  BY DEF IInv, AgentsHoldTasks, ActiveMeansWorking, Working, Having, Idle, Statuses
<1>2. UNCHANGED Statuses
  BY DEF Statuses
<1>3. reports' # reports => Lifecycle!WriteReport(t)
  BY <1>1, <1>2 DEF Lifecycle!WriteReport, Statuses
<1>4. reports' = reports => Lifecycled
  BY QuietRefines
<1> QED
  BY <1>1, <1>3, <1>4 DEF Lifecycled, Lifecycle!Next, Statuses

LEMMA StepRefines ==
  ASSUME IInv, IInv', [Next]_vars
  PROVE  Lifecycled
<1> USE DEF evidenceVars, dirVars, procVars
<1>1. CASE Run \/ Resume \/ UNCHANGED vars
  BY <1>1, QuietRefines DEF Run, Resume, vars
<1>2. CASE RunSingle
  BY <1>2, AddRefines DEF RunSingle, Kind
<1>3. CASE CoordinatorStep
  <2>1. CASE \/ \E n \in 0 .. MaxSubAgents : Decompose(n)
             \/ \E n \in 0 .. MaxGapSeeds : SeedFromLedger(n)
             \/ Dispatch \/ DispatchDone \/ Reload \/ ReturnSaved \/ FollowUp \/ Synthesize
             \/ Deliver \/ Raise
             \/ \E flagged \in SUBSET evident, mock \in BOOLEAN :
                  Verify(flagged, mock) \/ SingleVerify(flagged, mock)
    BY <2>1, QuietRefines DEF Decompose, SeedFromLedger, Dispatch, DispatchDone, Reload,
       ReturnSaved, FollowUp, Synthesize, Deliver, Raise, Verify, SingleVerify
  <2>2. CASE \/ \E allowed \in BOOLEAN : AddResearch(allowed)
             \/ PlantGap \/ AddFollowUp
    BY <2>2, AddRefines DEF AddResearch, PlantGap, AddFollowUp, AddPlanned, Kind
  <2>3. CASE MaybeReplan
    BY <2>3, AddRefines, QuietRefines DEF MaybeReplan, Kind
  <2>4. CASE Requeue
    BY <2>4, RequeueRefines
  <2>5. CASE \E u \in DOMAIN board : RejectProfile(u) \/ Activate(u)
    BY <2>5, MoveRefines DEF RejectProfile, Activate, Status
  <2>6. CASE \E u \in DOMAIN board : Book(u)
    BY <2>6, MoveRefines DEF Book, Status, IInv, AgentsHoldTasks
  <2>7. CASE SingleActivate \/ SingleComplete \/ SingleFails
    <3>1. 1 \in DOMAIN board
      BY <2>7 DEF SingleActivate, SingleComplete, SingleFails, IInv, SingleHasOneTask, TypeOK
    <3>2. SingleComplete => 1 \in reports
      BY DEF SingleComplete, IInv, SingleHasOneTask, AgentsHoldTasks
    <3> QED
      BY <2>7, <3>1, <3>2, MoveRefines DEF SingleActivate, SingleComplete, SingleFails, Status
  <2> QED
    BY <1>3, <2>1, <2>2, <2>3, <2>4, <2>5, <2>6, <2>7 DEF CoordinatorStep
<1>4. CASE \E t \in running : AgentStep(t)
  BY <1>4, ReportRefines DEF AgentStep, AgentReturns, AgentRaises
<1>5. CASE CrashStep
  BY <1>5, ReportRefines, QuietRefines DEF CrashStep, Crash, TearBoard, TearTraces,
     TearVerification, TearSynthesis, TearReport, Killed
<1> QED
  BY <1>1, <1>2, <1>3, <1>4, <1>5 DEF Next

\* A session directory behaves as TaskLifecycle promises its readers, whatever
\* the coordinator does and however often it is killed.
THEOREM Refinement == Spec => ImplementsLifecycle
<1>1. Init => Lifecycle!Init
  BY DEF Init, Lifecycle!Init
<1>2. IInv /\ IInv' /\ [Next]_vars => [Lifecycle!Next]_(Lifecycle!boardVars)
  BY StepRefines DEF Lifecycled
<1> QED
  BY <1>1, <1>2, Invariance, PTL DEF Spec, ImplementsLifecycle, Lifecycle!Spec
=============================================================================
