-------------------------- MODULE EvaluationProofs --------------------------
(***************************************************************************)
(* Proofs about the evaluation of policies on frozen worlds.  First about  *)
(* Arena, one run, for every budget, whatever the model answers, wherever  *)
(* a stage is cut off and whichever writes fail (IInv).  Then about        *)
(* CapabilityExperiment, the selection of its worlds (SelectionInv) and    *)
(* the decision on its candidate (PromotionInv), for every set of worlds,  *)
(* sessions, facts and findings.                                           *)
(***************************************************************************)
EXTENDS Arena, CapabilityExperiment, FiniteSetTheorems, SequenceTheorems, WellFoundedInduction, TLAPS

Stages == {"planning", "research", "repair", "review", "verifier", "closing", "done"}

\* What was done so far, by the stage the run is in.
CountInv ==
  /\ executed \in Nat /\ toolCalls \in Nat /\ traces \in Seq(Stages \X (Investigations \cup {0}))
  /\ stage # "done" \/ status = "complete" =>
       toolCalls = executed /\ Len(traces) = executed /\ executed <= MaxToolCalls

\* The first task is complete, the second has not been asked for; or both are complete.
FirstDone == board[1] = "COMPLETED" /\ board[2] = "none" /\ reports = {1} /\ saved = {1}
BothDone == board[1] = "COMPLETED" /\ board[2] = "COMPLETED" /\ reports = {1, 2} /\ saved = {1, 2}

TaskInv ==
  /\ stage \in Stages /\ index \in Investigations \cup {0} /\ DOMAIN board = Investigations
  /\ stage = "planning" =>
       index = 0 /\ active = NoTask /\ reports = {} /\ saved = {} /\ \A i \in Investigations : board[i] = "none"
  /\ stage \in {"research", "repair"} =>
       /\ index \in Investigations /\ active = index /\ board[index] = "ACTIVE"
       /\ \/ index = 1 /\ reports = {} /\ saved = {} /\ board[2] = "none"
          \/ index = 2 /\ reports = {1} /\ saved = {1} /\ board[1] = "COMPLETED"
  /\ stage = "review" => index = 1 /\ active = NoTask /\ FirstDone
  /\ stage \in {"verifier", "closing"} => active = NoTask /\ (FirstDone \/ BothDone)
  /\ stage = "closing" => verified = reports
  /\ stage # "done" => status = "failed" /\ disk = board /\ filed = FALSE

IInv == CountInv /\ TaskInv /\ CompleteRunsAreVerified /\ NoTaskIsLeftActive

-----------------------------------------------------------------------------

\* Of the statuses a task has here, only an ACTIVE one can fail.
LEMMA Transitions ==
  /\ <<"ACTIVE", "BLOCKED">> \in AllowedTransitions
  /\ <<"COMPLETED", "BLOCKED">> \notin AllowedTransitions
BY DEF AllowedTransitions

LEMMA InitHolds ==
  ASSUME Init
  PROVE  IInv
BY ArenaAssumption DEF Init, IInv, CountInv, TaskInv, CompleteRunsAreVerified, NoTaskIsLeftActive, Stages,
   Investigations, NoTask

\* A run that ends has saved its board without an ACTIVE task when it files itself: the
\* one at hand fails and is saved, or there is none.
LEMMA ExitHolds ==
  ASSUME IInv, stage # "done", NEW tasks, NEW task, NEW stored, NEW count, NEW how,
         Exit(tasks, task, stored, count, how),
         DOMAIN tasks = Investigations,
         \A i \in Investigations : tasks[i] = "ACTIVE" => i = task,
         task = NoTask => \A i \in Investigations : stored[i] # "ACTIVE"
  PROVE  stage' = "done" /\ TaskInv' /\ CompleteRunsAreVerified' /\ NoTaskIsLeftActive' /\ status' # "complete"
<1> DEFINE fails == task # NoTask /\ <<tasks[task], "BLOCKED">> \in AllowedTransitions
           failed == [tasks EXCEPT ![task] = "BLOCKED"]
<1>1. /\ stage' = "done" /\ status' = status /\ status = "failed" /\ index' = index
      /\ board' = IF fails THEN failed ELSE tasks
      /\ filed' => (fails \/ task = NoTask) /\ disk' = IF fails THEN failed ELSE stored
  BY DEF Exit, IInv, TaskInv
<1>2. DOMAIN failed = Investigations
  OBVIOUS
<1>3. fails => \A i \in Investigations : failed[i] # "ACTIVE"
  OBVIOUS
<1> HIDE DEF fails, failed
<1>4. NoTaskIsLeftActive'
  BY <1>1, <1>3 DEF NoTaskIsLeftActive
<1>5. DOMAIN board' = Investigations /\ index' \in Investigations \cup {0}
  BY <1>1, <1>2 DEF IInv, TaskInv
<1> QED
  BY <1>1, <1>4, <1>5 DEF TaskInv, CompleteRunsAreVerified, Stages

LEMMA EndHolds ==
  ASSUME IInv, stage # "done", NEW how \in {"exception", "cancelled"}, Ends(how)
  PROVE  stage' = "done" /\ TaskInv' /\ CompleteRunsAreVerified' /\ NoTaskIsLeftActive' /\ status' # "complete"
<1>1. \A i \in Investigations : board[i] = "ACTIVE" => i = active
  BY DEF IInv, TaskInv, Stages, FirstDone, BothDone, Investigations
<1>2. DOMAIN board = Investigations /\ disk = board /\ NoTask \notin Investigations
  BY DEF IInv, TaskInv, NoTask, Investigations
<1> QED
  BY <1>1, <1>2, ExitHolds DEF Ends

\* The same where nothing is counted any more.
LEMMA CutHolds ==
  ASSUME IInv, stage # "done", NEW how \in {"exception", "cancelled"}, Ends(how),
         executed' \in Nat, toolCalls' \in Nat, traces' = traces
  PROVE  IInv'
BY EndHolds DEF IInv, CountInv

LEMMA RequestHolds ==
  ASSUME IInv, NEW tokens \in Reservations, Request(tokens)
  PROVE  IInv'
<1>1. /\ stage # "done" /\ UNCHANGED <<executed, traces>>
      /\ \/ Fails /\ toolCalls' = toolCalls
         \/ UNCHANGED <<stage, index, toolCalls, board, disk, filed, active, reports, saved, verified, status>>
  BY DEF Request, spent, seen, results, ended
<1>2. CASE Fails /\ toolCalls' = toolCalls
  <2>1. executed' \in Nat /\ toolCalls' \in Nat
    BY <1>1, <1>2 DEF IInv, CountInv
  <2> QED
    BY <1>1, <1>2, <2>1, CutHolds DEF Fails
<1>3. CASE UNCHANGED <<stage, index, toolCalls, board, disk, filed, active, reports, saved, verified, status>>
  BY <1>1, <1>3 DEF IInv, CountInv, TaskInv, CompleteRunsAreVerified, NoTaskIsLeftActive, FirstDone, BothDone
<1> QED
  BY <1>1, <1>2, <1>3

\* A stage that ends without an answer.
LEMMA FailHolds ==
  ASSUME IInv, OutOfTurns \/ ResponseFails \/ ToolCut \/ AnswerRejected
  PROVE  IInv'
<1>1. /\ stage # "done" /\ executed' \in {executed, executed + 1} /\ UNCHANGED <<toolCalls, traces>>
      /\ Ends("exception") \/ Ends("cancelled")
  BY DEF OutOfTurns, ResponseFails, ToolCut, AnswerRejected, Fails, spent, seen
<1>2. executed' \in Nat /\ toolCalls' \in Nat
  BY <1>1 DEF IInv, CountInv
<1> QED
  BY <1>1, <1>2, CutHolds

\* Moving on within a stage.
LEMMA LoopHolds ==
  ASSUME IInv, (\E names \in CallSequences : Response(names)) \/ NextTurn
  PROVE  IInv'
<1>1. UNCHANGED <<stage, index, executed, toolCalls, traces, board, disk, filed, active, reports, saved, verified, status>>
  BY DEF Response, NextTurn, spent, seen, results, ended
<1> QED
  BY <1>1 DEF IInv, CountInv, TaskInv, CompleteRunsAreVerified, NoTaskIsLeftActive, FirstDone, BothDone

LEMMA ToolCallHolds ==
  ASSUME IInv, ToolCall
  PROVE  IInv'
<1> DEFINE answers == Head(calls) \in Registry /\ toolCalls < MaxToolCalls
<1>1. /\ stage # "done" /\ toolCalls' = toolCalls + 1
      /\ executed' = IF answers THEN executed + 1 ELSE executed
      /\ \/ (Head(calls) \notin Registry \/ toolCalls' > MaxToolCalls) /\ Fails /\ UNCHANGED traces
         \/ /\ ~ (Head(calls) \notin Registry \/ toolCalls' > MaxToolCalls)
            /\ traces' = Append(traces, <<stage, index>>)
            /\ UNCHANGED <<stage, index, board, disk, filed, active, reports, saved, verified, status>>
  BY DEF ToolCall, results, ended
<1>2. executed \in Nat /\ toolCalls \in Nat /\ MaxToolCalls \in Nat /\ executed' \in Nat /\ toolCalls' \in Nat
  BY <1>1, ArenaAssumption DEF IInv, CountInv
<1>3. CASE Fails /\ UNCHANGED traces
  BY <1>1, <1>2, <1>3, CutHolds DEF Fails
<1>4. CASE /\ ~ (Head(calls) \notin Registry \/ toolCalls' > MaxToolCalls)
           /\ traces' = Append(traces, <<stage, index>>)
           /\ UNCHANGED <<stage, index, board, disk, filed, active, reports, saved, verified, status>>
  <2>1. toolCalls = executed /\ Len(traces) = executed /\ answers /\ toolCalls' <= MaxToolCalls
    BY <1>1, <1>2, <1>4 DEF IInv, CountInv
  <2>2. <<stage, index>> \in Stages \X (Investigations \cup {0})
    BY DEF IInv, TaskInv
  <2>3. traces' \in Seq(Stages \X (Investigations \cup {0})) /\ Len(traces') = Len(traces) + 1
    BY <1>4, <2>2 DEF IInv, CountInv
  <2>4. CountInv'
    BY <1>1, <1>2, <2>1, <2>3 DEF CountInv
  <2> QED
    BY <1>4, <2>4 DEF IInv, TaskInv, CompleteRunsAreVerified, NoTaskIsLeftActive, FirstDone, BothDone
<1> QED
  BY <1>1, <1>3, <1>4

-----------------------------------------------------------------------------
(* The answers.                                                            *)

\* What changes the stage keeps the counts.
LEMMA Counted ==
  ASSUME IInv, stage # "done", UNCHANGED <<executed, toolCalls, traces>>, status' = status
  PROVE  CountInv'
BY DEF IInv, CountInv, TaskInv

LEMMA AnswerHolds ==
  ASSUME IInv, Planned \/ Repairs \/ Reported \/ (\E replan \in BOOLEAN : Reviewed(replan)) \/ Verified
  PROVE  IInv'
<1> USE DEF Enters, Assigns, seen, spent, results, ended
<1>1. stage \in {"planning", "research", "repair", "review", "verifier"} /\ stage' # "done" /\ status' = status
      /\ UNCHANGED <<executed, toolCalls, traces>> /\ status = "failed"
  BY DEF Planned, Repairs, Reported, Reviewed, Verified, IInv, TaskInv
<1>2. CountInv'
  BY <1>1, Counted
<1>3. TaskInv'
  <2> USE DEF TaskInv, Stages, Investigations, NoTask, FirstDone, BothDone
  <2>1. CASE Planned
    BY <2>1 DEF IInv, Planned
  <2>2. CASE Repairs
    BY <2>2 DEF IInv, Repairs
  <2>3. CASE Reported
    BY <2>3 DEF IInv, Reported
  <2>4. ASSUME NEW replan \in BOOLEAN, Reviewed(replan) PROVE TaskInv'
    <3>1. CASE replan
      BY <2>4, <3>1 DEF IInv, Reviewed
    <3>2. CASE ~ replan
      BY <2>4, <3>2 DEF IInv, Reviewed
    <3> QED
      BY <3>1, <3>2
  <2>5. CASE Verified
    BY <2>5 DEF IInv, Verified
  <2> QED
    BY <2>1, <2>2, <2>3, <2>4, <2>5
<1>4. CompleteRunsAreVerified' /\ NoTaskIsLeftActive'
  BY <1>1, <1>3 DEF TaskInv, CompleteRunsAreVerified, NoTaskIsLeftActive
<1> QED
  BY <1>2, <1>3, <1>4 DEF IInv

LEMMA ClosesHolds ==
  ASSUME IInv, Closes
  PROVE  IInv'
<1>1. stage = "closing" /\ UNCHANGED <<executed, toolCalls, traces>>
  BY DEF Closes, spent, seen
<1>2. CASE Fails
  <2>1. executed' \in Nat /\ toolCalls' \in Nat
    BY <1>1 DEF IInv, CountInv
  <2> QED
    BY <1>1, <1>2, <2>1, CutHolds DEF Fails
<1>3. CASE stage' = "done" /\ status' = "complete" /\ UNCHANGED <<index, board, disk, active, reports, saved, verified>>
  <2>1. CountInv'
    BY <1>1, <1>3 DEF IInv, CountInv
  <2>2. TaskInv'
    BY <1>3 DEF IInv, TaskInv, Stages
  <2>3. verified = reports /\ disk = board /\ (FirstDone \/ BothDone)
    BY <1>1 DEF IInv, TaskInv
  <2>4. CompleteRunsAreVerified' /\ NoTaskIsLeftActive'
    BY <1>3, <2>3 DEF CompleteRunsAreVerified, NoTaskIsLeftActive, FirstDone, BothDone, Investigations
  <2> QED
    BY <2>1, <2>2, <2>4 DEF IInv
<1> QED
  BY <1>2, <1>3 DEF Closes, results

\* The same where the write that fails has changed the board in memory.
LEMMA BrokenHolds ==
  ASSUME IInv, stage # "done", NEW tasks, NEW task, NEW stored, Broken(tasks, task, stored),
         DOMAIN tasks = Investigations,
         \A i \in Investigations : tasks[i] = "ACTIVE" => i = task,
         task = NoTask => \A i \in Investigations : stored[i] # "ACTIVE",
         UNCHANGED <<executed, toolCalls, traces>>
  PROVE  IInv'
BY ExitHolds DEF Broken, IInv, CountInv

LEMMA WriteFailsHolds ==
  ASSUME IInv, WriteFails
  PROVE  IInv'
<1>1. /\ UNCHANGED <<executed, toolCalls, traces>> /\ DOMAIN board = Investigations
      /\ stage # "done" => disk = board
  BY DEF WriteFails, spent, seen, IInv, TaskInv
<1>2. \A i \in Investigations : i # NoTask /\ Torn[i] # "ACTIVE"
  BY DEF Torn, Investigations, NoTask
<1>3. CASE stage \in {"planning", "review"}
  <2> DEFINE added == [board EXCEPT ![AssignsTo] = "PENDING"]
             activated == [board EXCEPT ![AssignsTo] = "ACTIVE"]
  <2>1. AssignsTo \in Investigations /\ \A i \in Investigations : board[i] # "ACTIVE"
    BY <1>3 DEF AssignsTo, Investigations, IInv, TaskInv, FirstDone
  <2>2. /\ DOMAIN added = Investigations /\ \A i \in Investigations : added[i] # "ACTIVE"
        /\ DOMAIN activated = Investigations
        /\ \A i \in Investigations : activated[i] = "ACTIVE" => i = AssignsTo
    BY <1>1, <2>1
  <2>3. \/ \E stored \in {disk, Torn} : Broken(added, NoTask, stored)
        \/ \E stored \in {added, Torn} : Broken(activated, AssignsTo, stored)
    BY <1>3 DEF WriteFails
  <2> HIDE DEF added, activated
  <2>4. CASE \E stored \in {disk, Torn} : Broken(added, NoTask, stored)
    <3>1. PICK stored \in {disk, Torn} : Broken(added, NoTask, stored)
      BY <2>4
    <3>2. \A i \in Investigations : stored[i] # "ACTIVE"
      BY <1>1, <1>2, <1>3, <2>1
    <3> QED
      BY <1>1, <1>3, <2>2, <3>1, <3>2, BrokenHolds
  <2>5. CASE \E stored \in {added, Torn} : Broken(activated, AssignsTo, stored)
    <3>1. PICK stored \in {added, Torn} : Broken(activated, AssignsTo, stored)
      BY <2>5
    <3> QED
      BY <1>1, <1>2, <1>3, <2>1, <2>2, <3>1, BrokenHolds
  <2> QED
    BY <2>3, <2>4, <2>5
<1>4. CASE stage \in {"research", "repair"}
  <2> DEFINE completed == [board EXCEPT ![index] = "COMPLETED"]
  <2>1. index \in Investigations /\ \A i \in Investigations : board[i] = "ACTIVE" => i = index
    BY <1>4 DEF IInv, TaskInv, Investigations
  <2>2. DOMAIN completed = Investigations /\ \A i \in Investigations : completed[i] # "ACTIVE"
    BY <1>1, <2>1
  <2>3. Broken(board, index, disk) \/ \E stored \in {disk, completed, Torn} : Broken(completed, index, stored)
    BY <1>4 DEF WriteFails
  <2> HIDE DEF completed
  <2>4. CASE Broken(board, index, disk)
    BY <1>1, <1>2, <1>4, <2>1, <2>4, BrokenHolds
  <2>5. CASE \E stored \in {disk, completed, Torn} : Broken(completed, index, stored)
    <3>1. PICK stored \in {disk, completed, Torn} : Broken(completed, index, stored)
      BY <2>5
    <3> QED
      BY <1>1, <1>2, <1>4, <2>1, <2>2, <3>1, BrokenHolds
  <2> QED
    BY <2>3, <2>4, <2>5
<1>5. CASE stage = "verifier"
  <2>1. \A i \in Investigations : board[i] # "ACTIVE"
    BY <1>5 DEF IInv, TaskInv, FirstDone, BothDone, Investigations
  <2> QED
    BY <1>1, <1>5, <2>1, BrokenHolds DEF WriteFails
<1> QED
  BY <1>3, <1>4, <1>5 DEF WriteFails

LEMMA StepHolds ==
  ASSUME IInv, [Next]_vars
  PROVE  IInv'
<1>1. CASE Next
  BY <1>1, RequestHolds, FailHolds, LoopHolds, ToolCallHolds, AnswerHolds, ClosesHolds, WriteFailsHolds DEF Next
<1>2. CASE UNCHANGED vars
  BY <1>2 DEF vars, seen, spent, results, ended, IInv, CountInv, TaskInv, CompleteRunsAreVerified,
              NoTaskIsLeftActive, FirstDone, BothDone
<1> QED
  BY <1>1, <1>2

-----------------------------------------------------------------------------

\* The invariant holds in every state.
THEOREM Invariance == Spec => []IInv
BY InitHolds, StepHolds, PTL DEF Spec

\* Every call a tool of a complete run answered has a trace, and the budget holds.
THEOREM RunsAreRecorded == Spec => []CompleteRunsAreRecorded
<1>1. IInv => CompleteRunsAreRecorded
  BY DEF IInv, CountInv, CompleteRunsAreRecorded
<1> QED
  BY <1>1, Invariance, PTL

\* A complete run was verified over the reports of all its tasks.
THEOREM RunsAreVerified == Spec => []CompleteRunsAreVerified
<1>1. IInv => CompleteRunsAreVerified
  BY DEF IInv
<1> QED
  BY <1>1, Invariance, PTL

\* A run that is on record has no ACTIVE task in its board on disk, wherever it was cut
\* off and whichever of its writes failed.
THEOREM TasksEnd == Spec => []NoTaskIsLeftActive
<1>1. IInv => NoTaskIsLeftActive
  BY DEF IInv
<1> QED
  BY <1>1, Invariance, PTL

-----------------------------------------------------------------------------
(* Sequences of the elements of a set.                                      *)

LEMMA SetsHaveSequences ==
  ASSUME NEW S, IsFiniteSet(S)
  PROVE  /\ SetToSeq(S) \in Seq(S) /\ Len(SetToSeq(S)) = Cardinality(S) /\ Cardinality(S) \in Nat
         /\ DOMAIN SetToSeq(S) = 1 .. Cardinality(S)
         /\ ToSet(SetToSeq(S)) = S
         /\ \A i, j \in DOMAIN SetToSeq(S) : SetToSeq(S)[i] = SetToSeq(S)[j] => i = j
<1> DEFINE n == Cardinality(S)
           s == SetToSeq(S)
<1>1. n \in Nat /\ ExistsBijection(1 .. n, S)
  BY FS_CardinalityType
<1>2. PICK f \in Bijection(1 .. n, S) : TRUE
  BY <1>1 DEF ExistsBijection
<1>3. f \in [1 .. n -> S] /\ IsInjective(f)
  BY <1>2 DEF Bijection, Injection, IsInjective
<1>4. s \in [1 .. n -> S] /\ IsInjective(s)
  BY <1>3 DEF SetToSeq
<1> HIDE DEF s
<1>5. s \in Seq(S) /\ Len(s) = n /\ DOMAIN s = 1 .. n
  BY <1>1, <1>4
<1>6. s \in Injection(1 .. n, S)
  BY <1>4 DEF Injection
<1>7. Cardinality(1 .. n) = n /\ IsFiniteSet(1 .. n)
  BY <1>1, FS_Interval
<1>8. s \in Surjection(1 .. n, S)
  BY <1>6, <1>7, FS_Injection
<1>9. ToSet(s) = S
  BY <1>5, <1>8 DEF Surjection, ToSet
<1> QED
  BY <1>1, <1>4, <1>5, <1>9 DEF s, IsInjective

LEMMA SmallestExists ==
  ASSUME NEW P, P \subseteq Nat, P # {}
  PROVE  \E n \in P : \A m \in P : n <= m
<1> DEFINE R == {p \in Nat \X Nat : p[1] < p[2]}
<1>1. IsWellFoundedOn(R, Nat)
  BY Zenon, NatLessThanWellFounded DEF OpToRel
<1>2. PICK n \in P : \A m \in P : ~ (<<m, n>> \in R)
  <2> HIDE DEF R
  <2> QED
    BY <1>1, WFMin
<1>3. \A m \in P : n <= m
  <2>1. SUFFICES ASSUME NEW m \in P, ~ (n <= m) PROVE FALSE
    OBVIOUS
  <2>2. <<m, n>> \in R
    BY <2>1
  <2> QED
    BY <1>2, <2>2
<1> QED
  BY <1>3

\* Induction over an interval, by its set of counterexamples.
LEMMA IntervalInduction ==
  ASSUME NEW k \in Nat, NEW S, 0 \in S, \A n \in 0 .. k : n \in S /\ n # k => n + 1 \in S
  PROVE  0 .. k \subseteq S
<1> DEFINE T == (0 .. k) \ S
<1>1. SUFFICES ASSUME T # {} PROVE FALSE
  OBVIOUS
<1>2. T \subseteq Nat
  OBVIOUS
<1>3. PICK n \in T : \A m \in T : n <= m
  <2> HIDE DEF T
  <2> QED
    BY <1>1, <1>2, SmallestExists
<1>4. n # 0 /\ n - 1 \in 0 .. k /\ n - 1 # k /\ n \in 0 .. k /\ n \notin S
  OBVIOUS
<1>5. n - 1 \notin T
  BY <1>2, <1>3, <1>4
<1> QED
  BY <1>4, <1>5

-----------------------------------------------------------------------------
(* The rows are taken one by one: Selections is what its equation says.     *)

LEMMA SelectionsAreDefined ==
  ASSUME NEW rows, NEW byKey, NEW cs, NEW worlds, Len(rows) \in Nat
  PROVE  /\ DOMAIN Selections(rows, cs, byKey, worlds) = 0 .. Len(rows)
         /\ Selections(rows, cs, byKey, worlds)[0] = <<>>
         /\ \A n \in 1 .. Len(rows) :
              Selections(rows, cs, byKey, worlds)[n] =
                Choose(Selections(rows, cs, byKey, worlds)[n - 1], rows[n], cs, byKey, worlds)
<1> DEFINE k == Len(rows)
           Step(chosenBefore, n) == Choose(chosenBefore, rows[n], cs, byKey, worlds)
           Solves(g, n) == g = [m \in 0 .. n |-> IF m = 0 THEN <<>> ELSE Step(g[m - 1], m)]
           S == {n \in 0 .. k : \E g : Solves(g, n)}
           f == Selections(rows, cs, byKey, worlds)
<1>1. f = CHOOSE g : Solves(g, k)
  BY DEF Selections
<1> HIDE DEF Step, f
<1>2. 0 \in S
  <2> DEFINE g == [m \in 0 .. 0 |-> <<>>]
  <2>1. Solves(g, 0)
    OBVIOUS
  <2> HIDE DEF g
  <2>2. \E h : Solves(h, 0)
    BY <2>1
  <2>3. 0 \in 0 .. k
    OBVIOUS
  <2> QED
    BY <2>2, <2>3
<1>3. ASSUME NEW n \in 0 .. k, n \in S, n # k
      PROVE  n + 1 \in S
  <2>1. PICK g : Solves(g, n)
    BY <1>3
  <2> DEFINE h == [m \in 0 .. n + 1 |-> IF m = n + 1 THEN Step(g[n], n + 1) ELSE g[m]]
  <2>2. \A m \in 0 .. n + 1 : h[m] = IF m = 0 THEN <<>> ELSE Step(h[m - 1], m)
    <3>1. SUFFICES ASSUME NEW m \in 0 .. n + 1
                   PROVE  h[m] = IF m = 0 THEN <<>> ELSE Step(h[m - 1], m)
      OBVIOUS
    <3>2. CASE m = n + 1
      <4>1. h[m] = Step(g[n], m) /\ h[m - 1] = g[n] /\ m # 0
        BY <3>2
      <4> QED
        BY <4>1
    <3>3. CASE m # n + 1 /\ m # 0
      <4>1. h[m] = g[m] /\ h[m - 1] = g[m - 1] /\ m \in 0 .. n
        BY <3>3
      <4>2. g[m] = Step(g[m - 1], m)
        BY <2>1, <3>3, <4>1
      <4> QED
        BY <3>3, <4>1, <4>2
    <3>4. CASE m = 0
      BY <2>1, <3>4
    <3> QED
      BY <3>2, <3>3, <3>4
  <2>3. Solves(h, n + 1)
    BY <2>2
  <2>4. n + 1 \in 0 .. k
    BY <1>3
  <2> QED
    BY <2>3, <2>4
<1>4. k \in S
  <2>1. 0 .. k \subseteq S
    BY <1>2, <1>3, IntervalInduction
  <2> QED
    BY <2>1
<1>5. Solves(f, k)
  BY <1>1, <1>4
<1> QED
  BY <1>5 DEF f, Step

-----------------------------------------------------------------------------
(* Worlds, cases and rows as they change.                                   *)

Contents == [hash : Nat, covers : SUBSET ToSet(Taxonomy)]
Keys == [evidence : Evidence \cup {NoEvidence}, id : Nat]
Rows == [session : Sessions, key : Keys, says : Says \cup {{}}, status : {"OPEN", "CLOSED"}]
Occurrences == Sessions \X (Nat \ {0})

\* A world that has the hash of a newer one is the same.
WorldsInv ==
  /\ world \in [Worlds -> Contents] /\ approved \in [Worlds -> Contents]
  /\ \A w \in Worlds : /\ approved[w].hash <= world[w].hash
                       /\ approved[w].hash = world[w].hash => approved[w] = world[w]

\* What a case maps to covered its capability when it had the hash that the case holds.
Maps(case, worlds) ==
  \A w \in case.worlds : worlds[w].hash = case.hashes[w] => case.capability \in worlds[w].covers

CasesInv ==
  \A cs \in {cases, known} :
    /\ DOMAIN cs \subseteq Occurrences
    /\ \A o \in DOMAIN cs :
         /\ cs[o].worlds \subseteq Worlds
         /\ \A w \in cs[o].worlds : cs[o].hashes[w] \in Nat /\ cs[o].hashes[w] <= world[w].hash
         /\ Maps(cs[o], world) /\ Maps(cs[o], approved)

GapsInv ==
  /\ gaps \in Nat
  /\ \A s \in Sessions :
       /\ verification[s] \in [id : Nat, evidence : Evidence \cup {NoEvidence}, says : Says \cup {{}}]
       /\ verification[s].id = 0 => verification[s] = NoGap
  /\ verification \in [Sessions -> [id : Nat, evidence : Evidence \cup {NoEvidence}, says : Says \cup {{}}]]

\* A session has one row for an evidence.
RowsInv ==
  /\ ledger \in Seq(Rows)
  /\ \A i, j \in DOMAIN ledger :
       ledger[i].session = ledger[j].session /\ ledger[i].key = ledger[j].key => i = j

MiningInv == WorldsInv /\ CasesInv /\ GapsInv /\ RowsInv

LEMMA RecordKeepsRows ==
  ASSUME MiningInv, NEW s \in Sessions, Record(s)
  PROVE  RowsInv'
<1> DEFINE row == [session |-> s, key |-> Key(verification[s]), says |-> verification[s].says, status |-> "OPEN"]
           n == Len(ledger) + 1
<1>1. Key(verification[s]) \in Keys
  BY DEF Key, Keys, MiningInv, GapsInv, NoGap
<1>2. row \in Rows /\ ledger \in Seq(Rows)
  BY <1>1 DEF Rows, MiningInv, GapsInv, RowsInv
<1>3. ledger' = Append(ledger, row)
  BY DEF Record
<1>4. \A i \in DOMAIN ledger : ~ (ledger[i].session = row.session /\ ledger[i].key = row.key)
  BY DEF Record
<1> HIDE DEF row
<1>5. /\ ledger' \in Seq(Rows) /\ DOMAIN ledger' = 1 .. n /\ ledger'[n] = row
      /\ \A i \in 1 .. n : i = n \/ (i \in DOMAIN ledger /\ ledger'[i] = ledger[i])
  BY <1>2, <1>3
<1> QED
  BY <1>4, <1>5 DEF MiningInv, RowsInv

LEMMA SettleKeepsRows ==
  ASSUME MiningInv, NEW i \in DOMAIN ledger, NEW to \in {"OPEN", "CLOSED"}, Settle(i, to)
  PROVE  RowsInv'
<1> DEFINE row == [ledger[i] EXCEPT !.status = to]
<1>1. ledger \in Seq(Rows) /\ ledger[i] \in Rows
  BY DEF MiningInv, RowsInv
<1>2. row \in Rows /\ row.session = ledger[i].session /\ row.key = ledger[i].key
  BY <1>1 DEF Rows
<1>3. ledger' = [ledger EXCEPT ![i] = row]
  BY DEF Settle
<1> HIDE DEF row
<1>4. /\ ledger' \in Seq(Rows) /\ DOMAIN ledger' = DOMAIN ledger
      /\ \A j \in DOMAIN ledger : ledger'[j] = IF j = i THEN row ELSE ledger[j]
  BY <1>1, <1>2, <1>3, ExceptSeq
<1> QED
  BY <1>2, <1>4 DEF MiningInv, RowsInv

LEMMA VerifyKeepsGaps ==
  ASSUME MiningInv, NEW s \in Sessions, NEW e \in Evidence \cup {NoEvidence}, NEW says \in Says, Verify(s, e, says)
  PROVE  GapsInv'
<1> DEFINE gap == [id |-> gaps + 1, evidence |-> e, says |-> says]
           Gaps == [id : Nat, evidence : Evidence \cup {NoEvidence}, says : Says \cup {{}}]
<1>1. gaps \in Nat /\ gap \in Gaps /\ gap.id # 0
  BY DEF MiningInv, GapsInv
<1>2. gaps' = gaps + 1 /\ verification' = [verification EXCEPT ![s] = gap]
  BY DEF Verify
<1> HIDE DEF gap
<1>3. \A t \in Sessions : verification'[t] = IF t = s THEN gap ELSE verification[t]
  BY <1>2 DEF MiningInv, GapsInv
<1>4. verification' \in [Sessions -> Gaps]
  BY <1>1, <1>2 DEF MiningInv, GapsInv
<1> QED
  BY <1>1, <1>2, <1>3, <1>4 DEF MiningInv, GapsInv

LEMMA ReviseKeepsWorlds ==
  ASSUME MiningInv, NEW w \in Worlds, NEW covers \in Covers, Revise(w, covers),
         approved' = approved, known' = known
  PROVE  WorldsInv' /\ CasesInv'
<1> DEFINE content == [hash |-> world[w].hash + 1, covers |-> covers]
<1>1. covers \subseteq ToSet(Taxonomy)
  BY MiningAssumption DEF MiningAssumption
<1>2. world \in [Worlds -> Contents] /\ approved \in [Worlds -> Contents] /\ world[w].hash \in Nat
  BY DEF MiningInv, WorldsInv, Contents
<1>3. content \in Contents /\ content.hash = world[w].hash + 1
  BY <1>1, <1>2 DEF Contents
<1>4. world' = [world EXCEPT ![w] = content] /\ cases' = cases
  BY DEF Revise
<1> HIDE DEF content
<1>5. world' \in [Worlds -> Contents] /\ \A v \in Worlds : world'[v] = IF v = w THEN content ELSE world[v]
  BY <1>2, <1>3, <1>4
<1>6. \A v \in Worlds : /\ world[v].hash \in Nat /\ approved[v].hash \in Nat /\ approved[v].hash <= world[v].hash
                        /\ approved[v].hash = world[v].hash => approved[v] = world[v]
  BY <1>2 DEF MiningInv, WorldsInv, Contents
<1>7. WorldsInv'
  <2>1. \A v \in Worlds : /\ approved[v].hash <= world'[v].hash
                          /\ approved[v].hash = world'[v].hash => approved[v] = world'[v]
    BY <1>3, <1>5, <1>6
  <2> QED
    BY <1>2, <1>5, <2>1 DEF WorldsInv
<1>8. CasesInv'
  <2>1. SUFFICES ASSUME NEW cs \in {cases, known}, NEW o \in DOMAIN cs, NEW v \in cs[o].worlds
                 PROVE  /\ cs[o].hashes[v] <= world'[v].hash
                        /\ world'[v].hash = cs[o].hashes[v] => cs[o].capability \in world'[v].covers
    BY <1>4 DEF MiningInv, CasesInv, Maps
  <2>2. /\ v \in Worlds /\ cs[o].hashes[v] \in Nat /\ cs[o].hashes[v] <= world[v].hash
        /\ world[v].hash = cs[o].hashes[v] => cs[o].capability \in world[v].covers
    BY <2>1 DEF MiningInv, CasesInv, Maps
  <2> QED
    BY <1>2, <1>3, <1>5, <1>6, <2>2
<1> QED
  BY <1>7, <1>8

LEMMA MineKeepsCases ==
  ASSUME MiningInv, NEW s \in Sessions, NEW around, Mine(s, around), approved' = approved, known' = known
  PROVE  CasesInv'
<1> DEFINE gap == verification[s]
           occurrence == <<s, gap.id>>
           capability == Classify(gap.says, around)
           mapped == Matching(world, capability)
           case == [key |-> Key(gap), capability |-> capability, worlds |-> mapped,
                    hashes |-> [w \in mapped |-> world[w].hash]]
<1>1. /\ gap # NoGap /\ world' = world
      /\ cases' = [o \in DOMAIN cases \cup {occurrence} |-> IF o # occurrence THEN cases[o] ELSE case]
  BY DEF Mine
<1>2. occurrence \in Occurrences
  BY <1>1 DEF MiningInv, GapsInv, Occurrences
<1>3. /\ mapped \subseteq Worlds /\ \A w \in mapped : capability \in world[w].covers
  BY DEF Matching
<1>4. case.worlds = mapped /\ case.capability = capability
      /\ \A w \in mapped : case.hashes[w] = world[w].hash
  OBVIOUS
<1> HIDE DEF mapped, capability, case
<1>5. \A w \in mapped : /\ case.hashes[w] \in Nat /\ case.hashes[w] <= world[w].hash
  BY <1>3, <1>4 DEF MiningInv, WorldsInv, Contents
<1>6. Maps(case, world) /\ Maps(case, approved)
  BY <1>3, <1>4 DEF Maps, MiningInv, WorldsInv
<1>7. DOMAIN cases' \subseteq Occurrences
  BY <1>1, <1>2 DEF MiningInv, CasesInv
<1>8. \A o \in DOMAIN cases' : (o = occurrence /\ cases'[o] = case) \/ (o \in DOMAIN cases /\ cases'[o] = cases[o])
  BY <1>1
<1>9. \A o \in DOMAIN cases' :
        /\ cases'[o].worlds \subseteq Worlds
        /\ \A w \in cases'[o].worlds : cases'[o].hashes[w] \in Nat /\ cases'[o].hashes[w] <= world[w].hash
        /\ Maps(cases'[o], world) /\ Maps(cases'[o], approved)
  BY <1>3, <1>4, <1>5, <1>6, <1>8 DEF MiningInv, CasesInv
<1> DEFINE Fits(cs) == /\ DOMAIN cs \subseteq Occurrences
                       /\ \A o \in DOMAIN cs :
                            /\ cs[o].worlds \subseteq Worlds
                            /\ \A w \in cs[o].worlds : cs[o].hashes[w] \in Nat /\ cs[o].hashes[w] <= world[w].hash
                            /\ Maps(cs[o], world) /\ Maps(cs[o], approved)
<1>10. Fits(cases')
  BY <1>7, <1>9
<1>11. Fits(known)
  BY DEF MiningInv, CasesInv
<1> HIDE DEF Fits
<1>12. \A cs \in {cases', known'} : Fits(cs)
  BY <1>10, <1>11
<1>13. world' = world /\ approved' = approved
  BY <1>1
<1>14. \A cs \in {cases', known'} :
         /\ DOMAIN cs \subseteq Occurrences
         /\ \A o \in DOMAIN cs :
              /\ cs[o].worlds \subseteq Worlds
              /\ \A w \in cs[o].worlds : cs[o].hashes[w] \in Nat /\ cs[o].hashes[w] <= world'[w].hash
              /\ Maps(cs[o], world') /\ Maps(cs[o], approved')
  BY <1>12, <1>13 DEF Fits
<1> QED
  BY <1>14 DEF CasesInv, Maps

LEMMA OutsideKeepsMining ==
  ASSUME MiningInv, Outside
  PROVE  MiningInv'
<1>1. approved' = approved /\ known' = known
  BY DEF Outside, cycleVars
<1>2. CASE \E s \in Sessions, e \in Evidence \cup {NoEvidence}, says \in Says : Verify(s, e, says)
  <2>1. GapsInv' /\ UNCHANGED <<world, ledger, cases>>
    BY <1>2, VerifyKeepsGaps DEF Verify
  <2> QED
    BY <1>1, <2>1 DEF MiningInv, WorldsInv, CasesInv, Maps, RowsInv
<1>3. CASE \E s \in Sessions : Record(s)
  <2>1. RowsInv' /\ UNCHANGED <<world, verification, gaps, cases>>
    BY <1>3, RecordKeepsRows DEF Record
  <2> QED
    BY <1>1, <2>1 DEF MiningInv, WorldsInv, CasesInv, Maps, GapsInv
<1>4. CASE \E s \in Sessions, around \in Around : Mine(s, around)
  <2>1. CasesInv' /\ UNCHANGED <<world, verification, gaps, ledger>>
    BY <1>1, <1>4, MineKeepsCases DEF Mine
  <2> QED
    BY <1>1, <2>1 DEF MiningInv, WorldsInv, RowsInv, GapsInv
<1>5. CASE \E i \in DOMAIN ledger, to \in {"OPEN", "CLOSED"} : Settle(i, to)
  <2>1. RowsInv' /\ UNCHANGED <<world, verification, gaps, cases>>
    BY <1>5, SettleKeepsRows DEF Settle
  <2> QED
    BY <1>1, <2>1 DEF MiningInv, WorldsInv, CasesInv, Maps, GapsInv
<1>6. CASE \E w \in Worlds, covers \in Covers : Revise(w, covers)
  <2>1. WorldsInv' /\ CasesInv' /\ UNCHANGED <<verification, gaps, ledger>>
    BY <1>1, <1>6, ReviseKeepsWorlds DEF Revise
  <2> QED
    BY <2>1 DEF MiningInv, RowsInv, GapsInv
<1> QED
  BY <1>2, <1>3, <1>4, <1>5, <1>6 DEF Outside

\* Reading the worlds and then the cases takes what is there.
LEMMA LoadingKeepsMining ==
  ASSUME MiningInv, UNCHANGED miningVars, approved' \in {approved, world}, known' \in {known, cases}
  PROVE  MiningInv'
<1>1. UNCHANGED <<world, verification, gaps, ledger, cases>>
  BY DEF miningVars
<1>2. WorldsInv'
  BY <1>1 DEF MiningInv, WorldsInv, Contents
<1>3. CasesInv'
  BY <1>1 DEF MiningInv, CasesInv
<1> QED
  BY <1>1, <1>2, <1>3 DEF MiningInv, RowsInv, GapsInv

LEMMA MiningBegins ==
  ASSUME ExperimentInit
  PROVE  MiningInv
<1>1. /\ world = [w \in Worlds |-> [hash |-> 0, covers |-> Covered[w]]] /\ approved = world
      /\ verification = [s \in Sessions |-> NoGap] /\ gaps = 0 /\ ledger = <<>> /\ cases = <<>> /\ known = cases
  BY DEF ExperimentInit, MiningInit
<1>2. \A w \in Worlds : Covered[w] \in SUBSET ToSet(Taxonomy)
  BY MiningAssumption DEF MiningAssumption
<1>3. WorldsInv
  BY <1>1, <1>2 DEF WorldsInv, Contents
<1>4. CasesInv
  BY <1>1 DEF CasesInv
<1>5. NoGap \in [id : Nat, evidence : Evidence \cup {NoEvidence}, says : Says \cup {{}}]
  BY DEF NoGap
<1>6. GapsInv
  BY <1>1, <1>5 DEF GapsInv
<1>7. RowsInv
  BY <1>1 DEF RowsInv
<1> QED
  BY <1>3, <1>4, <1>6, <1>7 DEF MiningInv

-----------------------------------------------------------------------------
(* The selection.                                                           *)

LEMMA FirstIsOneOfThem ==
  ASSUME NEW worlds, worlds \subseteq Worlds, worlds # {}
  PROVE  First(worlds) \in worlds
<1> DEFINE P == {i \in DOMAIN Manifest : Manifest[i] \in worlds}
           IsFirst(i) == Manifest[i] \in worlds /\ \A j \in 1 .. i - 1 : Manifest[j] \notin worlds
<1>1. DOMAIN Manifest = 1 .. Cardinality(Worlds) /\ Cardinality(Worlds) \in Nat /\ ToSet(Manifest) = Worlds
  BY SetsHaveSequences, MiningAssumption DEF MiningAssumption, Manifest
<1>2. P \subseteq Nat /\ P # {}
  BY <1>1 DEF ToSet
<1>3. PICK n \in P : \A m \in P : n <= m
  <2> HIDE DEF P
  <2> QED
    BY <1>2, SmallestExists
<1>4. n \in DOMAIN Manifest /\ IsFirst(n)
  BY <1>1, <1>3
<1>5. First(worlds) = Manifest[CHOOSE i \in DOMAIN Manifest : IsFirst(i)]
  BY DEF First
<1> QED
  BY <1>4, <1>5

Chosen == [world : Worlds, row : Rows, trigger : Sessions \X Nat]

\* The clause of TargetsAreWarranted on the capability.
Called(target, row, trigger) ==
  \E capability \in ToSet(Taxonomy) :
    /\ capability \in approved[target].covers
    /\ IF trigger \in DOMAIN known
       THEN trigger[1] = row.session /\ known[trigger].capability = capability
       ELSE capability = Classify(row.says, {})

Distinct(sequence) ==
  \A i, j \in DOMAIN sequence : i # j => sequence[i].world # sequence[j].world /\ sequence[i].row # sequence[j].row

Selection(sequence) ==
  /\ sequence \in Seq(Chosen) /\ Distinct(sequence)
  /\ \A i \in DOMAIN sequence :
       sequence[i].row.status = "OPEN" /\ Called(sequence[i].world, sequence[i].row, sequence[i].trigger)

LEMMA CandidatesAreCalled ==
  ASSUME MiningInv, NEW byKey \in Indexes(known), NEW row \in Rows,
         NEW w \in Candidates(row, known, byKey, approved)
  PROVE  w \in Worlds /\ Trigger(row, byKey) \in Sessions \X Nat /\ Called(w, row, Trigger(row, byKey))
<1> DEFINE k == <<row.session, row.key>>
<1>1. DOMAIN known \subseteq Occurrences /\ row.session \in Sessions
  BY DEF MiningInv, CasesInv, Rows
<1>2. \A o \in DOMAIN known : known[o].worlds \subseteq Worlds /\ Maps(known[o], approved)
  BY DEF MiningInv, CasesInv
<1>3. \A v \in Worlds : approved[v].covers \subseteq ToSet(Taxonomy)
  BY DEF MiningInv, WorldsInv, Contents
<1>4. CASE k \in DOMAIN byKey
  <2> DEFINE o == byKey[k]
  <2>1. o \in DOMAIN known /\ o[1] = row.session
    BY <1>4 DEF Indexes
  <2>2. Trigger(row, byKey) = o
    BY <1>4 DEF Trigger
  <2>3. w \in known[o].worlds /\ approved[w].hash = known[o].hashes[w]
    BY <1>4 DEF Candidates, Current
  <2> HIDE DEF o
  <2>4. w \in Worlds /\ known[o].capability \in approved[w].covers
    BY <1>2, <2>1, <2>3 DEF Maps
  <2>5. known[o].capability \in ToSet(Taxonomy)
    BY <1>3, <2>4
  <2>6. Called(w, row, o)
    BY <2>1, <2>4, <2>5 DEF Called
  <2>7. o \in Sessions \X Nat
    BY <1>1, <2>1 DEF Occurrences
  <2> QED
    BY <2>2, <2>4, <2>6, <2>7
<1>5. CASE k \notin DOMAIN byKey
  <2> DEFINE capability == Classify(row.says, {})
             trigger == <<row.session, 0>>
  <2>1. Trigger(row, byKey) = trigger
    BY <1>5 DEF Trigger, NoGap
  <2>2. w \in Worlds /\ capability \in approved[w].covers
    BY <1>5 DEF Candidates, Matching
  <2>3. trigger \notin DOMAIN known /\ trigger \in Sessions \X Nat
    BY <1>1 DEF Occurrences
  <2> HIDE DEF capability, trigger
  <2>4. capability \in ToSet(Taxonomy)
    BY <1>3, <2>2
  <2>5. Called(w, row, trigger)
    BY <2>2, <2>3, <2>4 DEF Called, capability
  <2> QED
    BY <2>1, <2>2, <2>3, <2>5
<1> QED
  BY <1>4, <1>5

LEMMA ChoosingKeepsTheSelection ==
  ASSUME MiningInv, NEW byKey \in Indexes(known), NEW sequence, Selection(sequence), NEW row \in Rows,
         \A i \in DOMAIN sequence : sequence[i].row # row
  PROVE  /\ Selection(Choose(sequence, row, known, byKey, approved))
         /\ \A i \in DOMAIN Choose(sequence, row, known, byKey, approved) :
              LET r == Choose(sequence, row, known, byKey, approved)[i].row IN
                r = row \/ \E j \in DOMAIN sequence : r = sequence[j].row
<1> DEFINE after == Choose(sequence, row, known, byKey, approved)
           free == Candidates(row, known, byKey, approved) \ {sequence[i].world : i \in DOMAIN sequence}
           new == [world |-> First(free), row |-> row, trigger |-> Trigger(row, byKey)]
           n == Len(sequence) + 1
<1>1. CASE after = sequence
  BY <1>1
<1>2. CASE after # sequence
  <2>1. row.status = "OPEN" /\ free # {} /\ after = Append(sequence, new)
    BY <1>2 DEF Choose
  <2>2. free \subseteq Worlds
    BY CandidatesAreCalled
  <2>3. First(free) \in free
    BY <2>1, <2>2, FirstIsOneOfThem
  <2>4. /\ First(free) \in Worlds /\ Trigger(row, byKey) \in Sessions \X Nat
        /\ Called(First(free), row, Trigger(row, byKey))
    BY <2>3, CandidatesAreCalled
  <2>5. new \in Chosen /\ new.row = row /\ Called(new.world, new.row, new.trigger)
    BY <2>4 DEF Chosen
  <2>6. \A i \in DOMAIN sequence : sequence[i].world # new.world
    BY <2>3
  <2>7. sequence \in Seq(Chosen)
    BY DEF Selection
  <2> HIDE DEF new, after, free
  <2>8. /\ after \in Seq(Chosen) /\ DOMAIN after = 1 .. n /\ after[n] = new
        /\ \A i \in 1 .. n : i = n \/ (i \in DOMAIN sequence /\ after[i] = sequence[i])
    BY <2>1, <2>5, <2>7
  <2>9. Distinct(after)
    BY <2>5, <2>6, <2>8 DEF Selection, Distinct
  <2>10. \A i \in DOMAIN after : after[i].row.status = "OPEN" /\ Called(after[i].world, after[i].row, after[i].trigger)
    BY <2>1, <2>5, <2>8 DEF Selection
  <2>11. \A i \in DOMAIN after : after[i].row = row \/ \E j \in DOMAIN sequence : after[i].row = sequence[j].row
    BY <2>5, <2>8
  <2> QED
    BY <2>8, <2>9, <2>10, <2>11 DEF Selection, after
<1> QED
  BY <1>1, <1>2

LEMMA SelectSelects ==
  ASSUME MiningInv, NEW byKey \in Indexes(known)
  PROVE  Selection(Select(ledger, known, byKey, approved))
<1> DEFINE k == Len(ledger)
           f == Selections(ledger, known, byKey, approved)
           Taken(n) == \A i \in DOMAIN f[n] : \E m \in 1 .. n : f[n][i].row = ledger[m]
           S == {n \in 0 .. k : Selection(f[n]) /\ Taken(n)}
<1>1. ledger \in Seq(Rows) /\ k \in Nat /\ DOMAIN ledger = 1 .. k
  BY DEF MiningInv, RowsInv
<1>2. /\ f[0] = <<>>
      /\ \A n \in 1 .. k : f[n] = Choose(f[n - 1], ledger[n], known, byKey, approved)
  BY <1>1, SelectionsAreDefined
<1> HIDE DEF f
<1>3. 0 \in S
  <2>1. Selection(<<>>)
    BY DEF Selection, Distinct
  <2> QED
    BY <1>1, <1>2, <2>1
<1>4. ASSUME NEW n \in 0 .. k, n \in S, n # k
      PROVE  n + 1 \in S
  <2> DEFINE row == ledger[n + 1]
  <2>1. n + 1 \in 1 .. k /\ n + 1 \in DOMAIN ledger /\ n + 1 \in 0 .. k /\ row \in Rows
    <3>1. k \in Nat /\ DOMAIN ledger = 1 .. k
      BY <1>1
    <3> HIDE DEF k, S
    <3>2. n + 1 \in 1 .. k /\ n + 1 \in 0 .. k
      BY <1>4, <3>1
    <3>3. row \in Rows
      BY <1>1, <3>1, <3>2
    <3> QED
      BY <3>1, <3>2, <3>3
  <2>2. f[n + 1] = Choose(f[n], row, known, byKey, approved)
    BY <1>2, <2>1
  <2>3. \A m \in 1 .. n : ledger[m] # row
    <3>1. SUFFICES ASSUME NEW m \in 1 .. n, ledger[m] = row PROVE FALSE
      OBVIOUS
    <3>2. m \in DOMAIN ledger /\ m # n + 1
      BY <1>1, <2>1
    <3> QED
      BY <2>1, <3>1, <3>2 DEF MiningInv, RowsInv
  <2>4. Selection(f[n]) /\ Taken(n)
    BY <1>4
  <2>5. \A i \in DOMAIN f[n] : f[n][i].row # row
    BY <2>3, <2>4
  <2> HIDE DEF row
  <2>6. /\ Selection(f[n + 1])
        /\ \A i \in DOMAIN f[n + 1] : f[n + 1][i].row = row \/ \E j \in DOMAIN f[n] : f[n + 1][i].row = f[n][j].row
    BY <2>1, <2>2, <2>4, <2>5, ChoosingKeepsTheSelection
  <2>7. Taken(n + 1)
    <3>1. SUFFICES ASSUME NEW i \in DOMAIN f[n + 1] PROVE \E m \in 1 .. n + 1 : f[n + 1][i].row = ledger[m]
      OBVIOUS
    <3>2. CASE f[n + 1][i].row = row
      BY <2>1, <3>2 DEF row
    <3>3. CASE \E j \in DOMAIN f[n] : f[n + 1][i].row = f[n][j].row
      <4>1. PICK j \in DOMAIN f[n] : f[n + 1][i].row = f[n][j].row
        BY <3>3
      <4>2. PICK m \in 1 .. n : f[n][j].row = ledger[m]
        BY <2>4
      <4>3. m \in 1 .. n + 1
        OBVIOUS
      <4> QED
        BY <4>1, <4>2, <4>3
    <3> QED
      BY <2>6, <3>2, <3>3
  <2> QED
    BY <2>1, <2>6, <2>7
<1>5. k \in S
  <2>1. 0 .. k \subseteq S
    BY <1>1, <1>3, <1>4, IntervalInduction
  <2> QED
    BY <1>1, <2>1
<1> QED
  BY <1>5 DEF Select, f

-----------------------------------------------------------------------------
(* The targets stay what they were selected as.                             *)

Reading == {"worlds", "cases", "rows"}
Phases == Reading \cup {"baseline", "candidate", "done"}

\* Once the inputs have been read, neither they nor the selection change.
ChosenInv == phase \in Phases /\ Selection(chosen) /\ (phase \in Reading => chosen = <<>>)

SelectionInv == MiningInv /\ ChosenInv

LEMMA NothingSelected == Selection(<<>>)
  BY DEF Selection, Distinct

LEMMA SelectionBegins == ExperimentInit => SelectionInv
<1> SUFFICES ASSUME ExperimentInit PROVE SelectionInv
  OBVIOUS
<1>1. phase = "worlds" /\ chosen = <<>>
  BY DEF ExperimentInit
<1> QED
  BY <1>1, MiningBegins, NothingSelected DEF SelectionInv, ChosenInv, Phases, Reading

LEMMA SelectionStays ==
  ASSUME Selection(chosen), UNCHANGED <<approved, known, chosen>>
  PROVE  Selection(chosen)'
<1>1. approved' = approved /\ known' = known /\ chosen' = chosen
  OBVIOUS
<1> QED
  BY <1>1 DEF Selection, Called, Distinct

LEMMA SelectionContinues ==
  SelectionInv /\ [ExperimentNext]_experimentVars => SelectionInv'
<1> SUFFICES ASSUME SelectionInv, [ExperimentNext]_experimentVars PROVE SelectionInv'
  OBVIOUS
<1> USE DEF SelectionInv
<1>1. CASE Outside
  <2>1. UNCHANGED <<phase, approved, known, chosen>>
    BY <1>1 DEF Outside, cycleVars
  <2> QED
    BY <1>1, <2>1, OutsideKeepsMining, SelectionStays DEF ChosenInv
<1>2. CASE LoadWorlds
  <2>1. MiningInv'
    BY <1>2, LoadingKeepsMining DEF LoadWorlds
  <2>2. phase' = "cases" /\ chosen' = <<>>
    BY <1>2 DEF LoadWorlds, ChosenInv, Reading
  <2>3. Selection(chosen)'
    BY <2>2 DEF Selection, Distinct
  <2> QED
    BY <2>1, <2>2, <2>3 DEF ChosenInv, Phases, Reading
<1>3. CASE LoadCases
  <2>1. MiningInv'
    BY <1>3, LoadingKeepsMining DEF LoadCases
  <2>2. phase' = "rows" /\ chosen' = <<>>
    BY <1>3 DEF LoadCases, ChosenInv, Reading
  <2>3. Selection(chosen)'
    BY <2>2 DEF Selection, Distinct
  <2> QED
    BY <2>1, <2>2, <2>3 DEF ChosenInv, Phases, Reading
<1>4. CASE \E byKey \in Indexes(known), guards \in SUBSET BOOLEAN : LoadRows(byKey, guards)
  <2>1. PICK byKey \in Indexes(known), guards \in SUBSET BOOLEAN : LoadRows(byKey, guards)
    BY <1>4
  <2>2. MiningInv'
    BY <2>1, LoadingKeepsMining DEF LoadRows
  <2>3. /\ phase' \in {"baseline", "done"} /\ approved' = approved /\ known' = known
        /\ chosen' = Select(ledger, known, byKey, approved)
    BY <2>1 DEF LoadRows, Finish
  <2>4. Selection(chosen')
    BY <2>3, SelectSelects
  <2>5. Selection(chosen)'
    BY <2>3, <2>4 DEF Selection, Called, Distinct
  <2> QED
    BY <2>2, <2>3, <2>5 DEF ChosenInv, Phases, Reading
<1>5. CASE \/ phase \in {"baseline", "candidate"} /\ \E run \in RunsOf[NextWorld] : RunWorld(run)
           \/ \E patch \in Patches : Generate(patch)
           \/ Decide
  <2>1. /\ UNCHANGED <<miningVars, approved, known, chosen>> /\ phase \in {"baseline", "candidate"}
        /\ phase' \in {"baseline", "candidate", "done"}
    BY <1>5 DEF RunWorld, Generate, Decide, Finish
  <2>2. MiningInv'
    BY <2>1, LoadingKeepsMining
  <2> QED
    BY <2>1, <2>2, SelectionStays DEF ChosenInv, Phases, Reading
<1>6. CASE UNCHANGED experimentVars
  <2>1. UNCHANGED <<miningVars, phase, approved, known, chosen>>
    BY <1>6 DEF experimentVars, cycleVars
  <2> QED
    BY <2>1, LoadingKeepsMining, SelectionStays DEF ChosenInv
<1> QED
  BY <1>1, <1>2, <1>3, <1>4, <1>5, <1>6 DEF ExperimentNext

LEMMA TargetsAreCounted ==
  ASSUME ChosenInv
  PROVE  /\ Cardinality(Targets) = Len(chosen) /\ IsFiniteSet(Targets) /\ Targets \subseteq Worlds
         /\ Len(chosen) \in Nat /\ DOMAIN chosen = 1 .. Len(chosen)
<1> DEFINE n == Len(chosen)
           f == [i \in 1 .. n |-> chosen[i].world]
<1>1. chosen \in Seq(Chosen) /\ Distinct(chosen)
  BY DEF ChosenInv, Selection
<1>2. n \in Nat /\ DOMAIN chosen = 1 .. n /\ \A i \in 1 .. n : chosen[i].world \in Worlds
  <2>1. n \in Nat /\ DOMAIN chosen = 1 .. n /\ \A i \in 1 .. n : chosen[i] \in Chosen
    BY <1>1
  <2> QED
    BY <2>1 DEF Chosen
<1>3. \A i, j \in 1 .. n : f[i] = f[j] => i = j
  BY <1>1, <1>2 DEF Distinct
<1>4. f \in Surjection(1 .. n, Targets)
  BY <1>2 DEF Surjection, Targets
<1>5. f \in Injection(1 .. n, Targets)
  BY <1>3, <1>4 DEF Injection, IsInjective, Surjection
<1>6. IsFiniteSet(1 .. n) /\ Cardinality(1 .. n) = n
  BY <1>2, FS_Interval
<1>7. IsFiniteSet(Targets) /\ Cardinality(Targets) = n
  BY <1>4, <1>5, <1>6, FS_Surjection
<1>8. Targets \subseteq Worlds
  BY <1>2 DEF Targets
<1> QED
  BY <1>2, <1>7, <1>8

LEMMA SelectionsAreWarranted == SelectionInv => TargetsAreWarranted
<1> SUFFICES ASSUME SelectionInv PROVE TargetsAreWarranted
  OBVIOUS
<1>1. Selection(chosen) /\ Distinct(chosen) /\ Cardinality(Targets) = Len(chosen) /\ DOMAIN chosen = 1 .. Len(chosen)
  BY TargetsAreCounted DEF SelectionInv, ChosenInv, Selection
<1>2. Len(chosen) \in Nat
  BY TargetsAreCounted DEF SelectionInv
<1>3. \A i \in DOMAIN chosen : \A j \in 1 .. i - 1 : chosen[j].row # chosen[i].row
  <2>1. SUFFICES ASSUME NEW i \in DOMAIN chosen, NEW j \in 1 .. i - 1 PROVE chosen[j].row # chosen[i].row
    OBVIOUS
  <2>2. j \in DOMAIN chosen /\ j # i
    BY <1>1, <1>2
  <2> QED
    BY <1>1, <2>2 DEF Distinct
<1>4. \A i \in DOMAIN chosen :
        chosen[i].row.status = "OPEN" /\ Called(chosen[i].world, chosen[i].row, chosen[i].trigger)
  BY <1>1 DEF Selection
<1> QED
  BY <1>1, <1>3, <1>4 DEF TargetsAreWarranted, Called

\* The targets of an experiment stand for OPEN gaps, one each, and cover at the content
\* they are tested with what these gaps were classified by, whatever the sessions, the
\* ledger and the reviewer do while the inputs are read: a case holds the hash of every
\* world it maps to, the hash of a world only grows, and no session has two rows for an
\* evidence.
THEOREM TargetsStandForGaps == ExperimentSpec => []TargetsAreWarranted
<1>1. ExperimentSpec => []SelectionInv
  BY SelectionBegins, SelectionContinues, PTL DEF ExperimentSpec
<1> QED
  BY <1>1, SelectionsAreWarranted, PTL

-----------------------------------------------------------------------------
(* What the score of a run counts is what the run has shown.                *)

LEMMA FindingsAreFinite == IsFiniteSet(Findings)
<1> DEFINE S == (Facts \X BOOLEAN) \X BOOLEAN
           T == [of : Facts, exact : BOOLEAN, reversed : BOOLEAN]
           f == [p \in S |-> [of |-> p[1][1], exact |-> p[1][2], reversed |-> p[2]]]
<1>1. IsFiniteSet(BOOLEAN)
  <2>1. BOOLEAN = ({} \cup {TRUE}) \cup {FALSE}
    OBVIOUS
  <2>2. IsFiniteSet({} \cup {TRUE})
    BY FS_EmptySet, FS_AddElement
  <2> QED
    BY <2>1, <2>2, FS_AddElement
<1>2. IsFiniteSet(S)
  BY <1>1, FS_Product, ExperimentAssumption DEF ExperimentAssumption
<1>3. f \in Surjection(S, T)
  <2>1. f \in [S -> T]
    OBVIOUS
  <2>2. ASSUME NEW x \in T PROVE \E p \in S : f[p] = x
    <3>1. <<<<x.of, x.exact>>, x.reversed>> \in S
      OBVIOUS
    <3>2. f[<<<<x.of, x.exact>>, x.reversed>>] = x
      BY <3>1
    <3> QED
      BY <3>1, <3>2
  <2> HIDE DEF f, S, T
  <2> QED
    BY <2>1, <2>2 DEF Surjection
<1>4. IsFiniteSet(T)
  BY <1>2, <1>3, FS_Surjection
<1> QED
  BY <1>4, FS_Subset DEF Findings

LEMMA RunsAreRuns ==
  ASSUME NEW w \in Worlds, NEW run \in RunsOf[w]
  PROVE  /\ run.world = w /\ run.submitted \subseteq Findings
         /\ \A x \in run.verified : x.of \in run.research /\ x.of \in run.verifier
<1>1. run \in CompleteRuns(w) \/ run \in OtherRuns(w)
  BY DEF RunsOf
<1>2. CASE run \in CompleteRuns(w)
  <2>1. /\ run.world = w /\ run.submitted \in UNION {kSubset(k, Findings) : k \in 0 .. MaxFindings}
        /\ \A x \in run.verified : x \in Kept(run) /\ x.of \in run.verifier
    BY <1>2 DEF CompleteRuns
  <2>2. run.submitted \subseteq Findings
    BY <2>1 DEF kSubset
  <2> QED
    BY <2>1, <2>2 DEF Kept
<1>3. CASE run \in OtherRuns(w)
  BY <1>3 DEF OtherRuns
<1> QED
  BY <1>1, <1>2, <1>3

LEMMA UnsupportedIsClaimed ==
  ASSUME NEW w \in Worlds, NEW run \in RunsOf[w]
  PROVE  Unsupported(run) = Claimed(run) /\ Claimed(run) \in Nat
<1> DEFINE S == run.submitted
           T == {x \in S : x.exact /\ x \in run.verified}
           U == {x \in S : ~ Supported(run, x)}
<1>1. S \subseteq Findings /\ \A x \in run.verified : x.of \in run.research /\ x.of \in run.verifier
  BY RunsAreRuns
<1>2. IsFiniteSet(S)
  BY <1>1, FindingsAreFinite, FS_Subset
<1>3. U = S \ T
  BY <1>1 DEF Supported
<1>4. S \cap T = T
  OBVIOUS
<1>5. IsFiniteSet(S \ T) /\ Cardinality(S \ T) = Cardinality(S) - Cardinality(T)
  BY <1>2, <1>4, FS_Difference
<1>6. Cardinality(U) \in Nat
  BY <1>3, <1>5, FS_CardinalityType
<1> QED
  BY <1>3, <1>5, <1>6 DEF Unsupported, Claimed

LEMMA RecalledIsProven ==
  ASSUME NEW w \in Worlds, NEW run \in RunsOf[w]
  PROVE  Recalled(run) = Proven(run) /\ Cardinality(Proven(run)) \in Nat
<1>1. run.submitted \subseteq Findings /\ \A x \in run.verified : x.of \in run.research /\ x.of \in run.verifier
  BY RunsAreRuns
<1>2. \A x \in run.submitted : x.of \in Facts
  BY <1>1 DEF Findings
<1>3. \A f : f \in Recalled(run) <=> f \in Proven(run)
  BY <1>1, <1>2 DEF Recalled, Proven, Supported
<1>4. Proven(run) \subseteq Facts
  BY DEF Proven
<1>5. IsFiniteSet(Proven(run))
  BY <1>4, FS_Subset, ExperimentAssumption DEF ExperimentAssumption
<1> QED
  BY <1>3, <1>5, FS_CardinalityType

LEMMA ScoresAreProofs ==
  ASSUME NEW w \in Worlds, NEW run \in RunsOf[w]
  PROVE  /\ Score(run)["recall"] = Cardinality(Proven(run)) /\ Score(run)["recall"] \in Nat
         /\ Score(run)["unsupported"] = Claimed(run) /\ Score(run)["unsupported"] \in Nat
         /\ Score(run)["contradiction"] = Bit(w \in Disputed => Facts \subseteq Interpreted(run) /\ run.surfaces)
         /\ Score(run)["withholding"] = Bit(w \in Withholding => run.withholds /\ Claimed(run) = 0 /\ Errors(run) = 0)
  BY UnsupportedIsClaimed, RecalledIsProven, RunsAreRuns DEF Score

LEMMA UnvetoedIsModest ==
  ASSUME NEW w \in Worlds, NEW base \in RunsOf[w], NEW cand \in RunsOf[w], ~ Vetoed(base, cand)
  PROVE  Modest(base, cand) /\ (w \in Guards => Guarded(base, cand))
<1>1. base.world = w
  BY RunsAreRuns
<1>2. Score(cand).unsupported <= Score(base).unsupported
  BY DEF Vetoed, NoMoreErrors
<1>3. w \in Guards => Score(cand)["recall"] >= Score(base)["recall"]
  BY <1>1 DEF Vetoed, NoWorse, GuardDimensions, CapabilityDimensions
<1>4. Modest(base, cand)
  BY <1>2, ScoresAreProofs DEF Modest
<1>5. w \in Guards => Guarded(base, cand)
  BY <1>3, ScoresAreProofs DEF Guarded
<1> QED
  BY <1>4, <1>5

LEMMA ImprovementIsEarned ==
  ASSUME NEW w \in Worlds, NEW base \in RunsOf[w], NEW cand \in RunsOf[w], Improves(Score(base), Score(cand))
  PROVE  Earned(base, cand)
<1>1. PICK d \in CapabilityDimensions : Score(cand)[d] > Score(base)[d]
  BY DEF Improves
<1>2. cand.world = w
  BY RunsAreRuns
<1>3. CASE d = "recall"
  BY <1>1, <1>3, ScoresAreProofs DEF Earned
<1>4. CASE d = "contradiction"
  <2> DEFINE Good(run) == w \in Disputed => Facts \subseteq Interpreted(run) /\ run.surfaces
  <2>1. Bit(Good(cand)) > Bit(Good(base))
    BY <1>1, <1>4, ScoresAreProofs
  <2>2. ~ Good(base) /\ Good(cand)
    <3> HIDE DEF Good
    <3> QED
      BY <2>1 DEF Bit
  <2> QED
    BY <1>2, <2>2 DEF Earned
<1>5. CASE d = "withholding"
  <2> DEFINE Good(run) == w \in Withholding => run.withholds /\ Claimed(run) = 0 /\ Errors(run) = 0
  <2>1. Bit(Good(cand)) > Bit(Good(base))
    BY <1>1, <1>5, ScoresAreProofs
  <2>2. ~ Good(base) /\ Good(cand)
    <3> HIDE DEF Good
    <3> QED
      BY <2>1 DEF Bit
  <2> QED
    BY <1>2, <2>2 DEF Earned
<1> QED
  BY <1>3, <1>4, <1>5 DEF CapabilityDimensions

-----------------------------------------------------------------------------
(* The runs of the two policies.                                            *)

AnyRun == UNION {RunsOf[w] : w \in Worlds}

\* In the order of the selection, which is run once by each of the two.
RunsInv ==
  /\ runs \in Seq(AnyRun) /\ Len(runs) <= 2 * Len(Selected)
  /\ phase \in Reading => runs = <<>>
  /\ \A i \in DOMAIN runs :
       runs[i] \in RunsOf[Selected[IF i <= Len(Selected) THEN i ELSE i - Len(Selected)]]
  /\ decision.promote => phase = "done"

PromotionInv == SelectionInv /\ RunsInv /\ PromotionsAreEarned

LEMMA SelectedWorlds ==
  ASSUME ChosenInv
  PROVE  /\ Len(Selected) \in Nat /\ Len(Selected) >= 1 /\ DOMAIN Selected = 1 .. Len(Selected)
         /\ \A i \in DOMAIN Selected : Selected[i] \in Worlds
         /\ ToSet(Selected) = Guards \cup Targets
<1> DEFINE s == SetToSeq(Guards)
           t == SetToSeq(Targets \ Guards)
           m == Cardinality(Guards)
           n == Cardinality(Targets \ Guards)
<1>1. Targets \subseteq Worlds /\ IsFiniteSet(Targets \ Guards)
  BY TargetsAreCounted, FS_Subset
<1>2. Guards \subseteq Worlds /\ Guards # {} /\ IsFiniteSet(Guards)
  BY FS_Subset, MiningAssumption DEF MiningAssumption
<1>3. s \in Seq(Guards) /\ Len(s) = m /\ m \in Nat /\ DOMAIN s = 1 .. m /\ ToSet(s) = Guards
  BY <1>2, SetsHaveSequences
<1>4. t \in Seq(Targets \ Guards) /\ Len(t) = n /\ n \in Nat /\ DOMAIN t = 1 .. n /\ ToSet(t) = Targets \ Guards
  BY <1>1, SetsHaveSequences
<1>5. m >= 1
  <2>1. m # 0
    BY <1>2, FS_EmptySet
  <2> QED
    BY <1>3, <2>1
<1> HIDE DEF s, t, m, n
<1>6. Selected = s \o t
  BY DEF Selected, s, t
<1>7. s \in Seq(Worlds) /\ t \in Seq(Worlds)
  BY <1>1, <1>2, <1>3, <1>4
<1>8. /\ Selected \in Seq(Worlds) /\ Len(Selected) = m + n /\ DOMAIN Selected = 1 .. m + n
      /\ \A i \in 1 .. m + n : Selected[i] = IF i <= m THEN s[i] ELSE t[i - m]
  <2>1. Len(s \o t) = m + n /\ s \o t \in Seq(Worlds)
    BY <1>3, <1>4, <1>7, ConcatProperties
  <2>2. \A i \in 1 .. m + n : (s \o t)[i] = IF i <= m THEN s[i] ELSE t[i - m]
    <3>1. \A i \in 1 .. Len(s) + Len(t) : (s \o t)[i] = IF i <= Len(s) THEN s[i] ELSE t[i - Len(s)]
      BY <1>7, ConcatProperties
    <3> QED
      BY <1>3, <1>4, <3>1
  <2>3. DOMAIN (s \o t) = 1 .. m + n
    BY <2>1
  <2> QED
    BY <1>6, <2>1, <2>2, <2>3
<1>9. ToSet(Selected) = Guards \cup Targets
  <2>1. ASSUME NEW w \in ToSet(Selected) PROVE w \in Guards \cup Targets
    <3>1. PICK i \in 1 .. m + n : Selected[i] = w
      BY <1>8 DEF ToSet
    <3>2. CASE i <= m
      <4>1. i \in DOMAIN s /\ s[i] = w
        BY <1>3, <1>4, <1>8, <3>1, <3>2
      <4> QED
        BY <1>3, <4>1 DEF ToSet
    <3>3. CASE ~ (i <= m)
      <4>1. i - m \in DOMAIN t /\ t[i - m] = w
        BY <1>3, <1>4, <1>8, <3>1, <3>3
      <4> QED
        BY <1>4, <4>1 DEF ToSet
    <3> QED
      BY <3>2, <3>3
  <2>2. ASSUME NEW w \in Guards PROVE w \in ToSet(Selected)
    <3>1. PICK i \in 1 .. m : s[i] = w
      BY <1>3 DEF ToSet
    <3>2. i \in 1 .. m + n /\ Selected[i] = w
      BY <1>3, <1>4, <1>8, <3>1
    <3> QED
      BY <1>8, <3>2 DEF ToSet
  <2>3. ASSUME NEW w \in Targets \ Guards PROVE w \in ToSet(Selected)
    <3>1. PICK i \in 1 .. n : t[i] = w
      BY <1>4 DEF ToSet
    <3>2. m + i \in 1 .. m + n /\ Selected[m + i] = w
      BY <1>3, <1>4, <1>8, <3>1
    <3> QED
      BY <1>8, <3>2 DEF ToSet
  <2> QED
    BY <2>1, <2>2, <2>3
<1>10. \A i \in DOMAIN Selected : Selected[i] \in Worlds
  BY <1>8
<1> QED
  BY <1>3, <1>4, <1>5, <1>8, <1>9, <1>10

LEMMA RemainderOfAnIndex ==
  ASSUME NEW n \in Nat, NEW k \in Nat, n >= 1, k < 2 * n
  PROVE  (k % n) + 1 = IF k + 1 <= n THEN k + 1 ELSE k + 1 - n
<1>1. CASE k < n
  <2>1. k % n = k
    BY <1>1
  <2> QED
    BY <1>1, <2>1
<1>2. CASE ~ (k < n)
  <2>1. k % n = k - n
    BY <1>2
  <2> QED
    BY <1>2, <2>1
<1> QED
  BY <1>1, <1>2

\* The run of a world by each of the two is found where Base and Cand look for it.
LEMMA RunsOfAWorld ==
  ASSUME SelectionInv, RunsInv, Len(runs) = 2 * Len(Selected), NEW w \in ToSet(Selected)
  PROVE  Base[w] \in RunsOf[w] /\ Cand[w] \in RunsOf[w]
<1> DEFINE n == Len(Selected)
           i == CHOOSE j \in 1 .. n : Selected[j] = w
<1>1. n \in Nat /\ n >= 1 /\ DOMAIN Selected = 1 .. n
  BY SelectedWorlds DEF SelectionInv
<1>2. \E j \in 1 .. n : Selected[j] = w
  BY <1>1 DEF ToSet
<1>3. i \in 1 .. n /\ Selected[i] = w
  BY <1>2
<1>4. Base[w] = runs[i] /\ Cand[w] = runs[n + i]
  BY DEF Base, Cand
<1> HIDE DEF i, n
<1>5. DOMAIN runs = 1 .. 2 * n
  <2>1. runs \in Seq(AnyRun) /\ Len(runs) = 2 * n
    BY DEF RunsInv, n
  <2> QED
    BY <2>1
<1>6. \A j \in DOMAIN runs : runs[j] \in RunsOf[Selected[IF j <= n THEN j ELSE j - n]]
  BY DEF RunsInv, n
<1>7. i \in DOMAIN runs /\ n + i \in DOMAIN runs /\ i <= n /\ ~ (n + i <= n) /\ n + i - n = i
  BY <1>1, <1>3, <1>5
<1>8. runs[i] \in RunsOf[Selected[i]] /\ runs[n + i] \in RunsOf[Selected[i]]
  <2>1. runs[i] \in RunsOf[Selected[i]]
    BY <1>6, <1>7
  <2>2. runs[n + i] \in RunsOf[Selected[i]]
    <3> DEFINE j == n + i
    <3>1. j \in DOMAIN runs /\ ~ (j <= n) /\ j - n = i
      BY <1>1, <1>3, <1>7
    <3> HIDE DEF j
    <3>2. runs[j] \in RunsOf[Selected[j - n]]
      BY <1>6, <3>1
    <3> QED
      BY <3>1, <3>2 DEF j
  <2> QED
    BY <2>1, <2>2
<1> QED
  BY <1>3, <1>4, <1>8

LEMMA PromotingIsEarned ==
  ASSUME SelectionInv, RunsInv, Len(runs) = 2 * Len(Selected), Promotes(Base, Cand, Targets)
  PROVE  /\ \A w \in ToSet(Selected) : Modest(Base[w], Cand[w])
         /\ \A g \in Guards : Guarded(Base[g], Cand[g])
         /\ \E t \in Targets : Earned(Base[t], Cand[t])
<1>1. ToSet(Selected) = Guards \cup Targets /\ ToSet(Selected) \subseteq Worlds
  BY SelectedWorlds DEF SelectionInv, ToSet
<1>2. DOMAIN Base = ToSet(Selected)
  BY DEF Base
<1>3. \A w \in ToSet(Selected) : w \in Worlds /\ Base[w] \in RunsOf[w] /\ Cand[w] \in RunsOf[w] /\ ~ Vetoed(Base[w], Cand[w])
  BY <1>1, <1>2, RunsOfAWorld DEF Promotes
<1>4. PICK t \in Targets : Improves(Score(Base[t]), Score(Cand[t]))
  BY DEF Promotes
<1>5. \A w \in ToSet(Selected) : Modest(Base[w], Cand[w]) /\ (w \in Guards => Guarded(Base[w], Cand[w]))
  BY <1>3, UnvetoedIsModest
<1>6. Earned(Base[t], Cand[t])
  BY <1>1, <1>3, <1>4, ImprovementIsEarned
<1> QED
  BY <1>1, <1>5, <1>6

LEMMA PromotionBegins == ExperimentInit => PromotionInv
<1> SUFFICES ASSUME ExperimentInit PROVE PromotionInv
  OBVIOUS
<1>1. runs = <<>> /\ decision.promote = FALSE
  BY DEF ExperimentInit, NoDecision
<1>2. SelectionInv
  BY SelectionBegins
<1>3. Len(Selected) \in Nat
  BY <1>2, SelectedWorlds DEF SelectionInv
<1> QED
  BY <1>1, <1>2, <1>3 DEF PromotionInv, RunsInv, PromotionsAreEarned

LEMMA RunningKeepsRuns ==
  ASSUME PromotionInv, phase \in {"baseline", "candidate"}, NEW run \in RunsOf[NextWorld], RunWorld(run)
  PROVE  RunsInv' /\ PromotionsAreEarned'
<1> DEFINE n == Len(Selected)
           k == Len(runs)
<1>1. n \in Nat /\ n >= 1 /\ DOMAIN Selected = 1 .. n /\ \A i \in 1 .. n : Selected[i] \in Worlds
  BY SelectedWorlds DEF PromotionInv, SelectionInv
<1>2. runs \in Seq(AnyRun) /\ k \in Nat /\ DOMAIN runs = 1 .. k
  BY DEF PromotionInv, RunsInv
<1>3. UNCHANGED <<phase, chosen, decision>> /\ k < 2 * n /\ runs' = Append(runs, run)
  BY <1>1 DEF RunWorld
<1>4. NextWorld = Selected[IF k + 1 <= n THEN k + 1 ELSE k + 1 - n]
  BY <1>1, <1>2, <1>3, RemainderOfAnIndex DEF NextWorld
<1>5. NextWorld \in Worlds
  <2>1. (IF k + 1 <= n THEN k + 1 ELSE k + 1 - n) \in 1 .. n
    BY <1>1, <1>2, <1>3
  <2> QED
    BY <1>1, <1>4, <2>1
<1>6. run \in AnyRun
  BY <1>5 DEF AnyRun
<1>7. runs' \in Seq(AnyRun) /\ Len(runs') = k + 1 /\ DOMAIN runs' = 1 .. k + 1
      /\ \A i \in 1 .. k + 1 : runs'[i] = IF i = k + 1 THEN run ELSE runs[i]
  BY <1>2, <1>3, <1>6
<1>8. Selected' = Selected
  BY <1>3 DEF Selected, Targets
<1>9. ~ decision.promote /\ ~ decision'.promote
  BY <1>3 DEF PromotionInv, RunsInv
<1>10. \A i \in DOMAIN runs' : runs'[i] \in RunsOf[Selected[IF i <= n THEN i ELSE i - n]]
  <2>1. \A i \in 1 .. k : runs[i] \in RunsOf[Selected[IF i <= n THEN i ELSE i - n]]
    BY <1>2 DEF PromotionInv, RunsInv
  <2>2. run \in RunsOf[Selected[IF k + 1 <= n THEN k + 1 ELSE k + 1 - n]]
    BY <1>4
  <2> HIDE DEF k, n
  <2>3. SUFFICES ASSUME NEW i \in 1 .. k + 1 PROVE runs'[i] \in RunsOf[Selected[IF i <= n THEN i ELSE i - n]]
    BY <1>7
  <2>4. CASE i = k + 1
    <3>1. runs'[i] = run
      BY <1>7, <2>4
    <3> QED
      BY <1>1, <1>2, <2>2, <2>4, <3>1
  <2>5. CASE i # k + 1
    <3>1. i \in 1 .. k /\ runs'[i] = runs[i]
      BY <1>2, <1>7, <2>5
    <3> QED
      BY <2>1, <3>1
  <2> QED
    BY <2>4, <2>5
<1>11. phase' \notin Reading
  BY <1>3 DEF Reading
<1>12. RunsInv'
  <2>1. Len(runs') <= 2 * n
    BY <1>1, <1>2, <1>3, <1>7
  <2> QED
    BY <1>7, <1>8, <1>9, <1>10, <1>11, <2>1 DEF RunsInv
<1> QED
  BY <1>9, <1>12 DEF PromotionsAreEarned

LEMMA RefusalsPromoteNothing ==
  ASSUME NEW to \in {"no_change", "rejected", "error"}, Finish(to)
  PROVE  phase' = "done" /\ ~ decision'.promote
<1>1. decision' = [status |-> to, promote |-> FALSE]
  <2>1. (to = "promoted") = FALSE
    OBVIOUS
  <2> QED
    BY <2>1 DEF Finish
<1>2. phase' = "done"
  BY DEF Finish
<1> QED
  BY <1>1, <1>2

\* Before the candidate has run on all of them, nothing is promoted.
LEMMA NoPromotion ==
  ASSUME PromotionInv, phase # "done", UNCHANGED runs,
         UNCHANGED chosen \/ (runs = <<>> /\ Len(Selected') \in Nat),
         phase' \in Reading => phase \in Reading,
         UNCHANGED decision \/ ~ decision'.promote
  PROVE  RunsInv' /\ PromotionsAreEarned'
<1>1. ~ decision'.promote
  BY DEF PromotionInv, RunsInv
<1>2. CASE UNCHANGED chosen
  <2>1. Selected' = Selected
    BY <1>2 DEF Selected, Targets
  <2> QED
    BY <1>1, <2>1 DEF PromotionInv, RunsInv, PromotionsAreEarned
<1>3. CASE runs = <<>> /\ Len(Selected') \in Nat
  BY <1>1, <1>3 DEF PromotionInv, RunsInv, PromotionsAreEarned
<1> QED
  BY <1>2, <1>3

LEMMA DecidingIsEarned ==
  ASSUME PromotionInv, Decide
  PROVE  RunsInv' /\ PromotionsAreEarned'
<1>1. UNCHANGED <<chosen, runs>> /\ phase' = "done" /\ Len(runs) = 2 * Len(Selected)
      /\ (decision'.promote => Promotes(Base, Cand, Targets))
  BY DEF Decide, Finish
<1>2. Selected' = Selected /\ Targets' = Targets
  BY <1>1 DEF Selected, Targets
<1>3. Base' = Base /\ Cand' = Cand
  BY <1>1, <1>2 DEF Base, Cand
<1>4. RunsInv'
  BY <1>1, <1>2 DEF PromotionInv, RunsInv, Reading
<1>5. decision'.promote =>
        /\ \A w \in ToSet(Selected) : Modest(Base[w], Cand[w])
        /\ \A g \in Guards : Guarded(Base[g], Cand[g])
        /\ \E t \in Targets : Earned(Base[t], Cand[t])
  BY <1>1, PromotingIsEarned DEF PromotionInv
<1>6. PromotionsAreEarned'
  <2>1. SUFFICES ASSUME decision'.promote
                 PROVE  /\ \A w \in ToSet(Selected)' : Modest(Base'[w], Cand'[w])
                        /\ \A g \in Guards : Guarded(Base'[g], Cand'[g])
                        /\ \E t \in Targets' : Earned(Base'[t], Cand'[t])
    BY DEF PromotionsAreEarned
  <2> QED
    BY <1>2, <1>3, <1>5, <2>1
<1> QED
  BY <1>4, <1>6

LEMMA PromotionContinues ==
  PromotionInv /\ [ExperimentNext]_experimentVars => PromotionInv'
<1> SUFFICES ASSUME PromotionInv, [ExperimentNext]_experimentVars PROVE PromotionInv'
  OBVIOUS
<1>1. SelectionInv'
  BY SelectionContinues DEF PromotionInv
<1>2. Len(Selected') \in Nat
  <2>1. (Len(Selected) \in Nat)'
    BY <1>1, SelectedWorlds, PTL DEF SelectionInv
  <2> QED
    BY <2>1
<1>3. runs = <<>> \/ phase \notin Reading
  BY DEF PromotionInv, RunsInv
<1>4. RunsInv' /\ PromotionsAreEarned'
  <2>1. CASE Outside
    <3>1. UNCHANGED <<phase, chosen, runs, decision>> /\ phase # "done"
      BY <2>1 DEF Outside, cycleVars
    <3> QED
      BY <3>1, NoPromotion
  <2>2. CASE LoadWorlds
    <3>1. UNCHANGED <<chosen, runs, decision>> /\ phase = "worlds"
      BY <2>2 DEF LoadWorlds
    <3> QED
      BY <3>1, NoPromotion DEF Reading
  <2>3. CASE LoadCases
    <3>1. UNCHANGED <<chosen, runs, decision>> /\ phase = "cases"
      BY <2>3 DEF LoadCases
    <3> QED
      BY <3>1, NoPromotion DEF Reading
  <2>4. CASE \E byKey \in Indexes(known), guards \in SUBSET BOOLEAN : LoadRows(byKey, guards)
    <3>1. UNCHANGED runs /\ phase = "rows" /\ (UNCHANGED decision \/ ~ decision'.promote)
      <4>1. PICK byKey \in Indexes(known), guards \in SUBSET BOOLEAN : LoadRows(byKey, guards)
        BY <2>4
      <4>2. CASE Finish("rejected") \/ Finish("no_change")
        <5>1. ~ decision'.promote
          BY <4>2, RefusalsPromoteNothing
        <5> QED
          BY <4>1, <5>1 DEF LoadRows
      <4>3. CASE UNCHANGED decision
        BY <4>1, <4>3 DEF LoadRows
      <4> QED
        BY <4>1, <4>2, <4>3 DEF LoadRows
    <3> QED
      BY <1>2, <1>3, <3>1, NoPromotion DEF Reading
  <2>5. CASE phase \in {"baseline", "candidate"} /\ \E run \in RunsOf[NextWorld] : RunWorld(run)
    BY <2>5, RunningKeepsRuns
  <2>6. CASE \E patch \in Patches : Generate(patch)
    <3>1. /\ UNCHANGED <<chosen, runs>> /\ phase = "baseline" /\ phase' \in {"candidate", "done"}
          /\ UNCHANGED decision \/ ~ decision'.promote
      <4>1. PICK patch \in Patches : Generate(patch)
        BY <2>6
      <4>2. CASE Finish("rejected") \/ Finish("no_change") \/ Finish("error")
        <5>1. phase' = "done" /\ ~ decision'.promote
          BY <4>2, RefusalsPromoteNothing
        <5> QED
          BY <4>1, <5>1 DEF Generate
      <4>3. CASE phase' = "candidate" /\ UNCHANGED decision
        BY <4>1, <4>3 DEF Generate
      <4> QED
        BY <4>1, <4>2, <4>3 DEF Generate
    <3> QED
      BY <3>1, NoPromotion DEF Reading
  <2>7. CASE Decide
    BY <2>7, DecidingIsEarned
  <2>8. CASE UNCHANGED experimentVars
    <3>1. UNCHANGED <<phase, chosen, runs, decision>>
      BY <2>8 DEF experimentVars, cycleVars
    <3>2. Selected' = Selected /\ Targets' = Targets
      BY <3>1 DEF Selected, Targets
    <3>3. Base' = Base /\ Cand' = Cand
      BY <3>1, <3>2 DEF Base, Cand
    <3>4. RunsInv'
      BY <3>1, <3>2 DEF PromotionInv, RunsInv
    <3>5. ToSet(Selected)' = ToSet(Selected)
      BY <3>2
    <3>6. PromotionsAreEarned'
      <4>1. SUFFICES ASSUME decision'.promote
                     PROVE  /\ \A w \in ToSet(Selected)' : Modest(Base'[w], Cand'[w])
                            /\ \A g \in Guards : Guarded(Base'[g], Cand'[g])
                            /\ \E t \in Targets' : Earned(Base'[t], Cand'[t])
        BY DEF PromotionsAreEarned
      <4>2. decision.promote
        BY <3>1, <4>1
      <4> QED
        BY <3>2, <3>3, <3>5, <4>2 DEF PromotionInv, PromotionsAreEarned
    <3> QED
      BY <3>4, <3>6
  <2> QED
    BY <2>1, <2>2, <2>3, <2>4, <2>5, <2>6, <2>7, <2>8 DEF ExperimentNext
<1> QED
  BY <1>1, <1>4 DEF PromotionInv

\* A candidate that is promoted has claimed no more than it could prove where the policy
\* before it did not, has proven as much on every guard, and has earned it on a target:
\* each of the two has run exactly once on every selected world, so that scores of the
\* same world are compared, and the counts of a score are those of what its run has shown.
THEOREM PromotedCandidatesEarnIt == ExperimentSpec => []PromotionsAreEarned
<1>1. ExperimentSpec => []PromotionInv
  BY PromotionBegins, PromotionContinues, PTL DEF ExperimentSpec
<1> QED
  BY <1>1, PTL DEF PromotionInv
=============================================================================
