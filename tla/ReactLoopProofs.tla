-------------------------- MODULE ReactLoopProofs --------------------------
(***************************************************************************)
(* Proofs about ReactLoop for every budget, every allowlist and every way   *)
(* the model, the tools and the clock may behave.                          *)
(***************************************************************************)
EXTENDS ReactLoop, TLAPS

\* While the run is not over, time has not passed the deadline of the phase it is
\* in, a call that is awaited fits before that deadline, and only the last turn of
\* a run that finalizes is final by its number.
TimeInv ==
  /\ now <= OverallDeadline + Lag
  /\ pc = "turn" /\ finalize => now <= OverallDeadline - Reserve + Lag
  /\ pc = "tools" /\ finalize => ~ finalizing /\ now <= OverallDeadline - Reserve + Lag
  /\ pc = "request" => now + granted <= PhaseDeadline(finalizing)
  /\ pc = "request" /\ finalizing => finalize /\ granted >= Reserve - Lag
  /\ pc = "request" /\ finalize /\ ~ finalizing => turn < MaxTurns - 1
  /\ pc = "tools" /\ finalize => turn < MaxTurns - 1
  /\ pc # "done" => stop = "none"

\* In a run that finalizes, a turn is always left.
TurnInv ==
  /\ pc \in {"request", "tools"} => turn < MaxTurns
  /\ pc = "turn" /\ finalize => turn < MaxTurns

Inv == TypeOK /\ TimeInv /\ TurnInv /\ EvidenceGetsAnAnswer

-----------------------------------------------------------------------------
\* The smaller of two numbers.
LEMMA LeastIsSmaller ==
  ASSUME NEW a \in Nat, NEW b \in Nat
  PROVE  Least(a, b) \in Nat /\ Least(a, b) <= a /\ Least(a, b) <= b /\ Least(a, b) \in {a, b}
BY DEF Least

\* The time at which a phase must be over.
LEMMA PhaseDeadlineIsEarly ==
  ASSUME NEW final \in BOOLEAN, finalize \in BOOLEAN
  PROVE  /\ PhaseDeadline(final) \in Nat /\ PhaseDeadline(final) <= OverallDeadline
         /\ finalize /\ ~ final => PhaseDeadline(final) = OverallDeadline - Reserve
         /\ final \/ ~ finalize => PhaseDeadline(final) = OverallDeadline
         /\ CollectionDeadline \in Nat /\ CollectionDeadline <= OverallDeadline
         /\ finalize => CollectionDeadline = OverallDeadline - Reserve
BY LoopBudgetAssumption DEF PhaseDeadline, CollectionDeadline

\* The beginning.
LEMMA InitInv == Init => Inv
<1> SUFFICES ASSUME Init PROVE Inv
  OBVIOUS
<1>1. TypeOK
  <2>1. <<>> \in Seq(Names) /\ 0 \in 0 .. MaxTurns
    BY LoopBudgetAssumption
  <2>2. stop \in {"none"} \cup Completed \cup Incomplete \cup Exceptions
    BY DEF Init
  <2>3. exhausted \subseteq Tools
    BY DEF Init
  <2> QED
    BY <2>1, <2>2, <2>3 DEF Init, TypeOK
<1>2. 0 <= OverallDeadline + Lag /\ 0 <= OverallDeadline - Reserve + Lag /\ 0 < MaxTurns
  BY LoopBudgetAssumption
<1> QED
  BY <1>1, <1>2 DEF Init, Inv, TimeInv, TurnInv, EvidenceGetsAnAnswer

\* A request fits into its phase.
LEMMA RequestInv == Inv /\ Request => Inv'
<1> SUFFICES ASSUME Inv, Request PROVE Inv'
  OBVIOUS
<1> USE DEF Inv
<1>1. finalizing' \in BOOLEAN /\ finalizing' = MustFinalize /\ (finalizing' => finalize)
  BY DEF Request, MustFinalize, TypeOK
<1> DEFINE deadline == PhaseDeadline(finalizing')
<1>2. /\ deadline \in Nat /\ deadline <= OverallDeadline
      /\ finalize /\ ~ finalizing' => deadline = OverallDeadline - Reserve
      /\ finalizing' \/ ~ finalize => deadline = OverallDeadline
  BY <1>1, PhaseDeadlineIsEarly DEF TypeOK
<1>3. finalize /\ ~ finalizing' => now < OverallDeadline - Reserve /\ turn < MaxTurns - 1
  <2>1. finalize /\ ~ finalizing' => ~ (OverallDeadline - now <= Reserve) /\ turn # MaxTurns - 1
    BY <1>1 DEF MustFinalize
  <2>2. turn \in Nat /\ turn < MaxTurns /\ now \in Nat
    BY LoopBudgetAssumption DEF Request, TypeOK
  <2> QED
    BY <2>1, <2>2, LoopBudgetAssumption
<1>4. CASE deadline - now <= 0
  <2>1. pc' = "done" /\ stop' = "deadline" /\ granted' = 0
    BY <1>4 DEF Request, Stops
  <2>2. finalize => finalizing'
    BY <1>2, <1>3, <1>4 DEF TypeOK
  <2> QED
    BY <1>1, <2>1, <2>2 DEF Request, TypeOK, TimeInv, TurnInv, EvidenceGetsAnAnswer, Exceptions
<1>5. CASE ~ (deadline - now <= 0)
  <2>1. pc' = "request" /\ granted' = Least(LlmTimeout, deadline - now) /\ stop' = stop
    BY <1>5 DEF Request
  <2>2. /\ granted' \in Nat /\ granted' <= deadline - now
        /\ granted' = LlmTimeout \/ granted' = deadline - now
    <3>1. deadline - now \in Nat /\ LlmTimeout \in Nat
      BY <1>2, <1>5, LoopBudgetAssumption DEF TypeOK
    <3> HIDE DEF deadline
    <3> QED
      BY <2>1, <3>1, LeastIsSmaller
  <2>3. TypeOK'
    BY <1>1, <2>1, <2>2 DEF Request, TypeOK
  <2>4. now' = now /\ finalize' = finalize /\ turn' = turn /\ pc = "turn" /\ turn < MaxTurns /\ stop = "none"
        /\ observed' = observed
    BY DEF Request, TimeInv
  <2>5. PhaseDeadline(finalizing)' = deadline
    BY <2>4 DEF PhaseDeadline, CollectionDeadline
  <2>6. (now + granted <= PhaseDeadline(finalizing))'
    BY <1>2, <2>2, <2>4, <2>5 DEF TypeOK
  <2>7. finalizing' => granted' >= Reserve - Lag
    <3>1. finalize => now <= OverallDeadline - Reserve + Lag
      BY <2>4 DEF TimeInv
    <3>2. now \in Nat /\ granted' \in Nat
      BY <2>2 DEF TypeOK
    <3> HIDE DEF deadline
    <3> QED
      BY <1>1, <1>2, <2>2, <3>1, <3>2, LoopBudgetAssumption
  <2>8. TimeInv'
    BY <1>1, <1>3, <2>1, <2>4, <2>6, <2>7 DEF TimeInv
  <2> QED
    BY <2>1, <2>3, <2>4, <2>8 DEF TurnInv, EvidenceGetsAnAnswer
<1> QED
  BY <1>4, <1>5

\* A call that was granted some time is over by then, or one lag later.
LEMMA TimeTaken ==
  ASSUME NEW limit \in Nat, now \in Nat, TakesUpTo(limit)
  PROVE  now' \in Nat /\ now' <= now + limit + Lag
BY LoopBudgetAssumption DEF TakesUpTo

\* An awaited request, whatever becomes of it, ends before the deadline.
LEMMA AwaitedRequest ==
  ASSUME Inv, pc = "request", NEW later \in Nat, later <= now + granted + Lag
  PROVE  /\ later <= OverallDeadline + Lag
         /\ finalize /\ ~ finalizing => later <= OverallDeadline - Reserve + Lag
<1>1. PhaseDeadline(finalizing) \in Nat /\ PhaseDeadline(finalizing) <= OverallDeadline
      /\ (finalize /\ ~ finalizing => PhaseDeadline(finalizing) = OverallDeadline - Reserve)
  BY PhaseDeadlineIsEarly DEF Inv, TypeOK
<1> QED
  BY <1>1, LoopBudgetAssumption DEF Inv, TypeOK, TimeInv

\* The responses.
LEMMA AnswerInv ==
  ASSUME Inv, AnswerEnds \/ RequestRaises PROVE Inv'
<1>1. pc = "request" /\ now' \in Nat /\ now' <= now + granted + Lag
  BY TimeTaken DEF AnswerEnds, RequestRaises, Inv, TypeOK
<1>2. now' <= OverallDeadline + Lag
  BY <1>1, AwaitedRequest
<1>3. pc' = "done" /\ stop' \in Completed \cup Incomplete \cup Exceptions
      /\ stop' \notin {"max_turns_after_tool", "deadline"}
  BY DEF AnswerEnds, RequestRaises, Stops, Completed, Incomplete, Exceptions
<1> QED
  BY <1>1, <1>2, <1>3 DEF AnswerEnds, RequestRaises, Inv, TypeOK, TimeInv, TurnInv, EvidenceGetsAnAnswer

LEMMA AnswerCallsInv ==
  ASSUME Inv, NEW names \in CallSequences, AnswerCalls(names) PROVE Inv'
<1>1. pc = "request" /\ now' \in Nat /\ now' <= now + granted + Lag
  BY TimeTaken DEF AnswerCalls, Inv, TypeOK
<1>2. now' <= OverallDeadline + Lag /\ (finalize /\ ~ finalizing => now' <= OverallDeadline - Reserve + Lag)
  BY <1>1, AwaitedRequest
<1>3. names \in Seq(Names)
  BY LoopBudgetAssumption DEF CallSequences
<1>4. TypeOK'
  BY <1>1, <1>3 DEF AnswerCalls, Stops, Inv, TypeOK, Incomplete
<1>5. TimeInv' /\ TurnInv' /\ EvidenceGetsAnAnswer'
  BY <1>1, <1>2 DEF AnswerCalls, Stops, Inv, TypeOK, TimeInv, TurnInv, EvidenceGetsAnAnswer
<1> QED
  BY <1>4, <1>5 DEF Inv

LEMMA RequestTimesOutInv ==
  ASSUME Inv, RequestTimesOut PROVE Inv'
<1>1. pc = "request" /\ now' \in Nat /\ now' <= now + granted + Lag
  BY LoopBudgetAssumption DEF RequestTimesOut, Inv, TypeOK
<1>2. now' <= OverallDeadline + Lag /\ (finalize /\ ~ finalizing => now' <= OverallDeadline - Reserve + Lag)
  BY <1>1, AwaitedRequest
<1>3. CASE finalize /\ ~ finalizing /\ observed
  <2>1. forced' = TRUE /\ turn' = turn + 1 /\ pc' = "turn" /\ stop' = stop /\ turn < MaxTurns - 1 /\ stop = "none"
    BY <1>1, <1>3 DEF RequestTimesOut, Inv, TimeInv
  <2> QED
    BY <1>1, <1>2, <1>3, <2>1, LoopBudgetAssumption
       DEF RequestTimesOut, Inv, TypeOK, TimeInv, TurnInv, EvidenceGetsAnAnswer
<1>4. CASE ~ (finalize /\ ~ finalizing /\ observed)
  <2>1. pc' = "done" /\ stop' = "deadline" /\ turn' = turn /\ forced' = forced
    BY <1>4 DEF RequestTimesOut, Stops
  <2> QED
    BY <1>1, <1>2, <1>4, <2>1 DEF RequestTimesOut, Inv, TypeOK, TimeInv, TurnInv, EvidenceGetsAnAnswer, Exceptions
<1> QED
  BY <1>3, <1>4

-----------------------------------------------------------------------------
(* The tools.                                                              *)

LEMMA RestIsSequence ==
  ASSUME calls \in Seq(Names), calls # <<>>
  PROVE  Tail(calls) \in Seq(Names) /\ Called \in Names
BY DEF Called

LEMMA RefusedInv ==
  ASSUME Inv, Refused PROVE Inv'
<1>1. Tail(calls) \in Seq(Names)
  BY RestIsSequence DEF Refused, Inv, TypeOK
<1>2. forced' \in BOOLEAN
  BY DEF Refused, Late, Inv, TypeOK
<1> QED
  BY <1>1, <1>2 DEF Refused, Observes, Inv, TypeOK, TimeInv, TurnInv, EvidenceGetsAnAnswer

\* What a tool is granted ends before the deadline of the collection.
LEMMA GrantedTool ==
  ASSUME Inv, TimeLeft > 0
  PROVE  /\ Least(ToolTimeout, TimeLeft) \in Nat
         /\ now + Least(ToolTimeout, TimeLeft) <= OverallDeadline
         /\ finalize => now + Least(ToolTimeout, TimeLeft) <= OverallDeadline - Reserve
<1>1. /\ CollectionDeadline \in Nat /\ CollectionDeadline <= OverallDeadline
      /\ finalize => CollectionDeadline = OverallDeadline - Reserve
  BY PhaseDeadlineIsEarly DEF Inv, TypeOK
<1>2. now \in Nat
  BY DEF Inv, TypeOK
<1>3. TimeLeft \in Nat /\ TimeLeft = CollectionDeadline - now
  BY <1>1, <1>2 DEF TimeLeft
<1>4. Least(ToolTimeout, TimeLeft) \in Nat /\ Least(ToolTimeout, TimeLeft) <= TimeLeft
  BY <1>3, LeastIsSmaller, LoopBudgetAssumption
<1> QED
  BY <1>1, <1>2, <1>3, <1>4, LoopBudgetAssumption

LEMMA ToolAnswersInv ==
  ASSUME Inv, ToolAnswers PROVE Inv'
<1>1. Tail(calls) \in Seq(Names) /\ Called \in Tools
  BY RestIsSequence DEF ToolAnswers, Execute, Inv, TypeOK
<1>2. exhausted' \subseteq Tools
  BY <1>1 DEF ToolAnswers, Inv, TypeOK
<1>3. Execute /\ TimeLeft > 0 /\ granted' = Least(ToolTimeout, TimeLeft)
  BY DEF ToolAnswers
<1>4. granted' \in Nat
  BY <1>3, GrantedTool
<1>5. now' \in Nat /\ now' <= now + granted' + Lag
  BY <1>4, LoopBudgetAssumption DEF ToolAnswers, TakesUpTo, Inv, TypeOK
<1>6. now' <= OverallDeadline + Lag /\ (finalize => now' <= OverallDeadline - Reserve + Lag)
  BY <1>3, <1>4, <1>5, GrantedTool, LoopBudgetAssumption DEF Inv, TypeOK
<1> QED
  BY <1>1, <1>2, <1>4, <1>5, <1>6
     DEF ToolAnswers, Execute, Observes, Inv, TypeOK, TimeInv, TurnInv, EvidenceGetsAnAnswer

LEMMA ToolTimesOutInv ==
  ASSUME Inv, ToolTimesOut PROVE Inv'
<1>1. Tail(calls) \in Seq(Names)
  BY RestIsSequence DEF ToolTimesOut, Execute, Inv, TypeOK
<1>2. Execute /\ TimeLeft > 0 /\ granted' = Least(ToolTimeout, TimeLeft)
  BY DEF ToolTimesOut
<1>3. granted' \in Nat
  BY <1>2, GrantedTool
<1>4. now' \in Nat /\ now' <= now + granted' + Lag
  BY <1>3, LoopBudgetAssumption DEF ToolTimesOut, Inv, TypeOK
<1>5. now' <= OverallDeadline + Lag /\ (finalize => now' <= OverallDeadline - Reserve + Lag)
  BY <1>2, <1>3, <1>4, GrantedTool, LoopBudgetAssumption DEF Inv, TypeOK
<1>6. CASE ~ finalize \/ granted' >= ToolTimeout
  <2>1. pc' = "done" /\ stop' = "tool_timeout" /\ calls' = calls /\ observed' = observed /\ forced' = forced
    BY <1>6 DEF ToolTimesOut, Stops
  <2> QED
    BY <1>3, <1>4, <1>5, <2>1 DEF ToolTimesOut, Inv, TypeOK, TimeInv, TurnInv, EvidenceGetsAnAnswer, Exceptions
<1>7. CASE ~ (~ finalize \/ granted' >= ToolTimeout)
  <2>1. forced' = TRUE /\ calls' = Tail(calls) /\ observed' = TRUE /\ pc' = pc /\ stop' = stop
    BY <1>7 DEF ToolTimesOut, Observes
  <2> QED
    BY <1>1, <1>3, <1>4, <1>5, <2>1
       DEF ToolTimesOut, Execute, Inv, TypeOK, TimeInv, TurnInv, EvidenceGetsAnAnswer
<1> QED
  BY <1>6, <1>7

\* A tool that cannot be run any more stops only a run that does not finalize.
LEMMA ToolTooLateInv ==
  ASSUME Inv, ToolTooLate PROVE Inv'
<1>1. CollectionDeadline \in Nat /\ now \in Nat
  BY PhaseDeadlineIsEarly DEF Inv, TypeOK
<1>2. now >= CollectionDeadline
  BY <1>1 DEF ToolTooLate, TimeLeft
<1>3. ~ finalize
  BY <1>2 DEF ToolTooLate, Execute, Late
<1> QED
  BY <1>3 DEF ToolTooLate, Stops, Inv, TypeOK, TimeInv, TurnInv, EvidenceGetsAnAnswer, Exceptions

LEMMA EndsInv ==
  ASSUME Inv, RunsOut \/ HookRaises \/ EndTurn PROVE Inv'
<1>1. CASE RunsOut
  BY <1>1 DEF RunsOut, Stops, Inv, TypeOK, TimeInv, TurnInv, EvidenceGetsAnAnswer, Incomplete
<1>2. CASE HookRaises
  BY <1>2 DEF HookRaises, Stops, Inv, TypeOK, TimeInv, TurnInv, EvidenceGetsAnAnswer, Exceptions
<1>3. CASE EndTurn
  BY <1>3, LoopBudgetAssumption DEF EndTurn, Inv, TypeOK, TimeInv, TurnInv, EvidenceGetsAnAnswer
<1> QED
  BY <1>1, <1>2, <1>3

-----------------------------------------------------------------------------
\* Every step keeps the invariant.
LEMMA NextInv == Inv /\ [Next]_vars => Inv'
<1> SUFFICES ASSUME Inv, [Next]_vars PROVE Inv'
  OBVIOUS
<1>1. CASE Request
  BY <1>1, RequestInv
<1>2. CASE AnswerEnds \/ RequestRaises
  BY <1>2, AnswerInv
<1>3. CASE \E names \in CallSequences : AnswerCalls(names)
  BY <1>3, AnswerCallsInv
<1>4. CASE RequestTimesOut
  BY <1>4, RequestTimesOutInv
<1>5. CASE Refused
  BY <1>5, RefusedInv
<1>6. CASE ToolAnswers
  BY <1>6, ToolAnswersInv
<1>7. CASE ToolTimesOut
  BY <1>7, ToolTimesOutInv
<1>8. CASE ToolTooLate
  BY <1>8, ToolTooLateInv
<1>9. CASE RunsOut \/ HookRaises \/ EndTurn
  BY <1>9, EndsInv
<1>10. CASE UNCHANGED vars
  BY <1>10 DEF vars, Inv, TypeOK, TimeInv, TurnInv, EvidenceGetsAnAnswer, PhaseDeadline, CollectionDeadline
<1> QED
  BY <1>1, <1>2, <1>3, <1>4, <1>5, <1>6, <1>7, <1>8, <1>9, <1>10 DEF Next

LEMMA Invariance == Spec => []Inv
BY InitInv, NextInv, PTL DEF Spec

\* react_loop_detailed: every state of every run has its types.
THEOREM Typed == Spec => []TypeOK
BY Invariance, PTL DEF Inv

\* A run ends within its overall deadline and one late await, for every budget.
THEOREM Punctual == Spec => []DeadlineIsKept
<1>1. Inv => DeadlineIsKept
  BY DEF Inv, TimeInv, DeadlineIsKept
<1> QED
  BY <1>1, Invariance, PTL

\* The final request of a run that finalizes has the reserve, for every budget.
THEOREM ReserveIsKept == Spec => []FinalAnswerHasTime
<1>1. Inv => FinalAnswerHasTime
  BY DEF Inv, TimeInv, FinalAnswerHasTime
<1> QED
  BY <1>1, Invariance, PTL

\* What was observed is never dropped for lack of turns or time, for every budget.
THEOREM EvidenceIsUsed == Spec => []EvidenceGetsAnAnswer
BY Invariance, PTL DEF Inv

=============================================================================
