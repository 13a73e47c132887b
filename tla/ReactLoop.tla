----------------------------- MODULE ReactLoop -----------------------------
(***************************************************************************)
(* react_loop_detailed (agents/react_loop.py): think, act, observe until the *)
(* model stops calling tools, against a clock.  A run with finalize_research *)
(* keeps a reserve at the end of its time and one of its turns for an answer *)
(* from what was observed; a run without it just stops.                     *)
(*                                                                         *)
(* Time is counted in units.  An await returns at most Lag units late: tools *)
(* that do not await keep the event loop busy.                              *)
(***************************************************************************)
EXTENDS Integers, Sequences, FiniteSets

CONSTANTS
  Tools,          \* the registry: the agent's allowlist
  Others,         \* names the model may call that are not on it
  MaxTurns, OverallDeadline, LlmTimeout, ToolTimeout,   \* LoopBudget
  Reserve,        \* min(llm_timeout_s, overall_deadline_s / 3)
  Lag,            \* bound: how late an await returns
  MaxCalls        \* bound: tool calls of one response

\* The reserve is as long as a request may take, or a third of the run's time.
ASSUME LoopBudgetAssumption ==
  /\ MaxTurns \in Nat \ {0} /\ OverallDeadline \in Nat \ {0}
  /\ LlmTimeout \in Nat \ {0} /\ ToolTimeout \in Nat \ {0}
  /\ Reserve \in Nat \ {0} /\ Reserve <= LlmTimeout /\ 3 * Reserve <= OverallDeadline
  /\ Lag \in Nat /\ Lag < Reserve
  /\ Tools \cap Others = {} /\ MaxCalls \in Nat

VARIABLES
  finalize,   \* finalize_research
  pc,         \* "turn", "request", "tools", "done"
  turn, now,
  forced,     \* force_final
  exhausted,  \* tools that answered with budget_exhausted
  observed,   \* some message has the role "tool"
  finalizing, \* this turn asks for the final answer
  granted,    \* the timeout of the call that is awaited
  calls,      \* tool calls of the response still to be made
  stop        \* stop_reason, or the exception

vars == <<finalize, pc, turn, now, forced, exhausted, observed, finalizing, granted, calls, stop>>

Names == Tools \cup Others
Completed == {"completed", "budget_finalized"}
Incomplete == {"length", "missing_finish_reason", "empty_final", "finalization_tool_call",
               "max_turns_after_tool"}
Exceptions == {"deadline", "tool_timeout", "raised"}

Init ==
  /\ finalize \in BOOLEAN
  /\ pc = "turn" /\ turn = 0 /\ now = 0 /\ forced = FALSE /\ exhausted = {} /\ observed = FALSE
  /\ finalizing = FALSE /\ granted = 0 /\ calls = <<>> /\ stop = "none"

Least(a, b) == IF a <= b THEN a ELSE b

Stops(reason) == pc' = "done" /\ stop' = reason

\* Mutation: collection may use the whole time.
CollectionDeadlineWhole == OverallDeadline

\* Every turn but the final one of a run that finalizes leaves the reserve alone.
CollectionDeadline == IF finalize THEN OverallDeadline - Reserve ELSE OverallDeadline

PhaseDeadline(final) == IF final THEN OverallDeadline ELSE CollectionDeadline

\* Mutation: nothing is kept for the last turn.
MustFinalizeByTime ==
  finalize /\ \/ forced
              \/ OverallDeadline - now <= Reserve
              \/ Tools # {} /\ Tools \subseteq exhausted

MustFinalize ==
  finalize /\ \/ forced
              \/ turn = MaxTurns - 1
              \/ OverallDeadline - now <= Reserve
              \/ Tools # {} /\ Tools \subseteq exhausted

\* Mutation: the request has its configured timeout, however little time is left.
RequestUnbounded ==
  /\ pc = "turn" /\ turn < MaxTurns
  /\ finalizing' = MustFinalize
  /\ granted' = LlmTimeout
  /\ IF PhaseDeadline(finalizing') <= now THEN Stops("deadline") ELSE pc' = "request" /\ UNCHANGED stop
  /\ UNCHANGED <<finalize, turn, now, forced, exhausted, observed, calls>>

Request ==
  /\ pc = "turn" /\ turn < MaxTurns
  /\ finalizing' = MustFinalize
  /\ LET left == PhaseDeadline(finalizing') - now IN
       IF left <= 0 THEN Stops("deadline") /\ granted' = 0
                    ELSE pc' = "request" /\ granted' = Least(LlmTimeout, left) /\ UNCHANGED stop
  /\ UNCHANGED <<finalize, turn, now, forced, exhausted, observed, calls>>

RunsOut ==
  /\ pc = "turn" /\ turn = MaxTurns
  /\ Stops("max_turns_after_tool")
  /\ UNCHANGED <<finalize, turn, now, forced, exhausted, observed, finalizing, granted, calls>>

-----------------------------------------------------------------------------
(* The response of the model.                                              *)

TakesUpTo(limit) == \E d \in 0 .. limit + Lag : now' = now + d

\* A response without tool calls, or cut off: the loop returns.
AnswerEnds ==
  /\ pc = "request"
  /\ TakesUpTo(granted)
  /\ \/ Stops("length")
     \/ Stops("missing_finish_reason")
     \/ Stops("empty_final")
     \/ Stops(IF finalizing THEN "budget_finalized" ELSE "completed")
  /\ UNCHANGED <<finalize, turn, forced, exhausted, observed, finalizing, granted, calls>>

AnswerCalls(names) ==
  /\ pc = "request"
  /\ TakesUpTo(granted)
  /\ IF finalizing THEN Stops("finalization_tool_call") /\ UNCHANGED calls
                   ELSE pc' = "tools" /\ calls' = names /\ UNCHANGED stop
  /\ UNCHANGED <<finalize, turn, forced, exhausted, observed, finalizing, granted>>

RequestTimesOut ==
  /\ pc = "request"
  /\ \E late \in 0 .. Lag : now' = now + granted + late
  /\ IF finalize /\ ~ finalizing /\ observed
     THEN forced' = TRUE /\ turn' = turn + 1 /\ pc' = "turn" /\ UNCHANGED stop
     ELSE Stops("deadline") /\ UNCHANGED <<turn, forced>>
  /\ UNCHANGED <<finalize, exhausted, observed, finalizing, granted, calls>>

\* The client, or a hook of the caller, raises.
RequestRaises ==
  /\ pc = "request"
  /\ TakesUpTo(granted)
  /\ Stops("raised")
  /\ UNCHANGED <<finalize, turn, forced, exhausted, observed, finalizing, granted, calls>>

-----------------------------------------------------------------------------
(* The tool calls of a response, one after the other.                      *)

Late == finalize /\ now >= CollectionDeadline
Called == Head(calls)
Execute == pc = "tools" /\ calls # <<>> /\ ~ Late /\ Called \in Tools \ exhausted
TimeLeft == CollectionDeadline - now

\* The result becomes a tool message.
Observes == calls' = Tail(calls) /\ observed' = TRUE

\* Answered by the loop itself: too late, the tool's budget is spent, not allowed.
Refused ==
  /\ pc = "tools" /\ calls # <<>>
  /\ Late \/ Called \notin Tools \ exhausted
  /\ forced' = (forced \/ Late)
  /\ Observes
  /\ UNCHANGED <<finalize, pc, turn, now, exhausted, finalizing, granted, stop>>

\* The tool is run: it answers or raises, perhaps with the last of its budget.
ToolAnswers ==
  /\ Execute /\ TimeLeft > 0
  /\ granted' = Least(ToolTimeout, TimeLeft)
  /\ TakesUpTo(granted')
  /\ \/ exhausted' = exhausted
     \/ finalize /\ exhausted' = exhausted \cup {Called}
  /\ Observes
  /\ UNCHANGED <<finalize, pc, turn, forced, finalizing, stop>>

ToolTimesOut ==
  /\ Execute /\ TimeLeft > 0
  /\ granted' = Least(ToolTimeout, TimeLeft)
  /\ \E late \in 0 .. Lag : now' = now + granted' + late
  /\ IF ~ finalize \/ granted' >= ToolTimeout
     THEN Stops("tool_timeout") /\ UNCHANGED <<calls, observed, forced>>
     ELSE forced' = TRUE /\ Observes /\ UNCHANGED <<pc, stop>>
  /\ UNCHANGED <<finalize, turn, exhausted, finalizing>>

ToolTooLate ==
  /\ Execute /\ TimeLeft <= 0
  /\ Stops("deadline")
  /\ UNCHANGED <<finalize, turn, now, forced, exhausted, observed, finalizing, granted, calls>>

\* on_tool_call raises: the caller's own budget.
HookRaises ==
  /\ pc = "tools" /\ calls # <<>>
  /\ Stops("raised")
  /\ UNCHANGED <<finalize, turn, now, forced, exhausted, observed, finalizing, granted, calls>>

\* Mutation: a turn that took no time does not count.
EndTurnUncounted ==
  /\ pc = "tools" /\ calls = <<>>
  /\ turn' = (IF now > 0 THEN turn + 1 ELSE turn) /\ pc' = "turn"
  /\ UNCHANGED <<finalize, now, forced, exhausted, observed, finalizing, granted, calls, stop>>

EndTurn ==
  /\ pc = "tools" /\ calls = <<>>
  /\ turn' = turn + 1 /\ pc' = "turn"
  /\ UNCHANGED <<finalize, now, forced, exhausted, observed, finalizing, granted, calls, stop>>

CallSequences == UNION {[1 .. n -> Names] : n \in 1 .. MaxCalls}

Next ==
  \/ Request \/ RunsOut
  \/ AnswerEnds \/ (\E names \in CallSequences : AnswerCalls(names)) \/ RequestTimesOut \/ RequestRaises
  \/ Refused \/ ToolAnswers \/ ToolTimesOut \/ ToolTooLate \/ HookRaises
  \/ EndTurn

Spec == Init /\ [][Next]_vars

\* The process keeps running: an await ends with its result or with its timeout.
FairSpec == Spec /\ WF_vars(Next)

-----------------------------------------------------------------------------
(* Correctness.                                                            *)

\* Type invariant.
TypeOK ==
  /\ finalize \in BOOLEAN /\ pc \in {"turn", "request", "tools", "done"}
  /\ turn \in 0 .. MaxTurns /\ now \in Nat /\ forced \in BOOLEAN /\ exhausted \subseteq Tools
  /\ observed \in BOOLEAN /\ finalizing \in BOOLEAN /\ granted \in Nat /\ calls \in Seq(Names)
  /\ stop \in {"none"} \cup Completed \cup Incomplete \cup Exceptions

\* The run ends within its overall deadline, late by no more than one await, over
\* all its turns, requests and tools.
DeadlineIsKept == now <= OverallDeadline + Lag

\* Whatever the turns before spent, the request for the final answer of a run that
\* finalizes is granted the reserve.
FinalAnswerHasTime ==
  pc = "request" /\ finalizing => granted >= Reserve - Lag

\* What a run that finalizes has observed is never dropped for lack of turns or time:
\* such a run stops only after the model was asked for the final answer, or for a
\* tool that took all the time a tool may take.
EvidenceGetsAnAnswer ==
  finalize /\ observed /\ stop \in {"max_turns_after_tool", "deadline"} => finalizing

\* The loop ends, whatever the model answers and however quickly.
LoopEnds == <>(pc = "done")

=============================================================================
