---------------------------- MODULE TaskLifecycle ----------------------------
(***************************************************************************)
(* What a reader of a session directory may rely on, whatever the          *)
(* coordinator does and however often it is killed: tasks are only added,  *)
(* each follows the status table, unfinished ones may be put back to       *)
(* PENDING together, and a task is COMPLETED only over its saved report,   *)
(* which nobody touches afterwards.                                        *)
(***************************************************************************)
EXTENDS Naturals, Sequences, Tasks

VARIABLES
  statuses,   \* the status of each task, in the order they were added
  reported    \* the tasks with an intact report on disk

boardVars == <<statuses, reported>>

Init == statuses = <<>> /\ reported = {}

Add ==
  /\ statuses' = Append(statuses, "PENDING")
  /\ UNCHANGED reported

Move(t, new) ==
  /\ <<statuses[t], new>> \in AllowedTransitions
  /\ new = "COMPLETED" => t \in reported
  /\ statuses' = [statuses EXCEPT ![t] = new]
  /\ UNCHANGED reported

RequeueUnfinished ==
  /\ statuses' = [t \in DOMAIN statuses |-> RequeuedStatus(statuses[t])]
  /\ UNCHANGED reported

\* Reports come, are replaced, or are lost, for the task being worked on only.
WriteReport(t) ==
  /\ statuses[t] = "ACTIVE"
  /\ reported' \in {reported \cup {t}, reported \ {t}}
  /\ UNCHANGED statuses

Next ==
  \/ Add \/ RequeueUnfinished
  \/ \E t \in DOMAIN statuses : WriteReport(t) \/ \E new \in Status : Move(t, new)

Spec == Init /\ [][Next]_boardVars
=============================================================================
