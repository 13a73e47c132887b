-------------------------------- MODULE Tasks --------------------------------
(***************************************************************************)
(* The task vocabulary of models/schemas.py: statuses, kinds and the table *)
(* of status changes every TaskBoard method goes through.                  *)
(***************************************************************************)

Kind   == {"research", "followup", "gap", "replan"}
Status == {"PENDING", "ACTIVE", "COMPLETED", "BLOCKED", "CANCELLED"}

\* TaskBoard._transition refuses any other pair.
AllowedTransitions ==
  {<<"PENDING", "ACTIVE">>, <<"PENDING", "CANCELLED">>,
   <<"ACTIVE", "COMPLETED">>, <<"ACTIVE", "BLOCKED">>, <<"ACTIVE", "CANCELLED">>,
   <<"BLOCKED", "ACTIVE">>, <<"BLOCKED", "CANCELLED">>}

\* Mutation: a resume leaves ACTIVE tasks alone.
RequeuedBlocked(status) == IF status = "BLOCKED" THEN "PENDING" ELSE status

\* requeue_unfinished bypasses the table: unfinished work is pending again.
RequeuedStatus(status) ==
  IF status \in {"ACTIVE", "BLOCKED"} THEN "PENDING" ELSE status
=============================================================================
