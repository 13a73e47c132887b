-------------------------- MODULE MCControlService --------------------------
(* Model checking of ControlService on small instances.                    *)
EXTENDS ControlService, TLC

\* The second day is a holiday: its target is the first day's.
Weekend == (0 :> "mon" @@ 1 :> "mon")

Manual == {[id |-> <<"user", "1">>, kind |-> "brief", date |-> "mon"]}
=============================================================================
