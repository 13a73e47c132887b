--------------------------- MODULE ControlService ---------------------------
(***************************************************************************)
(* The local control service: frontend/scripts/control_manager.py,          *)
(* control_service.py and control_calendar.py.  One service process with    *)
(* the request handlers, a scheduler thread and a thread per job; a child   *)
(* process per job; state.json; the briefs below reports/.  A write of      *)
(* state.json is atomic and may fail; the service may be stopped, killed    *)
(* and started again, also for another source of briefs.                    *)
(*                                                                         *)
(* Time is counted in quarters of an hour: a day has a slot before 08:00,   *)
(* Window slots until 10:00 and one for the rest of the day.                *)
(***************************************************************************)
EXTENDS Integers, Sequences, FiniteSets

CONSTANTS
  Requests,     \* what a user may ask for: [id, kind, date]
  Sources,      \* brief sources
  Target,       \* Target[d]: latest_completed on the morning of day d, or NoDate
  Window,       \* slots of a morning
  MaxChecks,    \* readiness checks of a morning: 9
  MaxTime,      \* bound: the clock stops
  MaxFailures,  \* bound: writes of state.json that fail
  MaxCrashes,   \* bound: kills of the service
  MaxToggles    \* bound: changes of the schedule

NoDate == "-"
Dates == {Target[d] : d \in DOMAIN Target} \ {NoDate}

\* A user's request id may have any form; those of the scheduler are taken to be its own.
ASSUME ControlAssumption ==
  /\ Window \in Nat \ {0} /\ MaxChecks \in Nat /\ MaxTime \in Nat
  /\ MaxFailures \in Nat /\ MaxCrashes \in Nat /\ MaxToggles \in Nat
  /\ DOMAIN Target = 0 .. MaxTime \div (Window + 2)
  /\ \A r \in Requests :
       /\ r.id \notin Sources \X Dates
       /\ \/ r.kind = "brief" /\ r.date \in Dates
          \/ r.kind = "research" /\ r.date = NoDate

VARIABLES
  now,
  slept,     \* ghost: the days of which the scheduler has not had the time
  service,   \* "up", "stopping" or "down"
  data,      \* ControlManager.data
  disk,      \* state.json
  thread,    \* thread[j]: the thread of the job data.jobs[j]
  outcome,   \* outcome[j]: what its runner has returned
  child,     \* the process groups that are alive, as the jobs they work on
  ticker,    \* the scheduler thread
  briefs,    \* <<source, date>>: a valid partial brief is in reports/
  launches,  \* the scheduled jobs whose process was started, as <<source, date>>
  failures, crashes, toggles

vars == <<now, slept, service, data, disk, thread, outcome, child, ticker, briefs, launches,
          failures, crashes, toggles>>

Live == {"starting", "running"}
Outcomes == {"completed", "unavailable", "failed", "timed_out", "interrupted"}
Job == {job \in [id : {r.id : r \in Requests} \cup (Sources \X Dates), kind : {"brief", "research"},
                  date : Dates \cup {NoDate}, source : Sources, scheduled : BOOLEAN,
                  state : Live \cup Outcomes] : job.kind = "brief" => job.date \in Dates}
Process(job) == [id |-> job.id, kind |-> job.kind, date |-> job.date, source |-> job.source]

-----------------------------------------------------------------------------
(* The calendar.                                                           *)

SlotsPerDay == Window + 2
DayOf(t) == t \div SlotsPerDay
Morning(d) == d * SlotsPerDay + 1
End(d) == d * SlotsPerDay + Window
NextMorning(t) == IF t < Morning(DayOf(t)) THEN Morning(DayOf(t)) ELSE Morning(DayOf(t) + 1)

-----------------------------------------------------------------------------
(* The state of the manager.                                               *)

Idle == [pc |-> "idle", date |-> NoDate, day |-> 0, generation |-> 0]

Init ==
  /\ now = 0 /\ slept = {} /\ service = "down"
  /\ \E s \in Sources :
       disk = [jobs |-> <<>>, source |-> s, enabled |-> FALSE, state |-> "disabled",
               notBefore |-> 0, nextCheck |-> 0, day |-> -1, checks |-> 0, targets |-> {}]
  /\ data = disk /\ thread = <<>> /\ outcome = <<>> /\ child = {} /\ ticker = Idle
  /\ briefs = {} /\ launches = <<>>
  /\ failures = 0 /\ crashes = 0 /\ toggles = 0

Up == service \in {"up", "stopping"}

\* _save: it may fail, and what is in memory stays.
Save(new, ok) ==
  /\ data' = new
  /\ \/ ok /\ disk' = new /\ UNCHANGED failures
     \/ ~ ok /\ failures < MaxFailures /\ failures' = failures + 1 /\ UNCHANGED disk

Busy == \E j \in DOMAIN data.jobs : data.jobs[j].state \in Live

\* The constructor: whatever ran is interrupted.  The lock file is held by a service
\* and by every process it has started.  If the write fails the service does not start.
Restarted(source) ==
  LET stopped == [j \in DOMAIN disk.jobs |->
                    [disk.jobs[j] EXCEPT !.state = IF @ \in Live THEN "interrupted" ELSE @]]
      same == [disk EXCEPT !.jobs = stopped, !.source = source]
  IN IF source # disk.source /\ disk.enabled
     THEN [same EXCEPT !.state = "scheduled", !.notBefore = NextMorning(now),
                       !.nextCheck = NextMorning(now), !.checks = 0, !.day = -1]
     ELSE same

\* Mutation: the service lock is not inherited by the processes it starts.
StartUnlocked(source) ==
  /\ service = "down"
  /\ service' = "up"
  /\ data' = Restarted(source) /\ disk' = data'
  /\ thread' = [j \in DOMAIN disk.jobs |-> "over"]
  /\ outcome' = [j \in DOMAIN disk.jobs |-> "interrupted"]
  /\ ticker' = Idle
  /\ UNCHANGED <<now, slept, child, briefs, launches, failures, crashes, toggles>>

Start(source) ==
  /\ service = "down" /\ child = {}
  /\ service' = "up"
  /\ data' = Restarted(source) /\ disk' = data'
  /\ thread' = [j \in DOMAIN disk.jobs |-> "over"]
  /\ outcome' = [j \in DOMAIN disk.jobs |-> "interrupted"]
  /\ ticker' = Idle
  /\ UNCHANGED <<now, slept, child, briefs, launches, failures, crashes, toggles>>

-----------------------------------------------------------------------------
(* Requests.                                                               *)

\* validate_request: a brief is for a session that is over; that of the day itself may
\* be, once its morning is.
Valid(r) ==
  LET over == IF now > End(DayOf(now)) THEN DayOf(now) + 1 ELSE DayOf(now)
  IN r.kind = "brief" => \E d \in DOMAIN Target : d <= over /\ Target[d] = r.date

Known(id) == \E j \in DOMAIN data.jobs : data.jobs[j].id = id

NewJob(id, kind, date, scheduled) ==
  [id |-> id, kind |-> kind, date |-> date, source |-> data.source,
   scheduled |-> scheduled, state |-> "starting"]

\* submit: a known id is answered with its job.  A thread is started only once the
\* job is on disk; if that fails the job stays in memory.
Submit(r, ok) ==
  /\ service = "up" /\ Valid(r) /\ ~ Known(r.id) /\ ~ Busy
  /\ Save([data EXCEPT !.jobs = Append(@, NewJob(r.id, r.kind, r.date, FALSE))], ok)
  /\ thread' = Append(thread, IF ok THEN "start" ELSE "none")
  /\ outcome' = Append(outcome, "failed")
  /\ UNCHANGED <<now, slept, service, child, ticker, briefs, launches, crashes, toggles>>

\* set_schedule: enabling starts with the next morning.
SetSchedule(enabled, ok) ==
  /\ Up /\ data.enabled # enabled
  /\ toggles < MaxToggles /\ toggles' = toggles + 1
  /\ Save([data EXCEPT !.enabled = enabled, !.state = IF enabled THEN "scheduled" ELSE "disabled",
                       !.notBefore = IF enabled THEN NextMorning(now) ELSE 0,
                       !.nextCheck = IF enabled THEN NextMorning(now) ELSE 0,
                       !.day = -1, !.checks = 0], ok)
  /\ UNCHANGED <<now, slept, service, thread, outcome, child, ticker, briefs, launches, crashes>>

-----------------------------------------------------------------------------
(* The thread of a job: _execute and _run_job.                             *)

Alive(j) == Process(data.jobs[j]) \in child

Returns(j, result) ==
  /\ outcome' = [outcome EXCEPT ![j] = result]
  /\ thread' = [thread EXCEPT ![j] = "returned"]

Counted(job) ==
  launches' = IF job.scheduled THEN Append(launches, <<job.source, job.date>>) ELSE launches

\* Nothing is launched while the service stops.  If the write fails, the finally
\* clause ends the process that was just started.
Launch(j, ok) ==
  /\ Up /\ thread[j] = "start"
  /\ service = "up"
  /\ Save([data EXCEPT !.jobs[j].state = "running"], ok)
  /\ Counted(data.jobs[j])
  /\ IF ok THEN child' = child \cup {Process(data.jobs[j])} /\ thread' = [thread EXCEPT ![j] = "wait"]
                /\ UNCHANGED outcome
           ELSE Returns(j, "failed") /\ UNCHANGED child
  /\ UNCHANGED <<now, slept, service, ticker, briefs, crashes, toggles>>

\* _command refuses the output directory, or the service is stopping.
NotLaunched(j) ==
  /\ Up /\ thread[j] = "start"
  /\ Returns(j, IF service = "stopping" THEN "interrupted" ELSE "failed")
  /\ UNCHANGED <<now, slept, service, data, disk, child, ticker, briefs, launches, failures, crashes, toggles>>

\* The process ends by itself, with or without a valid brief; also one that has
\* outlived the service.
Exit(process, made) ==
  /\ made => process.kind = "brief"
  /\ child' = child \ {process}
  /\ briefs' = IF made THEN briefs \cup {<<process.source, process.date>>} ELSE briefs
  /\ UNCHANGED <<now, slept, service, data, disk, thread, outcome, ticker, launches, failures, crashes, toggles>>

\* _classify: an exit code of zero is success only with a valid brief.
Classified(j, result) ==
  \/ result \in {"unavailable", "failed"}
  \/ result = "completed" /\ data.jobs[j].kind = "research"
  \/ result = "completed" /\ <<data.jobs[j].source, data.jobs[j].date>> \in briefs

Classify(j, result) ==
  /\ Up /\ thread[j] = "wait" /\ ~ Alive(j)
  /\ IF service = "stopping" THEN result = "interrupted" ELSE Classified(j, result)
  /\ Returns(j, result)
  /\ UNCHANGED <<now, slept, service, data, disk, child, ticker, briefs, launches, failures, crashes, toggles>>

\* Mutation: the runner waits for the process without a deadline.
NoTimeOut(j) == FALSE /\ UNCHANGED vars

\* The deadline: the process group is killed.
TimeOut(j) ==
  /\ Up /\ thread[j] = "wait" /\ Alive(j)
  /\ child' = child \ {Process(data.jobs[j])}
  /\ Returns(j, "timed_out")
  /\ UNCHANGED <<now, slept, service, data, disk, ticker, briefs, launches, failures, crashes, toggles>>

Finish(j, ok) ==
  /\ Up /\ thread[j] = "returned"
  /\ Save([data EXCEPT !.jobs[j].state = outcome[j]], ok)
  /\ thread' = [thread EXCEPT ![j] = "over"]
  /\ UNCHANGED <<now, slept, service, outcome, child, ticker, briefs, launches, crashes, toggles>>

-----------------------------------------------------------------------------
(* The scheduler thread: tick, and the loop around it.                     *)

Due == /\ data.enabled /\ now >= data.notBefore
       /\ now >= Morning(DayOf(now)) /\ now >= data.nextCheck

\* The checks of an earlier day do not count.
ChecksToday == IF data.day = DayOf(now) THEN data.checks ELSE 0

Settled(state) ==
  [data EXCEPT !.day = DayOf(now), !.checks = ChecksToday, !.state = state,
               !.nextCheck = NextMorning(now)]

\* A failed write raises out of tick.
TickerAfter(ok) == ticker' = IF ok THEN Idle ELSE [Idle EXCEPT !.pc = "raised"]

Expired == now > End(DayOf(now)) \/ ChecksToday >= MaxChecks
Taken(date) == <<data.source, date>> \in data.targets \cup briefs

\* The morning is over, has no target, or its target is done.
TickSettles(ok) ==
  /\ service = "up" /\ ticker.pc = "idle" /\ Due
  /\ \/ Expired /\ Save(Settled("expired"), ok)
     \/ ~ Expired /\ Target[DayOf(now)] = NoDate /\ Save(Settled("error"), ok)
     \/ ~ Expired /\ Target[DayOf(now)] # NoDate /\ Taken(Target[DayOf(now)])
        /\ Save(Settled("skipped"), ok)
  /\ TickerAfter(ok)
  /\ UNCHANGED <<now, slept, service, thread, outcome, child, briefs, launches, crashes, toggles>>

\* The check is counted and saved, then the lock is released and inputs are probed.
TickProbes(ok) ==
  /\ service = "up" /\ ticker.pc = "idle" /\ Due /\ ~ Expired
  /\ Target[DayOf(now)] # NoDate /\ ~ Taken(Target[DayOf(now)])
  /\ Save([Settled("checking_inputs") EXCEPT !.checks = @ + 1, !.nextCheck = now + 1], ok)
  /\ ticker' = IF ok THEN [pc |-> "probing", date |-> Target[DayOf(now)], day |-> DayOf(now),
                           generation |-> data.notBefore]
                     ELSE [Idle EXCEPT !.pc = "raised"]
  /\ UNCHANGED <<now, slept, service, thread, outcome, child, briefs, launches, crashes, toggles>>

Superseded == ~ data.enabled \/ service # "up" \/ data.notBefore # ticker.generation

\* The schedule was changed during the probe, or the service stops.
TickSuperseded ==
  /\ Up /\ ticker.pc = "probing" /\ Superseded
  /\ ticker' = Idle
  /\ UNCHANGED <<now, slept, service, data, disk, thread, outcome, child, briefs, launches, failures, crashes, toggles>>

\* What the probe may say: of the proxy's sources nothing is known before they are used.
Readiness == IF data.source = "etf-proxy" THEN {TRUE} ELSE BOOLEAN

\* The probe took too long, inputs are missing, or a job runs.
TickWaits(ready, ok) ==
  /\ service = "up" /\ ticker.pc = "probing" /\ ~ Superseded
  /\ \/ now > End(ticker.day)
        /\ Save([data EXCEPT !.state = "expired", !.nextCheck = NextMorning(now)], ok)
     \/ now <= End(ticker.day) /\ (~ ready \/ Busy)
        /\ Save([data EXCEPT !.state = "waiting"], ok)
  /\ TickerAfter(ok)
  /\ UNCHANGED <<now, slept, service, thread, outcome, child, briefs, launches, crashes, toggles>>

\* submit marks the target together with the job.
Attempted(job) ==
  [data EXCEPT !.jobs = Append(@, job), !.targets = @ \cup {<<job.source, job.date>>}]

\* Mutation: the thread of the job is started before the attempt is on disk.
TickSubmitsLate(saved, ok) ==
  /\ service = "up" /\ ticker.pc = "probing" /\ ~ Superseded /\ now <= End(ticker.day)
  /\ ~ Busy /\ ~ Known(<<data.source, ticker.date>>)
  /\ LET job == NewJob(<<data.source, ticker.date>>, "brief", ticker.date, TRUE)
         new == Attempted(job)
         end == [new EXCEPT !.state = "submitted", !.nextCheck = NextMorning(Morning(ticker.day))]
     IN IF ~ saved
        THEN Save(new, FALSE) /\ thread' = Append(thread, "start")
        ELSE /\ data' = end /\ thread' = Append(thread, "start")
             /\ \/ ok /\ disk' = end /\ UNCHANGED failures
                \/ ~ ok /\ failures < MaxFailures /\ failures' = failures + 1 /\ disk' = new
  /\ outcome' = Append(outcome, "failed")
  /\ TickerAfter(saved /\ ok)
  /\ UNCHANGED <<now, slept, service, child, briefs, launches, crashes, toggles>>

\* submit, then the schedule's own state; either write may fail.  The id is new
\* whenever the target is.
TickSubmits(saved, ok) ==
  /\ service = "up" /\ ticker.pc = "probing" /\ ~ Superseded /\ now <= End(ticker.day)
  /\ ~ Busy /\ ~ Known(<<data.source, ticker.date>>)
  /\ LET job == NewJob(<<data.source, ticker.date>>, "brief", ticker.date, TRUE)
         new == Attempted(job)
         end == [new EXCEPT !.state = "submitted", !.nextCheck = NextMorning(Morning(ticker.day))]
     IN IF ~ saved
        THEN Save(new, FALSE) /\ thread' = Append(thread, "none")
        ELSE /\ data' = end /\ thread' = Append(thread, "start")
             /\ \/ ok /\ disk' = end /\ UNCHANGED failures
                \/ ~ ok /\ failures < MaxFailures /\ failures' = failures + 1 /\ disk' = new
  /\ outcome' = Append(outcome, "failed")
  /\ TickerAfter(saved /\ ok)
  /\ UNCHANGED <<now, slept, service, child, briefs, launches, crashes, toggles>>

\* Mutation: an exception out of tick ends the scheduler thread.
TickRaisedDies(ok) ==
  /\ Up /\ ticker.pc = "raised"
  /\ Save([data EXCEPT !.state = "error"], ok)
  /\ ticker' = [Idle EXCEPT !.pc = "dead"]
  /\ UNCHANGED <<now, slept, service, thread, outcome, child, briefs, launches, crashes, toggles>>

\* schedule_loop reports an exception; if that cannot be written the thread dies.
TickRaised(ok) ==
  /\ Up /\ ticker.pc = "raised"
  /\ Save([data EXCEPT !.state = "error"], ok)
  /\ ticker' = IF ok THEN Idle ELSE [Idle EXCEPT !.pc = "dead"]
  /\ UNCHANGED <<now, slept, service, thread, outcome, child, briefs, launches, crashes, toggles>>

-----------------------------------------------------------------------------
(* The service as a whole.                                                 *)

\* stop: nothing is launched any more, and what runs is killed.
Stop ==
  /\ service = "up"
  /\ service' = "stopping"
  /\ child' = {}
  /\ UNCHANGED <<now, slept, data, disk, thread, outcome, ticker, briefs, launches, failures, crashes, toggles>>

Gone ==
  /\ service' = "down"
  /\ data' = disk /\ ticker' = Idle
  /\ thread' = [j \in DOMAIN disk.jobs |-> "over"]
  /\ outcome' = [j \in DOMAIN disk.jobs |-> "interrupted"]

\* The threads are joined, for a while.
Stopped ==
  /\ service = "stopping"
  /\ Gone
  /\ UNCHANGED <<now, slept, disk, child, briefs, launches, failures, crashes, toggles>>

Crash ==
  /\ Up /\ crashes < MaxCrashes /\ crashes' = crashes + 1
  /\ Gone
  /\ UNCHANGED <<now, slept, disk, child, briefs, launches, failures, toggles>>

\* A kill after the process is started and before its job is saved as running.
CrashInLaunch(j) ==
  /\ service = "up" /\ thread[j] = "start"
  /\ crashes < MaxCrashes /\ crashes' = crashes + 1
  /\ Counted(data.jobs[j])
  /\ child' = child \cup {Process(data.jobs[j])}
  /\ Gone
  /\ UNCHANGED <<now, slept, disk, briefs, failures, toggles>>

\* A brief made by the command line program outside the service.
CliBrief(source, date) ==
  /\ <<source, date>> \notin briefs
  /\ briefs' = briefs \cup {<<source, date>>}
  /\ UNCHANGED <<now, slept, service, data, disk, thread, outcome, child, ticker, launches, failures, crashes, toggles>>

\* The scheduler thread of a service that is up has something to do.
Attends ==
  /\ service = "up"
  /\ \/ ticker.pc \in {"probing", "raised"}
     \/ ticker.pc = "idle" /\ Due

\* The rest of a day is long: the scheduler looks every five seconds and a probe takes
\* thirty.  Midnight passes before its step only when the machine sleeps, maybe into
\* the next morning.
Tick ==
  /\ now < MaxTime /\ now' = now + 1
  /\ slept' = IF DayOf(now + 1) # DayOf(now) /\ Attends
              THEN slept \cup {DayOf(now), DayOf(now + 1)} ELSE slept
  /\ UNCHANGED <<service, data, disk, thread, outcome, child, ticker, briefs, launches, failures, crashes, toggles>>

-----------------------------------------------------------------------------

JobStep(j) ==
  \/ \E ok \in BOOLEAN : Launch(j, ok) \/ Finish(j, ok)
  \/ NotLaunched(j) \/ TimeOut(j)
  \/ \E result \in Outcomes : Classify(j, result)

TickerStep ==
  \/ \E ok \in BOOLEAN : TickSettles(ok) \/ TickProbes(ok) \/ TickRaised(ok)
  \/ \E ready \in Readiness, ok \in BOOLEAN : TickWaits(ready, ok)
  \/ \E saved, ok \in BOOLEAN : TickSubmits(saved, ok)
  \/ TickSuperseded

Next ==
  \/ \E s \in Sources : Start(s)
  \/ \E r \in Requests, ok \in BOOLEAN : Submit(r, ok)
  \/ \E enabled, ok \in BOOLEAN : SetSchedule(enabled, ok)
  \/ \E j \in DOMAIN thread : JobStep(j)
  \/ \E p \in child, made \in BOOLEAN : Exit(p, made)
  \/ TickerStep
  \/ Stop \/ Stopped \/ Crash
  \/ \E j \in DOMAIN thread : CrashInLaunch(j)
  \/ \E s \in Sources, date \in Dates : CliBrief(s, date)
  \/ Tick

Spec == Init /\ [][Next]_vars

\* At most one job for each request and each target.
MaxJobs == Cardinality(Requests) + Cardinality(Sources) * Cardinality(Dates)

\* The threads of a service that is up are scheduled, and the clock runs.
FairSpec ==
  /\ Spec
  /\ \A j \in 1 .. MaxJobs : WF_vars(j \in DOMAIN thread /\ JobStep(j))
  /\ WF_vars(TickerStep) /\ WF_vars(Tick)

-----------------------------------------------------------------------------
(* Correctness.                                                            *)

Data == [jobs : Seq(Job), source : Sources, enabled : BOOLEAN,
         state : {"disabled", "scheduled", "checking_inputs", "waiting", "submitted",
                  "skipped", "expired", "error"},
         notBefore : Nat, nextCheck : Nat, day : Nat \cup {-1}, checks : 0 .. MaxChecks,
         targets : SUBSET (Sources \X Dates)]

\* Type invariant.
TypeOK ==
  /\ now \in 0 .. MaxTime /\ slept \subseteq Nat /\ service \in {"up", "stopping", "down"}
  /\ data \in Data /\ disk \in Data
  /\ thread \in Seq({"none", "start", "wait", "returned", "over"})
  /\ outcome \in Seq(Outcomes)
  /\ Len(thread) = Len(data.jobs) /\ Len(outcome) = Len(data.jobs)
  /\ child \subseteq {Process(job) : job \in Job}
  /\ ticker \in [pc : {"idle", "probing", "raised", "dead"}, date : Dates \cup {NoDate},
                  day : Nat, generation : Nat]
  /\ briefs \subseteq Sources \X Dates /\ launches \in Seq(Sources \X Dates)
  /\ failures \in 0 .. MaxFailures /\ crashes \in 0 .. MaxCrashes /\ toggles \in 0 .. MaxToggles

\* "Only one actual scheduled engine attempt per target" of a source, whatever is
\* killed, restarted, switched off and on or cannot be written: submit consumes the
\* attempt before it starts the thread.
ScheduledOnce == \A i, k \in DOMAIN launches : launches[i] = launches[k] => i = k

\* Jobs are serialized, also across a kill of the service whose job lives on.
OneJobAtATime == Cardinality(child) <= 1

\* A job that has a thread ends, unless the service does: the runner has a deadline.
JobsEnd ==
  \A j \in 1 .. MaxJobs :
    (Up /\ j \in DOMAIN thread /\ thread[j] \in {"start", "wait", "returned"})
      ~> (~ Up \/ (j \in DOMAIN thread /\ data.jobs[j].state \in Outcomes))

\* What the schedule says of a morning that is over: its brief is submitted, or there
\* was one or an attempt before, or it is on record as missed or failed.
Recorded(d) ==
  LET target == <<data.source, Target[d]>> IN
  /\ data.day = d /\ data.nextCheck > End(d)
  /\ \/ data.state = "submitted" /\ target \in data.targets
     \/ data.state = "skipped" /\ target \in data.targets \cup briefs
     \/ data.state \in {"expired", "error"}

\* Every morning that an enabled schedule is awake for comes to be recorded, although a
\* write of state.json may fail, a job or missing inputs hold it up and a probe outlasts
\* it: unless the service stops, the schedule is changed or the machine sleeps.
MorningsAreSettled ==
  \A d \in DOMAIN Target :
    (service = "up" /\ data.enabled /\ data.notBefore <= Morning(d) /\ now \in Morning(d) .. End(d) + 1)
      ~> (Recorded(d) \/ service # "up" \/ ~ data.enabled \/ data.notBefore > Morning(d) \/ d \in slept)

-----------------------------------------------------------------------------
(* The inductive invariant behind the safety properties                    *)
(* (ControlServiceProofs).                                                 *)

\* What is on disk is known in memory; later jobs may be in memory only.
JobsAreKept ==
  /\ Len(disk.jobs) <= Len(data.jobs)
  /\ \A j \in DOMAIN disk.jobs : /\ Process(disk.jobs[j]) = Process(data.jobs[j])
                                 /\ disk.jobs[j].scheduled = data.jobs[j].scheduled

\* A job of the scheduler is named by its target, and the target is marked with it.
AttemptsAreMarked ==
  \A known \in {data, disk} : \A j \in DOMAIN known.jobs :
    LET job == known.jobs[j] IN
      IF job.scheduled THEN job.id = <<job.source, job.date>> /\ job.id \in known.targets
                       ELSE \E r \in Requests : job.id = r.id

\* What the scheduler has launched is on disk and is not launched again.
LaunchesAreOnDisk ==
  /\ \A i \in DOMAIN launches : \E j \in DOMAIN disk.jobs : disk.jobs[j].id = launches[i]
  /\ \A j \in DOMAIN thread : thread[j] = "start" =>
       /\ j \in DOMAIN disk.jobs
       /\ data.jobs[j].scheduled => \A i \in DOMAIN launches : launches[i] # data.jobs[j].id

\* A job that is starting or running has its thread or none, and it is the only one.
ThreadsAreLive ==
  /\ \A j \in DOMAIN thread : Up /\ data.jobs[j].state \in Live <=> thread[j] # "over"
  /\ \A i, j \in DOMAIN thread : thread[i] # "over" /\ thread[j] # "over" => i = j

\* The process of a service that is up belongs to the job whose thread waits for it.
ChildrenAreWaitedFor ==
  Up => \A p \in child : \E j \in DOMAIN thread : thread[j] = "wait" /\ p = Process(data.jobs[j])

\* OneJobAtATime of a set that may not be finite.
OneProcess == \A p, q \in child : p = q

\* The target of a probe has not been attempted.
ProbesAreNew ==
  ticker.pc = "probing" => ticker.date # NoDate /\ <<data.source, ticker.date>> \notin data.targets

IInv ==
  /\ TypeOK /\ JobsAreKept /\ AttemptsAreMarked /\ LaunchesAreOnDisk /\ ThreadsAreLive
  /\ ChildrenAreWaitedFor /\ ProbesAreNew /\ OneProcess /\ ScheduledOnce
=============================================================================
