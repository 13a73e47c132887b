------------------------ MODULE ControlServiceProofs ------------------------
(***************************************************************************)
(* Proofs about ControlService for every set of requests and sources, every  *)
(* calendar, and wherever a write of state.json fails or the service is      *)
(* killed.                                                                  *)
(*                                                                         *)
(* That an attempt is single rests on the order of submit: a thread is there *)
(* to launch a job only if the job is on disk, what is on disk stays there   *)
(* and comes back after a restart, and a job is only added under an id that  *)
(* no job has.  That jobs are serialized rests on the lock: while a service  *)
(* is up every process belongs to the one job whose thread waits for it, and *)
(* a service that is gone leaves at most that process, for which the next    *)
(* one waits before it starts.                                              *)
(***************************************************************************)
EXTENDS ControlService, FiniteSetTheorems, SequenceTheorems, TLAPS

-----------------------------------------------------------------------------
(* The calendar.                                                           *)

LEMMA DivisionIsMonotone ==
  ASSUME NEW s \in Nat \ {0}, NEW t \in Nat, NEW m \in Nat, t <= m
  PROVE  t \div s \in Nat /\ t \div s <= m \div s
  OBVIOUS

LEMMA DaysAreKnown ==
  ASSUME NEW t \in 0 .. MaxTime
  PROVE  /\ DayOf(t) \in Nat /\ DayOf(t) \in DOMAIN Target
         /\ NextMorning(t) \in Nat
<1>1. DayOf(t) \in Nat /\ DayOf(t) <= MaxTime \div (Window + 2)
  <2>1. Window + 2 \in Nat \ {0} /\ MaxTime \in Nat /\ t \in Nat /\ t <= MaxTime
    BY ControlAssumption
  <2> QED
    BY <2>1, DivisionIsMonotone DEF DayOf, SlotsPerDay
<1>2. MaxTime \div (Window + 2) \in Nat
  BY DivisionIsMonotone, ControlAssumption
<1>3. \A d \in Nat : Morning(d) \in Nat
  BY ControlAssumption DEF Morning, SlotsPerDay
<1>4. DayOf(t) \in DOMAIN Target
  BY <1>1, <1>2, ControlAssumption
<1> QED
  BY <1>1, <1>3, <1>4 DEF NextMorning

LEMMA MorningsAreNat ==
  ASSUME NEW d \in Nat
  PROVE  Morning(d) \in Nat /\ NextMorning(Morning(d)) \in Nat
<1>1. Morning(d) \in Nat
  BY ControlAssumption DEF Morning, SlotsPerDay
<1>2. DayOf(Morning(d)) \in Nat
  BY <1>1, DivisionIsMonotone, ControlAssumption DEF DayOf, SlotsPerDay
<1>3. \A e \in Nat : Morning(e) \in Nat
  BY ControlAssumption DEF Morning, SlotsPerDay
<1> QED
  BY <1>1, <1>2, <1>3 DEF NextMorning

-----------------------------------------------------------------------------
(* Writes of the schedule: the jobs and the attempts stay.                  *)

Tickers == [pc : {"idle", "probing", "raised", "dead"}, date : Dates \cup {NoDate},
            day : Nat, generation : Nat]

ScheduleWritten ==
  /\ data' \in Data /\ disk' \in {data', disk}
  /\ data'.jobs = data.jobs /\ data'.targets = data.targets /\ data'.source = data.source
  /\ failures' \in 0 .. MaxFailures /\ toggles' \in 0 .. MaxToggles
  /\ ticker' \in Tickers /\ ProbesAreNew'
  /\ UNCHANGED <<now, slept, service, thread, outcome, child, briefs, launches, crashes>>

LEMMA DiskIsKnown ==
  ASSUME IInv
  PROVE  \A j \in DOMAIN disk.jobs : j \in DOMAIN data.jobs /\ data.jobs[j].id = disk.jobs[j].id
                                     /\ data.jobs[j].scheduled = disk.jobs[j].scheduled
<1>1. data.jobs \in Seq(Job) /\ disk.jobs \in Seq(Job)
  BY DEF IInv, TypeOK, Data
<1>2. DOMAIN disk.jobs \subseteq DOMAIN data.jobs
  BY <1>1 DEF IInv, JobsAreKept
<1>3. \A j \in DOMAIN disk.jobs : Process(disk.jobs[j]).id = Process(data.jobs[j]).id
                                 /\ disk.jobs[j].scheduled = data.jobs[j].scheduled
  BY DEF IInv, JobsAreKept
<1> QED
  BY <1>2, <1>3 DEF Process

LEMMA ScheduleKeeps ==
  ASSUME IInv, ScheduleWritten
  PROVE  IInv'
<1>1. TypeOK'
  BY DEF IInv, TypeOK, ScheduleWritten, Tickers
<1>2. JobsAreKept'
  <2>1. CASE disk' = disk
    BY <2>1 DEF IInv, JobsAreKept, ScheduleWritten
  <2>2. CASE disk' = data'
    BY <2>2, <1>1 DEF JobsAreKept, TypeOK, Data
  <2> QED
    BY <2>1, <2>2 DEF ScheduleWritten
<1>3. AttemptsAreMarked'
  BY DEF IInv, AttemptsAreMarked, ScheduleWritten
<1>4. LaunchesAreOnDisk'
  <2>1. CASE disk' = disk
    BY <2>1 DEF IInv, LaunchesAreOnDisk, ScheduleWritten
  <2>2. CASE disk' = data'
    <3>1. \A j \in DOMAIN disk.jobs : j \in DOMAIN data.jobs /\ data.jobs[j].id = disk.jobs[j].id
      BY DiskIsKnown
    <3> QED
      BY <2>2, <3>1 DEF IInv, LaunchesAreOnDisk, ScheduleWritten
  <2> QED
    BY <2>1, <2>2 DEF ScheduleWritten
<1>5. ThreadsAreLive' /\ ChildrenAreWaitedFor' /\ OneProcess' /\ ScheduledOnce'
  BY DEF IInv, ThreadsAreLive, ChildrenAreWaitedFor, OneProcess, ScheduledOnce, ScheduleWritten, Up
<1> QED
  BY <1>1, <1>2, <1>3, <1>4, <1>5 DEF IInv, ScheduleWritten

LEMMA SaveFails ==
  ASSUME IInv, NEW new \in Data, NEW ok \in BOOLEAN, Save(new, ok)
  PROVE  data' = new /\ disk' \in {new, disk} /\ failures' \in 0 .. MaxFailures
         /\ (ok => disk' = new) /\ (~ ok => disk' = disk)
  BY ControlAssumption DEF IInv, TypeOK, Save

LEMMA SetScheduleKeeps ==
  ASSUME IInv, NEW enabled \in BOOLEAN, NEW ok \in BOOLEAN, SetSchedule(enabled, ok)
  PROVE  IInv'
<1> DEFINE new == [data EXCEPT !.enabled = enabled, !.state = IF enabled THEN "scheduled" ELSE "disabled",
                       !.notBefore = IF enabled THEN NextMorning(now) ELSE 0,
                       !.nextCheck = IF enabled THEN NextMorning(now) ELSE 0,
                       !.day = -1, !.checks = 0]
<1>1. NextMorning(now) \in Nat
  BY DaysAreKnown DEF IInv, TypeOK
<1>2. new \in Data
  <2>1. data \in Data /\ 0 \in Nat /\ -1 \in Nat \cup {-1} /\ 0 \in 0 .. MaxChecks
    BY ControlAssumption DEF IInv, TypeOK
  <2>2. CASE enabled
    BY <1>1, <2>1, <2>2 DEF Data
  <2>3. CASE ~ enabled
    BY <1>1, <2>1, <2>3 DEF Data
  <2> QED
    BY <2>2, <2>3
<1>3. Save(new, ok)
  BY DEF SetSchedule
<1>4. data' = new /\ disk' \in {new, disk} /\ failures' \in 0 .. MaxFailures
  BY <1>2, <1>3, SaveFails
<1>5. data'.jobs = data.jobs /\ data'.targets = data.targets /\ data'.source = data.source
  BY <1>4 DEF IInv, TypeOK, Data
<1>6. toggles' \in 0 .. MaxToggles
  BY ControlAssumption DEF SetSchedule, IInv, TypeOK
<1>7. ticker' \in Tickers /\ ProbesAreNew'
  BY <1>5 DEF SetSchedule, IInv, TypeOK, Tickers, ProbesAreNew
<1> QED
  BY <1>2, <1>4, <1>5, <1>6, <1>7, ScheduleKeeps DEF ScheduleWritten, SetSchedule

\* What every outcome of a tick writes.
LEMMA SettledIsData ==
  ASSUME IInv, NEW state \in {"expired", "error", "skipped", "checking_inputs"}
  PROVE  /\ Settled(state) \in Data
         /\ Settled(state).jobs = data.jobs /\ Settled(state).targets = data.targets
         /\ Settled(state).source = data.source
         /\ Settled(state).checks = ChecksToday /\ ChecksToday \in 0 .. MaxChecks
<1>1. DayOf(now) \in Nat /\ NextMorning(now) \in Nat
  BY DaysAreKnown DEF IInv, TypeOK
<1>2. ChecksToday \in 0 .. MaxChecks
  BY ControlAssumption DEF ChecksToday, IInv, TypeOK, Data
<1> QED
  BY <1>1, <1>2 DEF Settled, IInv, TypeOK, Data

LEMMA IdleTickers ==
  /\ Idle \in Tickers /\ Idle.pc # "probing"
  /\ \A state \in {"raised", "dead"} : /\ [Idle EXCEPT !.pc = state] \in Tickers
                                      /\ [Idle EXCEPT !.pc = state].pc # "probing"
  BY DEF Idle, Tickers

LEMMA TickWrites ==
  ASSUME IInv, NEW new \in Data, NEW ok \in BOOLEAN, Save(new, ok),
         new.jobs = data.jobs, new.targets = data.targets, new.source = data.source,
         ticker' \in Tickers, ProbesAreNew',
         UNCHANGED <<now, slept, service, thread, outcome, child, briefs, launches, crashes, toggles>>
  PROVE  IInv'
<1>1. data' = new /\ disk' \in {new, disk} /\ failures' \in 0 .. MaxFailures
  BY SaveFails
<1>2. toggles' \in 0 .. MaxToggles
  BY DEF IInv, TypeOK
<1> QED
  BY <1>1, <1>2, ScheduleKeeps DEF ScheduleWritten

LEMMA TickSettlesKeeps ==
  ASSUME IInv, NEW ok \in BOOLEAN, TickSettles(ok)
  PROVE  IInv'
<1>1. ticker' \in Tickers /\ ProbesAreNew'
  BY IdleTickers DEF TickSettles, TickerAfter, ProbesAreNew
<1>2. PICK state \in {"expired", "error", "skipped"} : Save(Settled(state), ok)
  BY DEF TickSettles
<1> QED
  BY <1>1, <1>2, SettledIsData, TickWrites DEF TickSettles

LEMMA TickProbesKeeps ==
  ASSUME IInv, NEW ok \in BOOLEAN, TickProbes(ok)
  PROVE  IInv'
<1> DEFINE old == Settled("checking_inputs")
           new == [old EXCEPT !.checks = @ + 1, !.nextCheck = now + 1]
<1>1. /\ old \in Data /\ old.checks = ChecksToday /\ ChecksToday \in 0 .. MaxChecks
      /\ old.jobs = data.jobs /\ old.targets = data.targets /\ old.source = data.source
  BY SettledIsData
<1>2. ChecksToday < MaxChecks
  BY <1>1, ControlAssumption DEF TickProbes, Expired
<1>3. now + 1 \in Nat
  BY DEF IInv, TypeOK
<1> HIDE DEF old
<1>4. new \in Data /\ new.jobs = data.jobs /\ new.targets = data.targets /\ new.source = data.source
  <2>1. old.checks + 1 \in 0 .. MaxChecks
    BY <1>1, <1>2, ControlAssumption
  <2> QED
    BY <1>1, <1>3, <2>1 DEF Data
<1>5. Save(new, ok)
  BY DEF TickProbes, old
<1>6. Target[DayOf(now)] \in Dates /\ DayOf(now) \in Nat /\ data.notBefore \in Nat
      /\ Target[DayOf(now)] # NoDate
  BY DaysAreKnown DEF TickProbes, IInv, TypeOK, Data, Dates
<1>7. ticker' \in Tickers
  BY <1>6, IdleTickers DEF TickProbes, Tickers
<1>8. ProbesAreNew'
  <2>1. data' = new
    BY <1>5 DEF Save
  <2>2. ticker'.pc = "probing" => ticker'.date = Target[DayOf(now)]
    BY IdleTickers DEF TickProbes
  <2> QED
    BY <2>1, <2>2, <1>4, <1>6 DEF TickProbes, Taken, ProbesAreNew
<1> QED
  BY <1>4, <1>5, <1>7, <1>8, TickWrites DEF TickProbes

LEMMA TickWaitsKeeps ==
  ASSUME IInv, NEW ready, NEW ok \in BOOLEAN, TickWaits(ready, ok)
  PROVE  IInv'
<1>1. ticker' \in Tickers /\ ProbesAreNew'
  BY IdleTickers DEF TickWaits, TickerAfter, ProbesAreNew
<1>2. NextMorning(now) \in Nat
  BY DaysAreKnown DEF IInv, TypeOK
<1>3. PICK new : /\ new \in {[data EXCEPT !.state = "expired", !.nextCheck = NextMorning(now)],
                              [data EXCEPT !.state = "waiting"]}
                 /\ Save(new, ok)
  BY DEF TickWaits
<1>4. new \in Data /\ new.jobs = data.jobs /\ new.targets = data.targets /\ new.source = data.source
  BY <1>2, <1>3 DEF IInv, TypeOK, Data
<1> QED
  BY <1>1, <1>3, <1>4, TickWrites DEF TickWaits

LEMMA TickRaisedKeeps ==
  ASSUME IInv, NEW ok \in BOOLEAN, TickRaised(ok)
  PROVE  IInv'
<1> DEFINE new == [data EXCEPT !.state = "error"]
<1>1. ticker' \in Tickers /\ ProbesAreNew'
  BY IdleTickers DEF TickRaised, ProbesAreNew
<1>2. new \in Data /\ new.jobs = data.jobs /\ new.targets = data.targets /\ new.source = data.source
  BY DEF IInv, TypeOK, Data
<1>3. Save(new, ok)
  BY DEF TickRaised
<1> QED
  BY <1>1, <1>2, <1>3, TickWrites DEF TickRaised

LEMMA TickSupersededKeeps ==
  ASSUME IInv, TickSuperseded
  PROVE  IInv'
<1>1. ticker' \in Tickers /\ ProbesAreNew'
  BY IdleTickers DEF TickSuperseded, ProbesAreNew
<1> QED
  BY <1>1, ScheduleKeeps DEF ScheduleWritten, TickSuperseded, IInv, TypeOK

-----------------------------------------------------------------------------
(* A job is added.                                                          *)

\* While no job is live no thread is, and no process.
LEMMA NothingRuns ==
  ASSUME IInv, Up, ~ Busy
  PROVE  (\A j \in DOMAIN thread : thread[j] = "over") /\ child = {}
<1>1. DOMAIN thread = DOMAIN data.jobs
  BY DEF IInv, TypeOK, Data
<1>2. \A j \in DOMAIN thread : thread[j] = "over"
  BY <1>1 DEF IInv, ThreadsAreLive, Busy
<1> QED
  BY <1>2 DEF IInv, ChildrenAreWaitedFor

\* A job that is not known has not been launched: what was launched is on disk.
LEMMA NewIsNotLaunched ==
  ASSUME IInv, NEW id, ~ Known(id)
  PROVE  \A i \in DOMAIN launches : launches[i] # id
  BY DiskIsKnown DEF IInv, LaunchesAreOnDisk, Known

\* The target of a probe names no job: the guard of TickSubmits holds by itself.
LEMMA ProbedIsNotKnown ==
  ASSUME IInv, ticker.pc = "probing"
  PROVE  ~ Known(<<data.source, ticker.date>>)
<1>1. data.source \in Sources /\ ticker.date \in Dates
  BY DEF IInv, TypeOK, Data, ProbesAreNew
<1>2. SUFFICES ASSUME NEW j \in DOMAIN data.jobs, data.jobs[j].id = <<data.source, ticker.date>>
               PROVE  FALSE
  BY DEF Known
<1>3. CASE data.jobs[j].scheduled
  BY <1>2, <1>3 DEF IInv, AttemptsAreMarked, ProbesAreNew
<1>4. CASE ~ data.jobs[j].scheduled
  <2>1. PICK r \in Requests : data.jobs[j].id = r.id
    BY <1>4 DEF IInv, AttemptsAreMarked
  <2>2. r.id \notin Sources \X Dates
    BY ControlAssumption
  <2>3. <<data.source, ticker.date>> \in Sources \X Dates
    BY <1>1
  <2> QED
    BY <1>2, <2>1, <2>2, <2>3
<1> QED
  BY <1>3, <1>4

Added(job, saved) ==
  /\ service = "up" /\ ~ Busy /\ ~ Known(job.id) /\ job.state = "starting"
  /\ IF job.scheduled THEN job.id = <<job.source, job.date>> /\ job.id \in data'.targets
                      ELSE \E r \in Requests : job.id = r.id
  /\ data' \in Data /\ data'.jobs = Append(data.jobs, job) /\ data'.source = data.source
  /\ data.targets \subseteq data'.targets
  /\ disk' \in Data /\ disk'.targets \in {data'.targets, disk.targets}
  /\ IF saved THEN disk'.jobs = data'.jobs /\ disk'.targets = data'.targets ELSE disk' = disk
  /\ thread' = Append(thread, IF saved THEN "start" ELSE "none")
  /\ outcome' = Append(outcome, "failed")
  /\ failures' \in 0 .. MaxFailures
  /\ ticker' \in Tickers /\ ProbesAreNew'
  /\ UNCHANGED <<now, slept, service, child, briefs, launches, crashes, toggles>>

LEMMA AddedKeeps ==
  ASSUME IInv, NEW job \in Job, NEW saved \in BOOLEAN, Added(job, saved)
  PROVE  IInv'
<1> DEFINE n == Len(data.jobs) + 1
           mode == IF saved THEN "start" ELSE "none"
<1>1. /\ data.jobs \in Seq(Job) /\ disk.jobs \in Seq(Job) /\ launches \in Seq(Sources \X Dates)
      /\ thread \in Seq({"none", "start", "wait", "returned", "over"}) /\ outcome \in Seq(Outcomes)
      /\ Len(thread) = Len(data.jobs) /\ Len(outcome) = Len(data.jobs) /\ n \in Nat
      /\ mode \in {"none", "start"} /\ "failed" \in Outcomes
  BY DEF IInv, TypeOK, Data, Outcomes
<1>2. (\A j \in DOMAIN thread : thread[j] = "over") /\ child = {}
  BY NothingRuns DEF Added, Up
<1>3. /\ Len(data'.jobs) = n /\ DOMAIN data'.jobs = 1 .. n /\ data'.jobs[n] = job
      /\ \A j \in DOMAIN data.jobs : j \in 1 .. n /\ data'.jobs[j] = data.jobs[j]
      /\ \A j \in 1 .. n : j = n \/ j \in DOMAIN data.jobs
  BY <1>1 DEF Added
<1>4. /\ thread' \in Seq({"none", "start", "wait", "returned", "over"})
      /\ Len(thread') = n /\ DOMAIN thread' = 1 .. n /\ thread'[n] = mode
      /\ \A j \in DOMAIN thread : j \in 1 .. n /\ thread'[j] = "over"
      /\ \A j \in 1 .. n : j = n \/ j \in DOMAIN thread
  BY <1>1, <1>2 DEF Added
<1>5. outcome' \in Seq(Outcomes) /\ Len(outcome') = n
  BY <1>1 DEF Added
<1>6. TypeOK'
  BY <1>3, <1>4, <1>5 DEF IInv, TypeOK, Added, Tickers
<1>7. JobsAreKept'
  <2>1. CASE saved
    BY <2>1, <1>3 DEF JobsAreKept, Added
  <2>2. CASE ~ saved
    <3>1. disk' = disk
      BY <2>2 DEF Added
    <3>2. \A j \in DOMAIN disk.jobs : j \in DOMAIN data.jobs
      BY DiskIsKnown
    <3> QED
      BY <3>1, <3>2, <1>1, <1>3 DEF IInv, JobsAreKept
  <2> QED
    BY <2>1, <2>2
<1>8. AttemptsAreMarked'
  <2> DEFINE Marked(j, target, targets) ==
               IF j.scheduled THEN j.id = <<j.source, j.date>> /\ j.id \in targets
                              ELSE \E r \in Requests : j.id = r.id
  <2>1. /\ \A j \in DOMAIN data.jobs : Marked(data.jobs[j], 0, data.targets)
        /\ \A j \in DOMAIN disk.jobs : Marked(disk.jobs[j], 0, disk.targets)
    BY DEF IInv, AttemptsAreMarked
  <2>2. \A j \in DOMAIN data'.jobs : Marked(data'.jobs[j], 0, data'.targets)
    <3>1. Marked(job, 0, data'.targets)
      BY DEF Added
    <3> QED
      BY <2>1, <3>1, <1>3 DEF Added
  <2>3. \A j \in DOMAIN disk'.jobs : Marked(disk'.jobs[j], 0, disk'.targets)
    <3>1. CASE saved
      BY <2>2, <3>1 DEF Added
    <3>2. CASE ~ saved
      BY <2>1, <3>2 DEF Added
    <3> QED
      BY <3>1, <3>2
  <2> QED
    BY <2>2, <2>3 DEF AttemptsAreMarked
<1>9. LaunchesAreOnDisk'
  <2>1. launches' = launches
    BY DEF Added
  <2>2. \A i \in DOMAIN launches : \E j \in DOMAIN disk'.jobs : disk'.jobs[j].id = launches[i]
    <3>1. \A j \in DOMAIN disk.jobs : j \in DOMAIN disk'.jobs /\ disk'.jobs[j].id = disk.jobs[j].id
      <4>1. CASE saved
        BY <4>1, <1>3, DiskIsKnown DEF Added
      <4>2. CASE ~ saved
        BY <4>2 DEF Added
      <4> QED
        BY <4>1, <4>2
    <3> QED
      BY <3>1 DEF IInv, LaunchesAreOnDisk
  <2>3. ASSUME NEW j \in DOMAIN thread', thread'[j] = "start"
        PROVE  /\ j \in DOMAIN disk'.jobs
               /\ \A i \in DOMAIN launches : launches[i] # data'.jobs[j].id
    <3>1. j = n /\ saved
      BY <2>3, <1>4
    <3> QED
      BY <3>1, <1>3, NewIsNotLaunched DEF Added
  <2> QED
    BY <2>1, <2>2, <2>3 DEF LaunchesAreOnDisk
<1>10. ThreadsAreLive'
  <2>1. \A j \in DOMAIN thread : ~ (data'.jobs[j].state \in Live)
    <3>1. \A j \in DOMAIN thread : j \in DOMAIN data.jobs
      BY <1>1
    <3> QED
      BY <3>1, <1>3 DEF Added, Busy
  <2>2. data'.jobs[n].state \in Live /\ thread'[n] # "over" /\ Up'
    BY <1>3, <1>4 DEF Added, Live, Up
  <2> QED
    BY <1>4, <2>1, <2>2 DEF ThreadsAreLive
<1>11. ChildrenAreWaitedFor' /\ OneProcess' /\ ScheduledOnce'
  BY <1>2 DEF IInv, Added, ChildrenAreWaitedFor, OneProcess, ScheduledOnce
<1> QED
  BY <1>6, <1>7, <1>8, <1>9, <1>10, <1>11 DEF IInv, Added

LEMMA SubmitKeeps ==
  ASSUME IInv, NEW r \in Requests, NEW ok \in BOOLEAN, Submit(r, ok)
  PROVE  IInv'
<1> DEFINE job == NewJob(r.id, r.kind, r.date, FALSE)
           new == [data EXCEPT !.jobs = Append(@, job)]
<1>1. /\ job \in Job /\ job.id = r.id /\ job.state = "starting" /\ job.scheduled = FALSE
  BY ControlAssumption DEF NewJob, Job, Live, IInv, TypeOK, Data
<1> HIDE DEF job
<1>2. data.jobs \in Seq(Job) /\ Append(data.jobs, job) \in Seq(Job)
  BY <1>1 DEF IInv, TypeOK, Data
<1>3. new \in Data /\ new.jobs = Append(data.jobs, job) /\ new.source = data.source
      /\ new.targets = data.targets
  BY <1>2 DEF IInv, TypeOK, Data
<1>4. Save(new, ok)
  BY DEF Submit, job
<1>5. data' = new /\ failures' \in 0 .. MaxFailures /\ (ok => disk' = new) /\ (~ ok => disk' = disk)
  BY <1>3, <1>4, SaveFails
<1>6. ticker' \in Tickers /\ ProbesAreNew'
  BY <1>3, <1>5 DEF Submit, IInv, TypeOK, Tickers, ProbesAreNew
<1>7. disk' \in Data
  BY <1>3, <1>5 DEF IInv, TypeOK
<1> HIDE DEF new
<1>8. Added(job, ok)
  BY <1>1, <1>3, <1>5, <1>6, <1>7 DEF Added, Submit
<1> QED
  BY <1>1, <1>8, AddedKeeps

LEMMA TickSubmitsKeeps ==
  ASSUME IInv, NEW saved \in BOOLEAN, NEW ok \in BOOLEAN, TickSubmits(saved, ok)
  PROVE  IInv'
<1> DEFINE job == NewJob(<<data.source, ticker.date>>, "brief", ticker.date, TRUE)
           new == Attempted(job)
           end == [new EXCEPT !.state = "submitted", !.nextCheck = NextMorning(Morning(ticker.day))]
<1>1. data.source \in Sources /\ ticker.date \in Dates /\ ticker.day \in Nat
  BY DEF TickSubmits, IInv, TypeOK, Data, ProbesAreNew
<1>2. /\ job \in Job /\ job.id = <<data.source, ticker.date>> /\ job.state = "starting"
      /\ job.scheduled = TRUE /\ job.source = data.source /\ job.date = ticker.date
  BY <1>1 DEF NewJob, Job, Live
<1> HIDE DEF job
<1>3. data.jobs \in Seq(Job) /\ Append(data.jobs, job) \in Seq(Job)
  BY <1>2 DEF IInv, TypeOK, Data
<1>4. /\ new \in Data /\ new.jobs = Append(data.jobs, job) /\ new.source = data.source
      /\ new.targets = data.targets \cup {job.id}
  <2>1. data \in Data
    BY DEF IInv, TypeOK
  <2>2. new = [data EXCEPT !.jobs = Append(data.jobs, job), !.targets = data.targets \cup {job.id}]
    BY <1>2, <2>1 DEF Attempted, Data
  <2>3. data.targets \cup {job.id} \in SUBSET (Sources \X Dates)
    BY <1>1, <1>2, <2>1 DEF Data
  <2> QED
    BY <1>3, <2>1, <2>2, <2>3 DEF Data
<1>5. NextMorning(Morning(ticker.day)) \in Nat
  BY <1>1, MorningsAreNat
<1> HIDE DEF new
<1>6. end \in Data /\ end.jobs = new.jobs /\ end.source = new.source /\ end.targets = new.targets
  BY <1>4, <1>5 DEF Data
<1>7. IF ~ saved THEN Save(new, FALSE) /\ thread' = Append(thread, "none")
      ELSE /\ data' = end /\ thread' = Append(thread, "start")
           /\ \/ ok /\ disk' = end /\ UNCHANGED failures
              \/ ~ ok /\ failures < MaxFailures /\ failures' = failures + 1 /\ disk' = new
  BY DEF TickSubmits, job, new
<1> HIDE DEF end
<1>8. /\ data' \in {new, end} /\ failures' \in 0 .. MaxFailures
      /\ IF saved THEN disk' \in {new, end} /\ thread' = Append(thread, "start")
                  ELSE disk' = disk /\ thread' = Append(thread, "none")
  BY <1>7, ControlAssumption DEF Save, IInv, TypeOK
<1>9. ticker' \in Tickers /\ ProbesAreNew'
  BY IdleTickers DEF TickSubmits, TickerAfter, ProbesAreNew
<1>10. disk' \in Data /\ data' \in Data
  BY <1>4, <1>6, <1>8 DEF IInv, TypeOK
<1>11. Added(job, saved)
  BY <1>2, <1>4, <1>6, <1>8, <1>9, <1>10 DEF Added, TickSubmits
<1> QED
  BY <1>2, <1>11, AddedKeeps

-----------------------------------------------------------------------------
(* The thread of a job.                                                     *)

LEMMA ThreadsHaveJobs ==
  ASSUME IInv
  PROVE  /\ data.jobs \in Seq(Job) /\ disk.jobs \in Seq(Job)
         /\ thread \in Seq({"none", "start", "wait", "returned", "over"}) /\ outcome \in Seq(Outcomes)
         /\ DOMAIN thread = DOMAIN data.jobs /\ DOMAIN outcome = DOMAIN data.jobs
  BY DEF IInv, TypeOK, Data

\* The state of job j is written in memory.
Written(j, state) == [data EXCEPT !.jobs[j].state = state]

LEMMA WrittenKeepsJobs ==
  ASSUME IInv, NEW j \in DOMAIN data.jobs, NEW state \in Live \cup Outcomes
  PROVE  /\ Written(j, state) \in Data
         /\ DOMAIN Written(j, state).jobs = DOMAIN data.jobs
         /\ Len(Written(j, state).jobs) = Len(data.jobs)
         /\ Written(j, state).source = data.source /\ Written(j, state).targets = data.targets
         /\ \A k \in DOMAIN data.jobs :
              /\ Written(j, state).jobs[k] \in Job
              /\ Written(j, state).jobs[k].scheduled = data.jobs[k].scheduled
              /\ Written(j, state).jobs[k].id = data.jobs[k].id
              /\ Written(j, state).jobs[k].source = data.jobs[k].source
              /\ Written(j, state).jobs[k].date = data.jobs[k].date
              /\ Process(Written(j, state).jobs[k]) = Process(data.jobs[k])
              /\ Written(j, state).jobs[k].state = IF k = j THEN state ELSE data.jobs[k].state
<1> DEFINE job == [data.jobs[j] EXCEPT !.state = state]
           jobs == [data.jobs EXCEPT ![j] = job]
<1>1. data \in Data /\ data.jobs \in Seq(Job) /\ data.jobs[j] \in Job
  BY DEF IInv, TypeOK, Data
<1>2. /\ job \in Job /\ job.state = state /\ job.scheduled = data.jobs[j].scheduled
      /\ job.id = data.jobs[j].id /\ job.source = data.jobs[j].source /\ job.date = data.jobs[j].date
      /\ job.kind = data.jobs[j].kind
  BY <1>1 DEF Job
<1>3. Written(j, state) = [data EXCEPT !.jobs = jobs]
  BY <1>1 DEF Written, Data
<1> HIDE DEF job
<1>4. /\ jobs \in Seq(Job) /\ DOMAIN jobs = DOMAIN data.jobs /\ Len(jobs) = Len(data.jobs)
      /\ \A k \in DOMAIN data.jobs : jobs[k] = IF k = j THEN job ELSE data.jobs[k]
  BY <1>1, <1>2, ExceptSeq
<1> HIDE DEF jobs
<1>5. /\ Written(j, state) \in Data /\ Written(j, state).jobs = jobs
      /\ Written(j, state).source = data.source /\ Written(j, state).targets = data.targets
  BY <1>1, <1>3, <1>4 DEF Data
<1>6. \A k \in DOMAIN data.jobs : data.jobs[k] \in Job
  BY <1>1
<1> QED
  BY <1>2, <1>4, <1>5, <1>6 DEF Process

\* A thread that is to start a process is alone, and there is no process yet.
LEMMA StartsAlone ==
  ASSUME IInv, NEW j \in DOMAIN thread, thread[j] = "start"
  PROVE  child = {} /\ j \in DOMAIN disk.jobs
<1>1. j \in DOMAIN disk.jobs
  BY DEF IInv, LaunchesAreOnDisk
<1>2. Up
  BY DEF IInv, ThreadsAreLive
<1> QED
  BY <1>1, <1>2 DEF IInv, ThreadsAreLive, ChildrenAreWaitedFor

\* A scheduled job whose process is started is counted, once.
LEMMA CountedOnce ==
  ASSUME IInv, NEW j \in DOMAIN thread, thread[j] = "start", Counted(data.jobs[j])
  PROVE  /\ launches' \in Seq(Sources \X Dates)
         /\ \A i, k \in DOMAIN launches' : launches'[i] = launches'[k] => i = k
         /\ \A i \in DOMAIN launches' : \E k \in DOMAIN disk.jobs : disk.jobs[k].id = launches'[i]
<1> DEFINE job == data.jobs[j]
           n == Len(launches) + 1
<1>1. /\ launches \in Seq(Sources \X Dates) /\ \A i, k \in DOMAIN launches : launches[i] = launches[k] => i = k
      /\ \A i \in DOMAIN launches : \E k \in DOMAIN disk.jobs : disk.jobs[k].id = launches[i]
  BY DEF IInv, TypeOK, ScheduledOnce, LaunchesAreOnDisk
<1>2. j \in DOMAIN data.jobs /\ j \in DOMAIN disk.jobs /\ disk.jobs[j].id = job.id
  BY ThreadsHaveJobs, StartsAlone, DiskIsKnown
<1>3. CASE ~ job.scheduled
  BY <1>1, <1>3 DEF Counted
<1>4. CASE job.scheduled
  <2>1. launches' = Append(launches, job.id)
    BY <1>2, <1>4 DEF Counted, IInv, AttemptsAreMarked
  <2>2. job.id \in Sources \X Dates
    BY <1>2, <1>4 DEF IInv, AttemptsAreMarked, TypeOK, Data
  <2>3. \A i \in DOMAIN launches : launches[i] # job.id
    BY <1>4 DEF IInv, LaunchesAreOnDisk
  <2>4. /\ launches' \in Seq(Sources \X Dates) /\ DOMAIN launches' = 1 .. n /\ launches'[n] = job.id
        /\ \A i \in 1 .. n : i = n \/ (i \in DOMAIN launches /\ launches'[i] = launches[i])
    BY <1>1, <2>1, <2>2
  <2> QED
    BY <1>1, <1>2, <2>3, <2>4
<1> QED
  BY <1>3, <1>4

LEMMA LaunchKeeps ==
  ASSUME IInv, NEW j \in DOMAIN thread, NEW ok \in BOOLEAN, Launch(j, ok)
  PROVE  IInv'
<1> DEFINE new == Written(j, "running")
<1>1. j \in DOMAIN data.jobs /\ thread[j] = "start" /\ "running" \in Live \cup Outcomes
  BY ThreadsHaveJobs DEF Launch, Live
<1>2. /\ new \in Data /\ DOMAIN new.jobs = DOMAIN data.jobs /\ Len(new.jobs) = Len(data.jobs)
      /\ new.source = data.source /\ new.targets = data.targets
      /\ \A k \in DOMAIN data.jobs :
           /\ new.jobs[k] \in Job /\ new.jobs[k].scheduled = data.jobs[k].scheduled
           /\ new.jobs[k].id = data.jobs[k].id /\ new.jobs[k].source = data.jobs[k].source
           /\ new.jobs[k].date = data.jobs[k].date
           /\ Process(new.jobs[k]) = Process(data.jobs[k])
           /\ new.jobs[k].state = IF k = j THEN "running" ELSE data.jobs[k].state
  BY <1>1, WrittenKeepsJobs
<1>3. Save(new, ok)
  BY DEF Launch, Written
<1> HIDE DEF new
<1>4. data' = new /\ disk' \in {new, disk} /\ failures' \in 0 .. MaxFailures
  BY <1>2, <1>3, SaveFails
<1>5. child = {} /\ j \in DOMAIN disk.jobs
  BY <1>1, StartsAlone
<1>6. /\ thread' = [thread EXCEPT ![j] = IF ok THEN "wait" ELSE "returned"]
      /\ outcome' = IF ok THEN outcome ELSE [outcome EXCEPT ![j] = "failed"]
      /\ child' = IF ok THEN {Process(data.jobs[j])} ELSE {}
  BY <1>5 DEF Launch, Returns
<1>7. /\ thread' \in Seq({"none", "start", "wait", "returned", "over"}) /\ outcome' \in Seq(Outcomes)
      /\ Len(thread') = Len(thread) /\ Len(outcome') = Len(outcome) /\ DOMAIN thread' = DOMAIN thread
      /\ \A k \in DOMAIN thread : thread'[k] = IF k = j THEN IF ok THEN "wait" ELSE "returned" ELSE thread[k]
  <2>1. "failed" \in Outcomes /\ "wait" \in {"none", "start", "wait", "returned", "over"}
        /\ "returned" \in {"none", "start", "wait", "returned", "over"} /\ j \in DOMAIN outcome
    BY ThreadsHaveJobs DEF Outcomes
  <2> QED
    BY <1>6, <2>1, ThreadsHaveJobs, ExceptSeq
<1>8. /\ launches' \in Seq(Sources \X Dates)
      /\ \A i, k \in DOMAIN launches' : launches'[i] = launches'[k] => i = k
      /\ \A i \in DOMAIN launches' : \E k \in DOMAIN disk.jobs : disk.jobs[k].id = launches'[i]
  BY <1>1, CountedOnce DEF Launch
<1>9. TypeOK'
  <2>1. child' \subseteq {Process(job) : job \in Job}
    BY <1>1, <1>6, ThreadsHaveJobs
  <2>2. data' \in Data /\ disk' \in Data
    BY <1>2, <1>4 DEF IInv, TypeOK
  <2> QED
    BY <1>2, <1>4, <1>7, <1>8, <2>1, <2>2 DEF IInv, TypeOK, Launch
<1>10. JobsAreKept'
  <2>1. CASE disk' = new
    BY <1>2, <1>4, <2>1 DEF JobsAreKept, Data
  <2>2. CASE disk' = disk
    BY <1>2, <1>4, <2>2, DiskIsKnown DEF IInv, JobsAreKept
  <2> QED
    BY <1>4, <2>1, <2>2
<1>11. AttemptsAreMarked'
  <2>1. \A k \in DOMAIN new.jobs :
          IF new.jobs[k].scheduled
          THEN new.jobs[k].id = <<new.jobs[k].source, new.jobs[k].date>> /\ new.jobs[k].id \in new.targets
          ELSE \E r \in Requests : new.jobs[k].id = r.id
    BY <1>2 DEF IInv, AttemptsAreMarked
  <2> QED
    BY <1>4, <2>1 DEF IInv, AttemptsAreMarked
<1>12. LaunchesAreOnDisk'
  <2>1. \A k \in DOMAIN disk.jobs : k \in DOMAIN disk'.jobs /\ disk'.jobs[k].id = disk.jobs[k].id
    BY <1>2, <1>4, DiskIsKnown
  <2>2. \A k \in DOMAIN thread : thread'[k] # "start"
    BY <1>1, <1>7 DEF IInv, ThreadsAreLive
  <2> QED
    BY <1>7, <1>8, <2>1, <2>2 DEF LaunchesAreOnDisk
<1>13. ThreadsAreLive'
  BY <1>1, <1>2, <1>4, <1>7, ThreadsHaveJobs DEF IInv, ThreadsAreLive, Launch, Up, Live
<1>14. ChildrenAreWaitedFor'
  BY <1>1, <1>2, <1>4, <1>6, <1>7 DEF ChildrenAreWaitedFor
<1>15. OneProcess'
  BY <1>6 DEF OneProcess
<1>16. ProbesAreNew' /\ ScheduledOnce'
  BY <1>2, <1>4, <1>8 DEF IInv, ProbesAreNew, ScheduledOnce, Launch
<1> QED
  BY <1>9, <1>10, <1>11, <1>12, <1>13, <1>14, <1>15, <1>16 DEF IInv

LEMMA FinishKeeps ==
  ASSUME IInv, NEW j \in DOMAIN thread, NEW ok \in BOOLEAN, Finish(j, ok)
  PROVE  IInv'
<1> DEFINE new == Written(j, outcome[j])
<1>1. j \in DOMAIN data.jobs /\ thread[j] = "returned" /\ outcome[j] \in Outcomes
  BY ThreadsHaveJobs DEF Finish
<1>2. /\ new \in Data /\ DOMAIN new.jobs = DOMAIN data.jobs /\ Len(new.jobs) = Len(data.jobs)
      /\ new.source = data.source /\ new.targets = data.targets
      /\ \A k \in DOMAIN data.jobs :
           /\ new.jobs[k] \in Job /\ new.jobs[k].scheduled = data.jobs[k].scheduled
           /\ new.jobs[k].id = data.jobs[k].id /\ new.jobs[k].source = data.jobs[k].source
           /\ new.jobs[k].date = data.jobs[k].date
           /\ Process(new.jobs[k]) = Process(data.jobs[k])
           /\ new.jobs[k].state = IF k = j THEN outcome[j] ELSE data.jobs[k].state
  BY <1>1, WrittenKeepsJobs
<1>3. Save(new, ok)
  BY DEF Finish, Written
<1> HIDE DEF new
<1>4. data' = new /\ disk' \in {new, disk} /\ failures' \in 0 .. MaxFailures
  BY <1>2, <1>3, SaveFails
<1>5. /\ thread' \in Seq({"none", "start", "wait", "returned", "over"})
      /\ Len(thread') = Len(thread) /\ DOMAIN thread' = DOMAIN thread
      /\ \A k \in DOMAIN thread : thread'[k] = IF k = j THEN "over" ELSE thread[k]
  <2>1. "over" \in {"none", "start", "wait", "returned", "over"}
    OBVIOUS
  <2> QED
    BY <2>1, ThreadsHaveJobs, ExceptSeq DEF Finish
<1>6. \A k \in DOMAIN thread : thread'[k] = "over"
  BY <1>1, <1>5 DEF IInv, ThreadsAreLive
<1>7. child = {}
  BY <1>1 DEF IInv, ThreadsAreLive, ChildrenAreWaitedFor, Finish
<1>8. TypeOK'
  <2>1. data' \in Data /\ disk' \in Data
    BY <1>2, <1>4 DEF IInv, TypeOK
  <2> QED
    BY <1>2, <1>4, <1>5, <2>1 DEF IInv, TypeOK, Finish
<1>9. JobsAreKept'
  <2>1. CASE disk' = new
    BY <1>2, <1>4, <2>1 DEF JobsAreKept, Data
  <2>2. CASE disk' = disk
    BY <1>2, <1>4, <2>2, DiskIsKnown DEF IInv, JobsAreKept
  <2> QED
    BY <1>4, <2>1, <2>2
<1>10. AttemptsAreMarked'
  <2>1. \A k \in DOMAIN new.jobs :
          IF new.jobs[k].scheduled
          THEN new.jobs[k].id = <<new.jobs[k].source, new.jobs[k].date>> /\ new.jobs[k].id \in new.targets
          ELSE \E r \in Requests : new.jobs[k].id = r.id
    BY <1>2 DEF IInv, AttemptsAreMarked
  <2> QED
    BY <1>4, <2>1 DEF IInv, AttemptsAreMarked
<1>11. LaunchesAreOnDisk'
  <2>1. \A k \in DOMAIN disk.jobs : k \in DOMAIN disk'.jobs /\ disk'.jobs[k].id = disk.jobs[k].id
    BY <1>2, <1>4, DiskIsKnown
  <2> QED
    BY <1>5, <1>6, <2>1 DEF IInv, LaunchesAreOnDisk, Finish
<1>12. ThreadsAreLive'
  BY <1>1, <1>2, <1>4, <1>5, <1>6, ThreadsHaveJobs DEF IInv, ThreadsAreLive, Finish, Up, Live, Outcomes
<1>13. ChildrenAreWaitedFor' /\ OneProcess' /\ ProbesAreNew' /\ ScheduledOnce'
  BY <1>2, <1>4, <1>7 DEF IInv, ChildrenAreWaitedFor, OneProcess, ProbesAreNew, ScheduledOnce, Finish
<1> QED
  BY <1>8, <1>9, <1>10, <1>11, <1>12, <1>13 DEF IInv

\* A runner returns: its process is gone.
LEMMA ReturnsKeeps ==
  ASSUME IInv, NEW j \in DOMAIN thread, thread[j] # "over", NEW result \in Outcomes, Returns(j, result),
         child' \subseteq child, Process(data.jobs[j]) \notin child',
         UNCHANGED <<now, slept, service, data, disk, ticker, briefs, launches, failures, crashes, toggles>>
  PROVE  IInv'
<1>1. /\ thread' \in Seq({"none", "start", "wait", "returned", "over"}) /\ outcome' \in Seq(Outcomes)
      /\ Len(thread') = Len(thread) /\ Len(outcome') = Len(outcome) /\ DOMAIN thread' = DOMAIN thread
      /\ \A k \in DOMAIN thread : thread'[k] = IF k = j THEN "returned" ELSE thread[k]
  <2>1. "returned" \in {"none", "start", "wait", "returned", "over"} /\ j \in DOMAIN outcome
    BY ThreadsHaveJobs
  <2> QED
    BY <2>1, ThreadsHaveJobs, ExceptSeq DEF Returns
<1>2. TypeOK'
  BY <1>1 DEF IInv, TypeOK
<1>3. JobsAreKept' /\ AttemptsAreMarked' /\ ProbesAreNew' /\ ScheduledOnce'
  BY DEF IInv, JobsAreKept, AttemptsAreMarked, ProbesAreNew, ScheduledOnce
<1>4. LaunchesAreOnDisk'
  BY <1>1 DEF IInv, LaunchesAreOnDisk
<1>5. ThreadsAreLive'
  BY <1>1 DEF IInv, ThreadsAreLive, Up
<1>6. ChildrenAreWaitedFor'
  BY <1>1 DEF IInv, ChildrenAreWaitedFor, Up
<1>7. OneProcess'
  BY DEF IInv, OneProcess
<1> QED
  BY <1>2, <1>3, <1>4, <1>5, <1>6, <1>7 DEF IInv

LEMMA JobStepKeeps ==
  ASSUME IInv, NEW j \in DOMAIN thread, JobStep(j)
  PROVE  IInv'
<1>1. CASE \E ok \in BOOLEAN : Launch(j, ok)
  BY <1>1, LaunchKeeps
<1>2. CASE \E ok \in BOOLEAN : Finish(j, ok)
  BY <1>2, FinishKeeps
<1>3. CASE NotLaunched(j)
  <2>1. child = {} /\ thread[j] # "over"
    BY <1>3, StartsAlone DEF NotLaunched
  <2>2. PICK result \in Outcomes : Returns(j, result)
    BY <1>3 DEF NotLaunched, Outcomes
  <2> QED
    BY <1>3, <2>1, <2>2, ReturnsKeeps DEF NotLaunched
<1>4. CASE TimeOut(j)
  <2>1. "timed_out" \in Outcomes /\ thread[j] # "over"
    BY <1>4 DEF Outcomes, TimeOut
  <2> QED
    BY <1>4, <2>1, ReturnsKeeps DEF TimeOut
<1>5. CASE \E result \in Outcomes : Classify(j, result)
  <2>1. PICK result \in Outcomes : Classify(j, result)
    BY <1>5
  <2> QED
    BY <2>1, ReturnsKeeps DEF Classify, Alive
<1> QED
  BY <1>1, <1>2, <1>3, <1>4, <1>5 DEF JobStep

-----------------------------------------------------------------------------
(* The service stops, is killed and starts again; its processes may not.    *)

\* When the service is gone what is on disk is all there is, and no thread lives.
LEMMA GoneKeeps ==
  ASSUME IInv, Gone, disk' = disk,
         child' \subseteq {Process(job) : job \in Job}, OneProcess',
         launches' \in Seq(Sources \X Dates), ScheduledOnce',
         \A i \in DOMAIN launches' : \E k \in DOMAIN disk.jobs : disk.jobs[k].id = launches'[i],
         crashes' \in 0 .. MaxCrashes, UNCHANGED <<now, slept, briefs, failures, toggles>>
  PROVE  IInv'
<1>1. disk.jobs \in Seq(Job) /\ DOMAIN disk.jobs = 1 .. Len(disk.jobs) /\ Len(disk.jobs) \in Nat
  BY ThreadsHaveJobs
<1>2. /\ thread' \in Seq({"none", "start", "wait", "returned", "over"}) /\ outcome' \in Seq(Outcomes)
      /\ Len(thread') = Len(disk.jobs) /\ Len(outcome') = Len(disk.jobs)
      /\ \A j \in DOMAIN thread' : thread'[j] = "over"
  BY <1>1 DEF Gone, Outcomes
<1>3. TypeOK'
  BY <1>2, IdleTickers DEF IInv, TypeOK, Gone, Tickers
<1>4. JobsAreKept'
  BY <1>1 DEF JobsAreKept, Gone
<1>5. AttemptsAreMarked'
  BY DEF IInv, AttemptsAreMarked, Gone
<1>6. LaunchesAreOnDisk'
  BY <1>2 DEF LaunchesAreOnDisk
<1>7. ThreadsAreLive' /\ ChildrenAreWaitedFor' /\ ProbesAreNew'
  BY <1>2, IdleTickers DEF ThreadsAreLive, ChildrenAreWaitedFor, ProbesAreNew, Gone, Up
<1> QED
  BY <1>3, <1>4, <1>5, <1>6, <1>7 DEF IInv

LEMMA CrashKeeps ==
  ASSUME IInv, Crash \/ Stopped
  PROVE  IInv'
<1>1. crashes' \in 0 .. MaxCrashes
  BY ControlAssumption DEF IInv, TypeOK, Crash, Stopped
<1>2. /\ launches' \in Seq(Sources \X Dates) /\ ScheduledOnce' /\ OneProcess'
      /\ \A i \in DOMAIN launches' : \E k \in DOMAIN disk.jobs : disk.jobs[k].id = launches'[i]
      /\ child' \subseteq {Process(job) : job \in Job}
  BY DEF IInv, TypeOK, ScheduledOnce, OneProcess, LaunchesAreOnDisk, Crash, Stopped
<1> QED
  BY <1>1, <1>2, GoneKeeps DEF Crash, Stopped

LEMMA CrashInLaunchKeeps ==
  ASSUME IInv, NEW j \in DOMAIN thread, CrashInLaunch(j)
  PROVE  IInv'
<1>1. crashes' \in 0 .. MaxCrashes
  BY ControlAssumption DEF IInv, TypeOK, CrashInLaunch
<1>2. /\ launches' \in Seq(Sources \X Dates) /\ ScheduledOnce'
      /\ \A i \in DOMAIN launches' : \E k \in DOMAIN disk.jobs : disk.jobs[k].id = launches'[i]
  BY CountedOnce DEF CrashInLaunch, ScheduledOnce
<1>3. child' = {Process(data.jobs[j])} /\ data.jobs[j] \in Job
  BY StartsAlone, ThreadsHaveJobs DEF CrashInLaunch
<1>4. OneProcess' /\ child' \subseteq {Process(job) : job \in Job}
  BY <1>3 DEF OneProcess
<1> QED
  BY <1>1, <1>2, <1>4, GoneKeeps DEF CrashInLaunch

LEMMA RestartedKeepsJobs ==
  ASSUME IInv, NEW source \in Sources
  PROVE  /\ Restarted(source) \in Data
         /\ DOMAIN Restarted(source).jobs = DOMAIN disk.jobs
         /\ Len(Restarted(source).jobs) = Len(disk.jobs)
         /\ Restarted(source).targets = disk.targets
         /\ \A k \in DOMAIN disk.jobs :
              /\ Restarted(source).jobs[k].scheduled = disk.jobs[k].scheduled
              /\ Restarted(source).jobs[k].id = disk.jobs[k].id
              /\ Restarted(source).jobs[k].source = disk.jobs[k].source
              /\ Restarted(source).jobs[k].date = disk.jobs[k].date
<1> DEFINE stopped == [j \in DOMAIN disk.jobs |->
                         [disk.jobs[j] EXCEPT !.state = IF @ \in Live THEN "interrupted" ELSE @]]
           same == [disk EXCEPT !.jobs = stopped, !.source = source]
           moved == [same EXCEPT !.state = "scheduled", !.notBefore = NextMorning(now),
                                 !.nextCheck = NextMorning(now), !.checks = 0, !.day = -1]
<1>1. disk \in Data /\ disk.jobs \in Seq(Job) /\ NextMorning(now) \in Nat
  BY DaysAreKnown DEF IInv, TypeOK, Data
<1>2. \A k \in DOMAIN disk.jobs :
        /\ stopped[k] \in Job /\ stopped[k].scheduled = disk.jobs[k].scheduled
        /\ stopped[k].id = disk.jobs[k].id /\ stopped[k].source = disk.jobs[k].source
        /\ stopped[k].date = disk.jobs[k].date
  <2>1. SUFFICES ASSUME NEW k \in DOMAIN disk.jobs
                 PROVE  /\ stopped[k] \in Job /\ stopped[k].scheduled = disk.jobs[k].scheduled
                        /\ stopped[k].id = disk.jobs[k].id /\ stopped[k].source = disk.jobs[k].source
                        /\ stopped[k].date = disk.jobs[k].date
    OBVIOUS
  <2>2. disk.jobs[k] \in Job
    BY <1>1
  <2>3. PICK state \in Live \cup Outcomes : stopped[k] = [disk.jobs[k] EXCEPT !.state = state]
    BY <2>2 DEF Job, Outcomes
  <2> QED
    BY <2>2, <2>3 DEF Job
<1>3. stopped \in Seq(Job) /\ DOMAIN stopped = DOMAIN disk.jobs /\ Len(stopped) = Len(disk.jobs)
  <2>1. DOMAIN disk.jobs = 1 .. Len(disk.jobs) /\ Len(disk.jobs) \in Nat
    BY <1>1
  <2>2. stopped \in [1 .. Len(disk.jobs) -> Job]
    BY <1>2, <2>1
  <2>3. DOMAIN stopped = 1 .. Len(disk.jobs)
    BY <2>1
  <2> HIDE DEF stopped
  <2> QED
    BY <2>1, <2>2, <2>3
<1>4. Restarted(source) \in {same, moved}
  BY DEF Restarted
<1> HIDE DEF stopped
<1>5. same \in Data /\ same.jobs = stopped /\ same.targets = disk.targets
  BY <1>1, <1>3 DEF Data
<1> HIDE DEF same
<1>6. moved \in Data /\ moved.jobs = stopped /\ moved.targets = disk.targets
  <2>1. -1 \in Nat \cup {-1} /\ 0 \in 0 .. MaxChecks
    BY ControlAssumption
  <2> QED
    BY <1>1, <1>5, <2>1 DEF Data
<1> HIDE DEF moved
<1> QED
  BY <1>2, <1>3, <1>4, <1>5, <1>6

\* A service starts only when no process of an earlier one is left.
LEMMA StartKeeps ==
  ASSUME IInv, NEW source \in Sources, Start(source)
  PROVE  IInv'
<1> DEFINE new == Restarted(source)
<1>1. /\ new \in Data /\ DOMAIN new.jobs = DOMAIN disk.jobs /\ Len(new.jobs) = Len(disk.jobs)
      /\ new.targets = disk.targets
      /\ \A k \in DOMAIN disk.jobs :
           /\ new.jobs[k].scheduled = disk.jobs[k].scheduled /\ new.jobs[k].id = disk.jobs[k].id
           /\ new.jobs[k].source = disk.jobs[k].source /\ new.jobs[k].date = disk.jobs[k].date
  BY RestartedKeepsJobs
<1>2. data' = new /\ disk' = new /\ child = {} /\ child' = {}
  BY DEF Start
<1>3. \A k \in DOMAIN new.jobs : new.jobs[k].state \notin Live
  BY DEF Restarted, Live
<1> HIDE DEF new
<1>4. disk.jobs \in Seq(Job) /\ DOMAIN disk.jobs = 1 .. Len(disk.jobs) /\ Len(disk.jobs) \in Nat
  BY ThreadsHaveJobs
<1>5. /\ thread' \in Seq({"none", "start", "wait", "returned", "over"}) /\ outcome' \in Seq(Outcomes)
      /\ Len(thread') = Len(disk.jobs) /\ Len(outcome') = Len(disk.jobs)
      /\ DOMAIN thread' = DOMAIN disk.jobs /\ \A j \in DOMAIN thread' : thread'[j] = "over"
  BY <1>4 DEF Start, Outcomes
<1>6. TypeOK'
  BY <1>1, <1>2, <1>5, IdleTickers DEF IInv, TypeOK, Start, Tickers
<1>7. JobsAreKept'
  BY <1>1, <1>2, <1>4 DEF JobsAreKept
<1>8. AttemptsAreMarked'
  <2>1. \A k \in DOMAIN new.jobs :
          IF new.jobs[k].scheduled
          THEN new.jobs[k].id = <<new.jobs[k].source, new.jobs[k].date>> /\ new.jobs[k].id \in new.targets
          ELSE \E r \in Requests : new.jobs[k].id = r.id
    BY <1>1 DEF IInv, AttemptsAreMarked
  <2> QED
    BY <1>2, <2>1 DEF AttemptsAreMarked
<1>9. LaunchesAreOnDisk'
  BY <1>1, <1>2, <1>5 DEF IInv, LaunchesAreOnDisk, Start
<1>10. ThreadsAreLive'
  BY <1>1, <1>2, <1>3, <1>5 DEF ThreadsAreLive
<1>11. ChildrenAreWaitedFor' /\ OneProcess' /\ ProbesAreNew' /\ ScheduledOnce'
  BY <1>2, IdleTickers DEF IInv, ChildrenAreWaitedFor, OneProcess, ProbesAreNew, ScheduledOnce, Start
<1> QED
  BY <1>6, <1>7, <1>8, <1>9, <1>10, <1>11 DEF IInv

\* Processes end, briefs appear, time passes: the manager does nothing.
LEMMA OutsideKeeps ==
  ASSUME IInv, child' \subseteq child, now' \in 0 .. MaxTime, slept' \subseteq Nat,
         briefs' \subseteq Sources \X Dates,
         service' = service \/ (service = "up" /\ service' = "stopping"),
         UNCHANGED <<data, disk, thread, outcome, ticker, launches, failures, crashes, toggles>>
  PROVE  IInv'
<1>1. TypeOK'
  BY DEF IInv, TypeOK
<1>2. JobsAreKept' /\ AttemptsAreMarked' /\ LaunchesAreOnDisk'
  BY DEF IInv, JobsAreKept, AttemptsAreMarked, LaunchesAreOnDisk
<1>3. Up' <=> Up
  BY DEF Up
<1>4. ThreadsAreLive' /\ ChildrenAreWaitedFor'
  BY <1>3 DEF IInv, ThreadsAreLive, ChildrenAreWaitedFor
<1>5. OneProcess' /\ ProbesAreNew' /\ ScheduledOnce'
  BY DEF IInv, OneProcess, ProbesAreNew, ScheduledOnce
<1> QED
  BY <1>1, <1>2, <1>4, <1>5 DEF IInv

LEMMA ExitKeeps ==
  ASSUME IInv, NEW p \in child, NEW made \in BOOLEAN, Exit(p, made)
  PROVE  IInv'
<1>1. PICK job \in Job : p = Process(job)
  BY DEF IInv, TypeOK
<1>2. made => <<p.source, p.date>> \in Sources \X Dates
  BY <1>1 DEF Exit, Process, Job
<1>3. briefs' \subseteq Sources \X Dates
  BY <1>2 DEF Exit, IInv, TypeOK
<1> QED
  BY <1>3, OutsideKeeps DEF Exit, IInv, TypeOK

-----------------------------------------------------------------------------

(* The invariant, and what follows.                                        *)

LEMMA InitEstablishes ==
  ASSUME Init
  PROVE  IInv
<1>1. PICK s \in Sources :
        disk = [jobs |-> <<>>, source |-> s, enabled |-> FALSE, state |-> "disabled",
                notBefore |-> 0, nextCheck |-> 0, day |-> -1, checks |-> 0, targets |-> {}]
  BY DEF Init
<1>2. disk \in Data /\ disk.jobs = <<>>
  <2>1. -1 \in Nat \cup {-1} /\ 0 \in 0 .. MaxChecks /\ 0 \in Nat /\ <<>> \in Seq(Job)
    BY ControlAssumption
  <2> QED
    BY <1>1, <2>1 DEF Data
<1>3. TypeOK
  BY <1>2, IdleTickers, ControlAssumption DEF Init, TypeOK, Tickers
<1>4. JobsAreKept /\ AttemptsAreMarked /\ LaunchesAreOnDisk /\ ThreadsAreLive
  BY <1>2 DEF Init, JobsAreKept, AttemptsAreMarked, LaunchesAreOnDisk, ThreadsAreLive
<1>5. ChildrenAreWaitedFor /\ OneProcess /\ ProbesAreNew /\ ScheduledOnce
  BY IdleTickers DEF Init, ChildrenAreWaitedFor, OneProcess, ProbesAreNew, ScheduledOnce
<1> QED
  BY <1>3, <1>4, <1>5 DEF IInv

LEMMA NextKeeps ==
  ASSUME IInv, [Next]_vars
  PROVE  IInv'
<1>1. CASE \E s \in Sources : Start(s)
  BY <1>1, StartKeeps
<1>2. CASE \E r \in Requests, ok \in BOOLEAN : Submit(r, ok)
  BY <1>2, SubmitKeeps
<1>3. CASE \E enabled, ok \in BOOLEAN : SetSchedule(enabled, ok)
  BY <1>3, SetScheduleKeeps
<1>4. CASE \E j \in DOMAIN thread : JobStep(j)
  BY <1>4, JobStepKeeps
<1>5. CASE \E p \in child, made \in BOOLEAN : Exit(p, made)
  BY <1>5, ExitKeeps
<1>6. CASE TickerStep
  BY <1>6, TickSettlesKeeps, TickProbesKeeps, TickRaisedKeeps, TickWaitsKeeps, TickSubmitsKeeps,
     TickSupersededKeeps DEF TickerStep
<1>7. CASE Stop
  BY <1>7, OutsideKeeps DEF Stop, IInv, TypeOK
<1>8. CASE Stopped \/ Crash
  BY <1>8, CrashKeeps
<1>9. CASE \E j \in DOMAIN thread : CrashInLaunch(j)
  BY <1>9, CrashInLaunchKeeps
<1>10. CASE \E s \in Sources, date \in Dates : CliBrief(s, date)
  BY <1>10, OutsideKeeps DEF CliBrief, IInv, TypeOK
<1>11. CASE Tick
  <2>1. now' \in 0 .. MaxTime
    BY <1>11, ControlAssumption DEF Tick, IInv, TypeOK
  <2>2. now \in 0 .. MaxTime /\ now + 1 \in 0 .. MaxTime
    BY <1>11, ControlAssumption DEF Tick, IInv, TypeOK
  <2>3. DayOf(now) \in Nat /\ DayOf(now + 1) \in Nat
    BY <2>2, DaysAreKnown
  <2>4. slept' \subseteq Nat
    BY <1>11, <2>3 DEF Tick, IInv, TypeOK
  <2> QED
    BY <1>11, <2>1, <2>4, OutsideKeeps DEF Tick, IInv, TypeOK
<1>12. CASE UNCHANGED vars
  BY <1>12, OutsideKeeps DEF vars, IInv, TypeOK
<1> QED
  BY <1>1, <1>2, <1>3, <1>4, <1>5, <1>6, <1>7, <1>8, <1>9, <1>10, <1>11, <1>12 DEF Next

\* The inductive invariant holds in every reachable state of the service.
THEOREM Invariance == Spec => []IInv
<1>1. Init => IInv
  BY InitEstablishes
<1>2. IInv /\ [Next]_vars => IInv'
  BY NextKeeps
<1> QED
  BY <1>1, <1>2, PTL DEF Spec

\* What is in memory, on disk and alive always has its type: no count of checks, failed
\* writes or crashes leaves its bound, and every job has its thread and its outcome.
THEOREM TypeCorrectness == Spec => []TypeOK
<1>1. IInv => TypeOK
  BY DEF IInv
<1> QED
  BY <1>1, Invariance, PTL

\* The scheduler starts the process of a target of a source at most once, however often the
\* service is killed, restarted, switched off and on or fails to write its state.
THEOREM AttemptsAreSingle == Spec => []ScheduledOnce
<1>1. IInv => ScheduledOnce
  BY DEF IInv
<1> QED
  BY <1>1, Invariance, PTL

\* There is never more than one process of a job, also not one of this service and one that
\* has outlived an earlier service.
THEOREM JobsAreSerialized == Spec => []OneJobAtATime
<1>1. ASSUME IInv
      PROVE  OneJobAtATime
  <2>1. CASE child = {}
    <3>1. Cardinality({}) = 0
      BY FS_EmptySet
    <3> QED
      BY <2>1, <3>1 DEF OneJobAtATime
  <2>2. CASE child # {}
    <3>1. PICK p \in child : TRUE
      BY <2>2
    <3>2. child = {p}
      BY <1>1, <3>1 DEF IInv, OneProcess
    <3>3. Cardinality({p}) = 1
      BY FS_Singleton
    <3> QED
      BY <3>2, <3>3 DEF OneJobAtATime
  <2> QED
    BY <2>1, <2>2
<1> QED
  BY <1>1, Invariance, PTL

\* The target of a probe that has gone through is the target of no job yet: submit would
\* answer a known id with its old job, and the scheduler would record that as its attempt.
THEOREM ProbedTargetsAreNew ==
  Spec => [](ticker.pc = "probing" => ~ Known(<<data.source, ticker.date>>))
<1>1. IInv => (ticker.pc = "probing" => ~ Known(<<data.source, ticker.date>>))
  BY ProbedIsNotKnown
<1> QED
  BY <1>1, Invariance, PTL
=============================================================================
