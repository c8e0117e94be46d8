-------------------------- MODULE CronOrchestrator --------------------------
(***************************************************************************)
(* The nightly crons: the schedules of scheduler.constants.ts on a clock   *)
(* that runs in UTC, the date checks that run on Indian time, and the      *)
(* groups of jobs that the orchestrator runs one after another, each raced *)
(* against a timer.                                                        *)
(*                                                                         *)
(* Time passes in ticks of CRON_TIMEOUT_MS (five minutes).  Tick 0 of a    *)
(* UTC day is all of it up to 18:30; tick 1 is 18:30, which is midnight in *)
(* India, tick 7 is 19:00 and tick 13 is 19:30.  A timer set during one    *)
(* tick goes off during the next.  What takes no time between two timers   *)
(* (a log written, the next job started) happens before the clock moves.   *)
(***************************************************************************)
EXTENDS Integers, Sequences, FiniteSets

CONSTANTS
    DaysInMonth,   \* bound: days of a month (the days after the 3rd are alike)
    FirstDay,      \* serial number of the UTC day the clock starts in
    LastDay,       \* bound: serial number of the last UTC day
    April,         \* the serial number of the month that is April
    Slots,         \* runs of a group the server can hold at the same time
    MaxManual,     \* bound: groups started by hand
    MaxFaults      \* bound: crashes of the server and log inserts that fail

ASSUME CronAssumption ==
    /\ DaysInMonth \in Nat /\ DaysInMonth >= 3
    /\ {FirstDay, LastDay, April, MaxManual, MaxFaults} \subseteq Nat
    /\ FirstDay <= LastDay
    /\ Slots \subseteq Nat

VARIABLES
    day, tick,    \* the clock, in UTC
    due,          \* crons whose moment has come and that have not fired yet
    run,          \* the run each slot holds: the group, how far it is, its log
    background,   \* months whose AutoApproveLeaves outlived its timer and still works
    up,           \* the server process is running
    entered,      \* India dates whose DailyAttendanceEntry was started
    missed,       \* <<cron, India date>>: fired with the server down, or unlogged
    approved,     \* months whose pending leaves were auto-approved
    accrued,      \* months whose leave accrual was started
    paid,         \* months whose payroll generation was started
    manual, faults

vars == <<day, tick, due, run, background, up, entered, missed, approved,
          accrued, paid, manual, faults>>
history == <<entered, missed, approved, accrued, paid>>

-----------------------------------------------------------------------------
(* Dates.  A date is the serial number of a day.                           *)

Month(d) == d \div DaysInMonth
DayOfMonth(d) == (d % DaysInMonth) + 1

\* getCurrentDateIST: from 18:30 UTC on it is the next day in India.
DateIST == IF tick >= 1 THEN day + 1 ELSE day

\* Mutant: the month that has just begun.
MonthBegun == Month(DateIST)

\* getPreviousMonthDateRange: whose pending applications are approved.
MonthToApprove == Month(DateIST) - 1

-----------------------------------------------------------------------------
(* Schedules and groups.                                                   *)

LastTick == 14
Now == day * (LastTick + 1) + tick

Groups == [DailyMidnight      |-> <<"ConfigSettingActivation", "SalaryStructureActivation",
                                    "MarkApprovalPending", "DailyAttendanceEntry">>,
           MonthlyAutoApprove |-> <<"AutoApproveLeaves", "AutoApproveAttendance">>,
           April1FY           |-> <<"FYLeaveConfigAutoCopy", "LeaveCarryForward">>]

Crons == DOMAIN Groups \cup {"MonthlyLeaveAccrual", "MonthlyPayrollGeneration"}

\* Mutant: payroll on the 1st, with the orchestrators.
ScheduledEarly(d, t) ==
    {c \in Crons :
        CASE c = "DailyMidnight"            -> t = 1
          [] c = "MonthlyAutoApprove"       -> t = 1 /\ DayOfMonth(d) = 1
          [] c = "April1FY"                 -> t = 1 /\ DayOfMonth(d) = 1 /\ Month(d) = April
          [] c = "MonthlyLeaveAccrual"      -> t = 7 /\ DayOfMonth(d) = 1
          [] c = "MonthlyPayrollGeneration" -> t = 1 /\ DayOfMonth(d) = 1}

\* CRON_SCHEDULES: the time and the day of the month are those of UTC.
Scheduled(d, t) ==
    {c \in Crons :
        CASE c = "DailyMidnight"            -> t = 1
          [] c = "MonthlyAutoApprove"       -> t = 1  /\ DayOfMonth(d) = 1
          [] c = "April1FY"                 -> t = 1  /\ DayOfMonth(d) = 1 /\ Month(d) = April
          [] c = "MonthlyLeaveAccrual"      -> t = 7  /\ DayOfMonth(d) = 1
          [] c = "MonthlyPayrollGeneration" -> t = 13 /\ DayOfMonth(d) = 2}

\* The check at the top of the two monthly orchestrators.
GuardPasses(g) ==
    CASE g = "DailyMidnight"      -> TRUE
      [] g = "MonthlyAutoApprove" -> DayOfMonth(DateIST) = 1
      [] g = "April1FY"           -> DayOfMonth(DateIST) = 1 /\ Month(DateIST) = April

NoRun == [phase |-> "none"]
Jobs(s) == Groups[run[s].group]
\* A run is open from the insert of its log to the end of executeGroup.
Open(s) == run[s].phase \in {"between", "racing"}
Job(s) == Jobs(s)[run[s].attempted + 1]

-----------------------------------------------------------------------------
Init ==
    /\ day = FirstDay /\ tick = 0
    /\ due = {}
    /\ run = [s \in Slots |-> NoRun]
    /\ background = {}
    /\ up = TRUE
    /\ entered = {} /\ missed = {}
    /\ approved = {} /\ accrued = {} /\ paid = {}
    /\ manual = 0 /\ faults = 0

\* Mutant: a timer of ten minutes.
PatientTimer(s) == run[s].phase = "racing" /\ Now >= run[s].since + 2

\* The timer of the job that is raced has gone off.
TimerOff(s) == run[s].phase = "racing" /\ Now > run[s].since

\* Nothing is left to do before the next timer or the next schedule.
Settled == due = {} /\ \A s \in Slots : Open(s) => run[s].phase = "racing" /\ ~TimerOff(s)

\* The clock moves.  A cron of a server that is down is not made up for later.
\* The logs of a day that is over are forgotten.
Tick ==
    /\ Settled
    /\ day <= LastDay \/ \E s \in Slots : Open(s)
    /\ IF tick = LastTick
       THEN day' = day + 1 /\ tick' = 0
       ELSE day' = day /\ tick' = tick + 1
    /\ LET now == Scheduled(day', tick') IN
         IF up THEN due' = now /\ UNCHANGED missed
               ELSE due' = {} /\ missed' = missed \cup {<<c, DateIST'>> : c \in now}
    /\ run' = IF tick = LastTick THEN [s \in Slots |-> IF Open(s) THEN run[s] ELSE NoRun]
                                 ELSE run
    /\ UNCHANGED <<background, up, entered, approved, accrued, paid, manual, faults>>

-----------------------------------------------------------------------------
(* The orchestrator.                                                       *)

\* cronLogService.execute inserts a RUNNING log, then executeGroup begins.
\* Slots are filled from the first one on: which slot a run takes is no matter.
Begin(s, g, by) ==
    /\ ~Open(s)
    /\ \A t \in Slots : t < s => Open(t)
    /\ run' = [run EXCEPT ![s] = [phase |-> "between", group |-> g, by |-> by,
                                  attempted |-> 0, allSucceeded |-> TRUE,
                                  since |-> 0, log |-> "RUNNING"]]

\* The insert of the log fails: nothing is run.
Lose(c) ==
    /\ faults < MaxFaults
    /\ faults' = faults + 1
    /\ missed' = missed \cup {<<c, DateIST>>}

\* A scheduled orchestrator: skipped by its date check, started, or lost with
\* the insert of its log.
FireGroup(g) ==
    /\ up /\ g \in due
    /\ due' = due \ {g}
    /\ \/ ~GuardPasses(g) /\ UNCHANGED <<run, missed, faults>>
       \/ GuardPasses(g) /\ UNCHANGED <<missed, faults>> /\ \E s \in Slots : Begin(s, g, "schedule")
       \/ GuardPasses(g) /\ Lose(g) /\ UNCHANGED run
    /\ UNCHANGED <<day, tick, background, up, entered, approved, accrued, paid, manual>>

\* The cron trigger calls the same orchestrator, with the same date check.
TriggerGroup(g) ==
    /\ up /\ manual < MaxManual /\ day <= LastDay
    /\ manual' = manual + 1
    /\ GuardPasses(g)
    /\ \E s \in Slots : Begin(s, g, "trigger")
    /\ UNCHANGED <<day, tick, due, background, up, history, faults>>

\* handler() is called and raced against a new timer.
StartJob(s) ==
    /\ run[s].phase = "between"
    /\ run[s].attempted < Len(Jobs(s))
    /\ run' = [run EXCEPT ![s].phase = "racing", ![s].since = Now]
    /\ entered' = IF Job(s) = "DailyAttendanceEntry" THEN entered \cup {DateIST} ELSE entered
    /\ UNCHANGED <<day, tick, due, background, up, missed, approved, accrued, paid, manual, faults>>

\* What came of the job goes into the result of the group.
Record(s, outcome) ==
    run' = [run EXCEPT ![s].phase = "between", ![s].since = 0, ![s].attempted = @ + 1,
                       ![s].allSucceeded = @ /\ outcome = "success"]

\* The handler answers first.  What AutoApproveLeaves has done is there to see
\* when it succeeds.
FinishJob(s) ==
    /\ run[s].phase = "racing"
    /\ \/ Record(s, "success") /\ approved' = IF Job(s) = "AutoApproveLeaves"
                                              THEN approved \cup {MonthToApprove} ELSE approved
       \/ Record(s, "failed") /\ UNCHANGED approved
    /\ UNCHANGED <<day, tick, due, background, up, entered, missed, accrued, paid, manual, faults>>

\* The timer answers first: the handler is not stopped, it goes on alone (only
\* AutoApproveLeaves has an effect here that could still come).
TimeoutJob(s) ==
    /\ TimerOff(s)
    /\ Record(s, "timeout")
    /\ background' = IF Job(s) = "AutoApproveLeaves"
                      THEN background \cup {MonthToApprove} ELSE background
    /\ UNCHANGED <<day, tick, due, up, history, manual, faults>>

\* A handler that lost its race ends; nobody waits for its answer.
LateEnd(m) ==
    /\ m \in background
    /\ background' = background \ {m}
    /\ \/ approved' = approved \cup {m}
       \/ UNCHANGED approved
    /\ UNCHANGED <<day, tick, due, run, up, entered, missed, accrued, paid, manual, faults>>

\* Mutant: the group stops at the first job that does not succeed.
DoneOrBroken(s) ==
    /\ run[s].phase = "between"
    /\ \/ run[s].attempted = Len(Jobs(s))
       \/ ~run[s].allSucceeded

\* Mutant: a group with a failure is never over.
DoneAndClean(s) ==
    run[s].phase = "between" /\ run[s].attempted = Len(Jobs(s)) /\ run[s].allSucceeded

\* Every job has been attempted, whatever came of it.
GroupDone(s) == run[s].phase = "between" /\ run[s].attempted = Len(Jobs(s))

\* success(log); if the database refuses it fail(log); if that too, RUNNING stays.
CloseLog(s) ==
    /\ GroupDone(s)
    /\ \E status \in {"SUCCESS", "FAILED", "RUNNING"} :
         run' = [run EXCEPT ![s].phase = "closed", ![s].log = status]
    /\ UNCHANGED <<day, tick, due, background, up, history, manual, faults>>

-----------------------------------------------------------------------------
(* The two monthly crons without a group: no timer, no date check.         *)

FireAccrual ==
    /\ up /\ "MonthlyLeaveAccrual" \in due
    /\ due' = due \ {"MonthlyLeaveAccrual"}
    /\ \/ accrued' = accrued \cup {Month(DateIST)} /\ UNCHANGED <<missed, faults>>
       \/ Lose("MonthlyLeaveAccrual") /\ UNCHANGED accrued
    /\ UNCHANGED <<day, tick, run, background, up, entered, approved, paid, manual>>

\* handleMonthlyPayrollGeneration: the payroll of the previous month.
FirePayroll ==
    /\ up /\ "MonthlyPayrollGeneration" \in due
    /\ due' = due \ {"MonthlyPayrollGeneration"}
    /\ \/ paid' = paid \cup {Month(DateIST) - 1} /\ UNCHANGED <<missed, faults>>
       \/ Lose("MonthlyPayrollGeneration") /\ UNCHANGED paid
    /\ UNCHANGED <<day, tick, run, background, up, entered, approved, accrued, manual>>

-----------------------------------------------------------------------------
(* The server dies with every handler in flight; their logs stay RUNNING.  *)
Crash ==
    /\ up /\ faults < MaxFaults
    /\ up' = FALSE /\ faults' = faults + 1
    /\ missed' = missed \cup {<<c, DateIST>> : c \in due}
                        \cup {<<run[s].group, DateIST>> : s \in {s \in Slots : Open(s)}}
    /\ due' = {} /\ background' = {}
    /\ run' = [s \in Slots |-> IF Open(s) THEN [run[s] EXCEPT !.phase = "closed"] ELSE run[s]]
    /\ UNCHANGED <<day, tick, entered, approved, accrued, paid, manual>>

Restart ==
    /\ ~up
    /\ up' = TRUE
    /\ UNCHANGED <<day, tick, due, run, background, history, manual, faults>>

Advance(s) == StartJob(s) \/ FinishJob(s) \/ TimeoutJob(s) \/ CloseLog(s)

Next ==
    \/ Tick
    \/ \E g \in DOMAIN Groups : FireGroup(g) \/ TriggerGroup(g)
    \/ \E s \in Slots : Advance(s)
    \/ \E m \in background : LateEnd(m)
    \/ FireAccrual \/ FirePayroll
    \/ Crash \/ Restart

\* Timers go off, schedules fire and the loop of executeGroup goes on; no
\* handler is assumed to answer.
Fairness ==
    /\ WF_vars(Tick)
    /\ \A g \in DOMAIN Groups : WF_vars(FireGroup(g))
    /\ WF_vars(FireAccrual) /\ WF_vars(FirePayroll)
    /\ \A s \in Slots : WF_vars(StartJob(s)) /\ WF_vars(TimeoutJob(s)) /\ WF_vars(CloseLog(s))

Spec == Init /\ [][Next]_vars
FairSpec == Spec /\ Fairness

-----------------------------------------------------------------------------
TypeOK ==
    /\ day \in FirstDay..(LastDay + 1) /\ tick \in 0..LastTick
    /\ due \subseteq Crons
    /\ \A s \in Slots :
         \/ run[s] = NoRun
         \/ /\ run[s].phase \in {"between", "racing", "closed"}
            /\ run[s].group \in DOMAIN Groups
            /\ run[s].by \in {"schedule", "trigger"}
            /\ run[s].attempted \in 0..Len(Jobs(s))
            /\ run[s].since \in 0..Now
            /\ run[s].allSucceeded \in BOOLEAN
            /\ run[s].log \in {"RUNNING", "SUCCESS", "FAILED"}
    /\ up \in BOOLEAN
    /\ entered \cup {x[2] : x \in missed} \subseteq Nat
    /\ \A m \in approved \cup paid \cup background : m + 1 \in 0..Month(DateIST)
    /\ accrued \subseteq 0..Month(DateIST)
    /\ manual \in 0..MaxManual /\ faults \in 0..MaxFaults

\* However many jobs of the midnight groups hang, their runs are over before
\* 12:30, when accrual runs: the timers of a group add up to less than half an hour.
OverBeforeAccrual ==
    "MonthlyLeaveAccrual" \in due
        => \A s \in Slots : Open(s) => run[s].by = "trigger"

\* Every India date gets its attendance entry started within 20 minutes of its
\* midnight, before the office opens, however many of the three jobs before it in
\* the group fail or hang, unless the server was down or lost the log.
EveryDateEntered ==
    \A d \in (FirstDay + 1)..(IF tick >= 5 THEN day + 1 ELSE day) :
        d \in entered \/ <<"DailyMidnight", d>> \in missed

\* Payroll for a month is not generated before the leave accrual of the next
\* month has had its turn (payroll.cron: "Leave accrual has completed").
AccrualBeforePayroll ==
    \A m \in paid : \/ m + 1 \in accrued
                    \/ \E x \in missed : x[1] = "MonthlyLeaveAccrual" /\ Month(x[2]) = m + 1

\* A group that has begun ends, though its handlers may never answer.
GroupEnds == \A s \in Slots : Open(s) ~> ~Open(s)
=============================================================================
