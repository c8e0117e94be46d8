---------------------------- MODULE CronTrigger ----------------------------
(* CronTriggerService.triggerJob: an administrator starts a scheduled job  *)
(* by hand.  The service keeps, in the memory of the server, the keys (job *)
(* and period) of the runs in flight; a call is split at its awaits, so    *)
(* that calls of one key overlap.  What the jobs do is in other modules.   *)
EXTENDS Naturals, FiniteSets

CONSTANTS
    Calls,       \* bound: requests to POST /admin/cron/trigger at once
    Keys,        \* getJobKey: a job with its date, month and year
    Dependent,   \* keys of jobs with a non-empty list in CRON_DEPENDENCIES
    Periodic,    \* keys of jobs that ask for a date or for a month and year
    Future,      \* keys whose date or month has not come
    NoKey,       \* of a slot without a call
    MaxFailures  \* bound: refused log statements and crashes

ASSUME CronTriggerAssumption ==
    /\ Dependent \subseteq Keys /\ Periodic \subseteq Keys /\ Future \subseteq Periodic
    /\ NoKey \notin Keys /\ MaxFailures \in Nat

VARIABLES
    call,     \* per slot: the key, the next await, its log, has it its mark
    running,  \* the service's set runningJobs
    failures

triggerVars == <<call, running, failures>>

Steps == {"idle", "look", "start", "execute", "close", "fail"}

\* A run in flight is a call past runningJobs.add.
RunSteps == {"start", "execute", "close", "fail"}

\* "cut": another call's end took the mark of this run out of runningJobs.
Call == [key : Keys \cup {NoKey}, step : Steps, cut : BOOLEAN]

\* A slot says what it is about, and only a run has a mark to lose.
Sound(x) ==
    /\ x \in Call
    /\ x.key = NoKey <=> x.step = "idle"
    /\ x.cut = TRUE => x.step \in RunSteps

At(k, step, cut) == [key |-> k, step |-> step, cut |-> cut]

Idle == At(NoKey, "idle", FALSE)

TriggerInit ==
    /\ call = [c \in Calls |-> Idle]
    /\ running = {}
    /\ failures = 0

Run(c) == call[c].step \in RunSteps

\* What the deletion of k from the set means to a call.
Cut(x, k) == IF x.key = k /\ x.step \in RunSteps THEN At(k, x.step, TRUE) ELSE x

-----------------------------------------------------------------------------
(* Every way out of triggerJob passes through its finally.                 *)

\* The answer, after runningJobs.delete(jobKey): whoever had put it there.
End(c) ==
    /\ running' = running \ {call[c].key}
    /\ call' = [d \in Calls |-> IF d = c THEN Idle ELSE Cut(call[d], call[c].key)]

\* Refused before its first await: validateParameters, JOB_IN_PROGRESS.  The
\* finally runs all the same.
Refuse(c, k) ==
    /\ call[c] = Idle
    /\ k \in Future \cup running
    /\ running' = running \ {k}
    /\ call' = [d \in Calls |-> Cut(call[d], k)]
    /\ UNCHANGED failures

\* Mutant: the set is looked at only for the jobs that have a period.
FreeOrAperiodic(k) == k \notin running \/ k \notin Periodic

Free(k) == k \notin running

\* Dependencies are asked for unless skipped, and an earlier run of the period
\* unless the call is forced or a dry run.
Trigger(c, k, skip, force) ==
    /\ call[c] = Idle
    /\ k \notin Future /\ Free(k)
    /\ IF (k \in Dependent /\ ~skip) \/ (k \in Periodic /\ ~force)
         THEN /\ call' = [call EXCEPT ![c] = At(k, "look", FALSE)]
              /\ UNCHANGED running
         ELSE /\ call' = [call EXCEPT ![c] = At(k, "start", FALSE)]
              /\ running' = running \cup {k}
    /\ UNCHANGED failures

\* checkDependencyExecuted and checkIdempotency read the logs through findAll
\* without a sort order, which the query builder writes as "undefined", and
\* with an end it appends a second time of day to: the database refuses the
\* statement whatever the logs hold, and the call fails.
LookUp(c) ==
    /\ call[c].step = "look"
    /\ End(c)
    /\ UNCHANGED failures

-----------------------------------------------------------------------------
(* A marked call.                                                          *)

\* cronLogService.start inserts MANUAL_<job>, RUNNING.  The rows of the logs
\* are left out: no look-up of this service ever sees one.
StartLog(c) ==
    /\ call[c].step = "start"
    /\ call' = [call EXCEPT ![c] = At(@.key, "execute", @.cut)]
    /\ UNCHANGED <<running, failures>>

\* Mutant: a run whose log is not inserted ends without the finally.
LoseLogAndMark(c) ==
    /\ call[c].step = "start" /\ failures < MaxFailures
    /\ call' = [call EXCEPT ![c] = Idle]
    /\ failures' = failures + 1
    /\ UNCHANGED running

\* The insert is refused: the run ends before its inner try.
LoseLog(c) ==
    /\ call[c].step = "start" /\ failures < MaxFailures
    /\ End(c)
    /\ failures' = failures + 1

\* executeJob or executeDryRun: the job's handler returns, or throws.
Execute(c) ==
    /\ call[c].step = "execute"
    /\ \E next \in {"close", "fail"} : call' = [call EXCEPT ![c] = At(@.key, next, @.cut)]
    /\ UNCHANGED <<running, failures>>

\* cronLogService.success.
LogDone(c) ==
    /\ call[c].step = "close"
    /\ End(c)
    /\ UNCHANGED failures

\* Its update is refused: the catch logs a job that was done as FAILED.
LoseDone(c) ==
    /\ call[c].step = "close" /\ failures < MaxFailures
    /\ call' = [call EXCEPT ![c] = At(@.key, "fail", @.cut)]
    /\ failures' = failures + 1
    /\ UNCHANGED running

\* cronLogService.fail; when it is refused in turn the call ends the same way.
LogFailed(c) ==
    /\ call[c].step = "fail"
    /\ End(c)
    /\ UNCHANGED failures

\* The process dies: marks and calls are gone.
Die ==
    /\ failures < MaxFailures
    /\ call' = [c \in Calls |-> Idle]
    /\ running' = {}
    /\ failures' = failures + 1

Proceed(c) ==
    \/ LookUp(c) \/ StartLog(c) \/ LoseLog(c)
    \/ Execute(c) \/ LogDone(c) \/ LoseDone(c) \/ LogFailed(c)

TriggerNext ==
    \/ \E c \in Calls, k \in Keys : Refuse(c, k)
    \/ \E c \in Calls, k \in Keys, skip, force \in BOOLEAN : Trigger(c, k, skip, force)
    \/ \E c \in Calls : Proceed(c)
    \/ Die

TriggerSpec == TriggerInit /\ [][TriggerNext]_triggerVars

-----------------------------------------------------------------------------
TriggerTypeOK ==
    /\ call \in [Calls -> Call] /\ \A c \in Calls : Sound(call[c])
    /\ running \subseteq Keys
    /\ failures \in 0..MaxFailures

\* runningJobs has no key that nobody runs: a job is not refused for ever,
\* whatever fails, in whatever order overlapping calls end.
MarksAreLive ==
    \A k \in running : \E c \in Calls : call[c].key = k /\ Run(c) /\ ~call[c].cut

\* JOB_IN_PROGRESS: of the runs of one key in flight, all but one had their
\* mark taken by the end of another call; the check alone lets no two through.
OneRunKeepsMark ==
    \A c, d \in Calls :
        call[c].key = call[d].key /\ Run(c) /\ Run(d) /\ ~call[c].cut /\ ~call[d].cut
            => c = d

=============================================================================
