# TLA+ models of the HR backend

The repository holds an HR and payroll backend: a NestJS server (`src/backend`) over PostgreSQL with some
forty modules, a cron scheduler in the same process, and documents about both. This directory models the parts
that move money, leave, time and things: payroll, leaves and the leave year, attendance, salary structures, expenses,
settlements, the custody of assets and vehicles, the nightly jobs and their manual trigger, and the pool of database
connections they all share. Paths below are relative to `src/backend/src/modules`.

All modules share one view of the program. The server is one Node process, so a handler is atomic only between two
awaits; PostgreSQL runs at READ COMMITTED without explicit locks. A handler usually reads rows, awaits, and then
writes by primary key, in a transaction or not. So a handler is a read step and a write step (more where the code
has more), what it read is kept in a record (`req[r]`, `run[r]`), and the steps of all requests and jobs interleave. A
transaction that only writes is one step; one that fails leaves nothing behind, except where a statement of it runs
outside of it, which is then a step of its own.

## 1. Inventory

| Part | State | Operations | What is hard | What makes it correct |
| --- | --- | --- | --- | --- |
| Payroll (`payroll`, `scheduler/crons/payroll.cron`) | `payrolls`, one row per user and month | generate (single, bulk, cron), update, bulk cancel, bulk status, holiday-work credit | reads before the transaction, a wait on the unique index, writes by id alone | one row per key; paid only after approval |
| Bonuses (`bonuses`) | `bonuses` | create, update, delete; paid by payroll | the bonus is paid by a request that read it earlier | paid at most once |
| Leave applications (`leave-applications`) | one row per day applied for | apply, force, decide, auto-approve | status read without a lock; two transactions on two connections | decisions are final; one live application per day |
| Leave balances (`leave-balances`) | `consumed`, `totalAllocated` per employee, category and year | debit, credit, accrual, credit on joining | absolute writes from stale reads; no unique index | consumed covers the live applications, which stay within the allocation; one balance per year |
| Attendance (`attendance`, `attendance.cron`) | rows of a day, one of them active; food expenses | check in and out, regularize, force, approve, daily entry, end of day, auto-approval | inserts outside the transaction that switches the old row off; food credits aside | one active row per day; a day ends settled; food matches the day |
| Salary structures (`salary-structures`, its cron) | rows with `effectiveFrom`, `effectiveTo`, `isActive` | create, increment, nightly activation | the job has no transaction; it re-activates what was superseded | somebody who has a salary has one in force |
| Config settings (`config-settings`, its cron, the yearly copy in `leave.cron`) | the same columns per configuration and financial year | create, edit, copy of a year, nightly activation | as above; a copy beside a form gives a year two settings | one setting in force per year |
| Expenses (`expense-tracker`), fuel expenses (`fuel-expense`) | chains of versions, one of them active | create, edit, decide, delete | old ids, decisions against edits | the active version is the latest; nothing is lost |
| Settlement (`fnf`) | one row per exit with clearances and a status | initiate, calculate, clear, approve, documents, complete, cancel | three commits in complete; no check in documents | encashed once; archived only when paid; the statement prints the final amounts |
| Assets, vehicles (`asset-*`, `vehicle-*`) | masters, versions, events | handover initiate, accept, reject, cancel; deallocate, maintain, retire; edit; delete | the pending handover is the last event, read before the transaction; edits copy the holder | nobody holds what was not offered; one answer per handover |
| Scheduler (`scheduler`, `cron-logs`) | the clock, running groups, logs | schedules, groups of jobs with a timer each | UTC schedules against Indian dates; jobs that outlive their timer; crashes | each date entered; accrual before payroll; groups end |
| Manual trigger (`cron-trigger`) | the set of running jobs, logs | trigger, dry run | the set is cleared by refused calls | a mark stands for a run; a job runs once at a time |
| Connection pool (TypeORM's, `utils/config`) | ten connections, a queue without a time limit | taken by every statement and transaction | approvals hold one connection and ask for a second and third | never full of holders that wait |
| Users (`users`) | rows with status, joining and exit dates | create, edit, archive | creation credits leaves by the settings in force | |
| Authentication (`auth`) | refresh tokens | sign in, refresh, sign out, reset | look-up and rotation are apart | left out, see section 7 |
| Roles, permissions, cards, announcements, dashboard, messages, files, audit | rows and mail | create, update, delete, send | little | left out, see section 7 |

How they interact. The scheduler starts the jobs of attendance, leaves, config settings, salary structures and
payroll in groups, or the trigger does. Payroll reads the structure in force, the attendance of the month, pending
bonuses and the exit month set by the settlement, and writes bonuses and the leave balance. Approval of leaves and
regularization of attendance write each other's rows and the balance. The leave jobs and the creation of an employee
read the setting in force. Attendance and the settlement write expenses; the settlement asks for the assets, vehicles
and cards an employee holds. All of it goes through the database and its pool; nothing is queued.

## 2. Plan

Order of work, the most important behaviour first. Done:

1. `PayrollRun` with `PayrollRun_proofs`.
2. `LeaveLedger` with the first part of `Attendance_proofs`.
3. `CronOrchestrator` with the first part of `Server_proofs`.
4. `SalaryStructures` with `SalaryStructures_proofs`.
5. `ExpenseVersions` with `ExpenseRecord` (abstract) and `ExpenseVersions_proofs`.
6. `FnfSettlement` with `SettlementRecord` (abstract) and `FnfSettlement_proofs`.
7. `AttendanceDay` with the second part of `Attendance_proofs`.
8. `Custody` with `HandoverRecord` (abstract) and `Custody_proofs`.
9. `CronTrigger` with the second part of `Server_proofs`.
10. `ConnectionPool` with the third part of `Server_proofs`.
11. `LeaveYear` with `LeaveYear_proofs`: the activation of settings (the twin of that in `SalaryStructures`, over years),
    the copy, the accrual, the credit on joining and that of payroll, which belong together because each reads what another writes.

Every safety invariant and every action property that a run checks is a theorem now. Left: the edit of a setting in
`LeaveYear`. Sign-in and the tables of section 7 are not planned.

## 3. The modules

Each module has a comment at its head, each action one above it with the handler it stands for. `MC*` modules hold
nothing but symmetry and small constants for TLC.

**PayrollRun.** `payroll`, `bonus`, `allocated` and `exitMonth` are tables and columns; a row not inserted has status
`NONE`. `generatePayroll` is StartGenerate, CheckExit, CheckActive, Price (reads bonuses), Insert (waits for the key,
see KeyLocked), ReadBalance (outside the transaction), Commit; AnswerDuplicate and Rollback are its ends in failure.
The bulk run and the cron item differ in how they start. Status handlers are ReadForStatus and WriteStatus. Amounts
are left out: what a payroll pays is the set of bonuses it lists and the leaves it credits.

**LeaveLedger.** One employee and one financial year of a few days. An application is one row per day, as
`forceLeaveApplication` and `applyLeave` insert them. ReadBalance, CheckNextDate and CommitApply are the three parts of
applying; ReadApplication, WriteDecision and ChargeDecision those of a decision; the regularizations to and from leave,
the auto-approval, the accrual and the daily entry follow. The calendar moves with NextDay. Half days count as days,
as in the code's debit. The day has one attendance status here; its rows are in AttendanceDay. The daily entry is taken
to commit, as its comment intends (section 6 says when it does not).

**CronOrchestrator.** The clock is UTC; `DateIST` is the date the guards see. Cron patterns put jobs into `due`; a run
of a group goes through its jobs, each raced against a timer of one tick (`CRON_TIMEOUT_MS`); a handler may answer,
fail, or never answer, in which case the auto-approval goes on in `background`. The server may crash and come up again,
an insert of a log may fail, and a group may be started by hand beside the scheduled one.

**SalaryStructures.** The structures of one employee. ReadForCreate/CommitCreate and ReadForIncrement/CommitIncrement are
the requests. The job is one step per statement: ReadExpired, Deactivate, ReadPending, ReadCurrent, Supersede, Activate.
Every statement may fail and the server may die between two; the job's own error handling says what comes next.
`CURRENT_DATE` at midnight in India is the day before (StartNight), by day it is the same (StartByHand).

**ExpenseVersions.** One chain of versions, kept by either service (`kind`). ReadForEdit, ReadForDecision and
ReadForDelete take an id, of any version; the three commits write by that id. `raced` remembers that two requests were
in flight together, so that properties can speak of chains they did not overlap on without a second configuration.
**ExpenseRecord** is the abstract specification: what readers of active rows see is one record with a status.
`Stage` and `Seen` in ExpenseVersions are the mapping.

**FnfSettlement.** The settlements of one employee. Every handler is a read (ReadForCalculate, ReadForApprove, ...) and a
write by id (WriteCalculation, WriteApproval, ...); a clearance writes twice (WriteClearance, MarkPending), initiation
sets the exit date over a second connection before its own commit, and completion is CreditEncashment, WriteCompletion and
Archive, three commits. `raced` and `stray` remember overlap and documents asked for before the approval; Stop interrupts a
request anywhere. `Installed` is TRUE in the runs: it says that the connection knows the entity and that the columns its
queries ask for exist (section 6). **SettlementRecord** is the abstract specification, the status table
`VALID_STATUS_TRANSITIONS`, which no handler consults.

**AttendanceDay.** The rows of one employee on one day. A request reads the active row and becomes a `todo`, the list of
commits it still has to make: switch a row off, add one, set one, credit or reverse food. Which commits are one
transaction and which are not is what the branches of `regularizeAttendance` differ in. The four jobs (ReadForEntry,
the three parts of the end of the day, ReadCheckedOut, ReadPending) read rows and commit their writes later. `Hours` orders
them: night, shift, evening, midnight, month. `unmatched` remembers the cases of section 6 in which the code gets food wrong.

**Custody.** One asset or vehicle (`Kind`: their code differs in two checks). `versions` are the active ones, `offer` the last
event if it is a handover nobody answered, which is all the code ever reads of the events; `gone` is the deleted master.
ReadForDelete is the deletion of one, which checks nothing, ReadForBulkDelete the one of a list, which asks staff for the
status. An action or an edit is a read, an Open and a commit: Open is the first UPDATE of the transaction, and a transaction
whose UPDATE waited for an edit is `behind` it, that is, finds the rows it waited for inactive and does not see the new one, as
READ COMMITTED has it. The edit of a vehicle also updates the version it read by its id (`vehicle-masters.service.ts:521`); the
model does not take that into account and so allows more.
**HandoverRecord** is the abstract specification: a thing that is offered, answered and released as one record.

**CronTrigger.** A slot per call of `triggerJob`, split at its awaits; `running` is the service's `runningJobs`. Every way
out goes through End or Refuse, which is the `finally`; a run whose mark was taken by another call's `finally` is `cut`.
LookUp stands for the dependency and repetition checks. Log statements can be refused, the process can crash.

**ConnectionPool.** Handlers as the number of connections they hold at their deepest (`Depth`, one definition per handler
with the nested call named), a FIFO queue, and the wait of a payroll on the unique index. What is done with the connection is
in the other modules. `PoolAssumption` is the load under which the pool works; nothing in the code keeps it there.

**LeaveYear.** One monthly leave category: `setting` are the rows of its configuration, each for one of two years, `balance` the
rows of every employee and year. CreateSetting, ReadForCopy/CommitCopy add settings; the activation is again one step per
statement, over the settings of all years; the accrual (by schedule in whole leaves, by hand in hundredths) is StartAccrual,
ReadSettingId, ListStaff, CreditUser per employee and CommitAccrual, by hand for months that have begun; ReadForJoin and
CommitJoin create an employee. ReadForPayroll and CommitPayroll are the credit for work on holidays, which writes the same
column: what else a payroll does is in PayrollRun. `overlap` and `early` remember what the properties exclude: two runs of one
job at once, and forms that ask for an active setting. `disturbed` says that a statement of the activation failed or that a
setting came in between. `floor` is a history variable that no step reads: the balances of an employee as they were when nobody
had read one to write a total.

## 4. The runs

| Run | Instance | Shows |
| --- | --- | --- |
| payroll_overlap | 2 requests, 1 month, 1 bonus, 2 rows | no payment without approval (PaidWasApproved), no bonus twice in a month (BonusOncePerMonth), every call ends (CallsEnd) |
| leave_serial | 1 request, 3 days, 3 applications | consumed covers the live applications (ConsumedCoversLive), these stay within the allocation (LiveWithinAllocated), no day is applied for twice (AppliedOncePerDay), decisions are final (DecidedIsFinal) |
| cron_nights | 3 nights, months of 3 days, 1 fault, 1 manual start | what precedes the accrual is over (OverBeforeAccrual), twenty minutes after midnight the date is entered or missed (EveryDateEntered), accrual before payroll (AccrualBeforePayroll), groups end (GroupEnds) |
| salary_nights | 4 days, 3 structures, 2 failures | after a clean night a structure is in force (NightEndsCovered); in the end the latest one (EventuallyLatest) |
| expense_overlap | 3 requests, 4 versions | nothing lost (NeverLost); fuel expenses in line (FuelInLine), and one record to readers (FuelIsOneRecord) |
| fnf_orderly | 2 requests, 2 settlements, 1 interruption | encashment credited once (EncashedOnce), the archived were paid (ArchivedWasPaid), statements print what is final (PrintedIsFinal), an exit date has a settlement (ExitHasReason), the handlers follow the table (FollowsTable) |
| custody | 1 asset, 2 users, 2 requests | holders were offered what they hold (HolderWasOffered), HandoverRecord is implemented, by which a deleted asset changes hands no more (HandedOver) |
| attendance | 2 requests, 4 rows, 1 interruption | a day keeps an active row (SomethingActive), one (OneActiveRow), ends settled (DayIsSettled), and its food matches it (FoodMatchesDay) |
| attendance_entry | 1 request | the nightly entry enters no row at all (EveryDayIsEntered is violated, section 6) |
| cron_trigger | 3 calls, 4 keys, 2 faults | a mark stands for a run (MarksAreLive); of overlapping runs of a job one at most keeps its mark (OneRunKeepsMark) |
| pool | 6 connections, 6 requests | the pool is never full of waiting holders (NeverExhausted), every request is answered (CallsEnd) |
| leave_year | 1 employee, 2 jobs or requests, 3 days over 2 years, 3 settings, 1 form that is not validated, credits up to a total, 1 failure | a year has one setting in force (YearsInForce), an employee one balance (OneBalance), accruals and payrolls that overlap take nothing away that was there before both (NeverBelowFloor) |

The runs of LeaveLedger, CronOrchestrator and AttendanceDay check their type invariants (TypeOK, DayTypeOK) as well; those of
the other modules are proved only.

Bounds. Two requests are enough for the pairs of reads and writes the handlers consist of, since each handler has one read that
can go stale against each table; expense_overlap and cron_trigger have three, the number their hazards take. Three days and a
holiday let an application span, be refused by, and skip a day; months of two days put the month's end into it. Cron months have
three days because nothing is scheduled after the 3rd. Salary structures: create, increment and one more, which is what the job
needs to alternate between two and supersede a third. Version chains of four hold an edit, a decision and its reversal. Two
settlements: a second one is possible once the first is calculated; requests that overlap begin on one, which bounds the product
and loses no pair of handlers on a settlement. Two active versions of an asset is what overlapping edits produce. Four rows of a
day: entry, punch, regularization and one more. The pool is the smallest in which a request of depth three, two of depth two and
two payrolls of one key meet at the load PoolAssumption allows. The leave year has the first year's setting and two more, by
form or copy, in either year, the first of them by a form that is not validated if it likes (`MaxBypassed`); a day is a month,
so that each day accrues, and a setting made by form begins on the second and ends in time to expire. Amounts are counted in
halves there, so that the manual accrual can be ahead of the scheduled one; payroll credits one leave as long as the total stays
within three halves (`MaxCredit`, `MaxTotal`), which leaves room for a credit on top of a share and for the accrual that comes
to less. Interruptions: one, anywhere, except where two are told apart (salary_nights, cron_trigger). Row and fault bounds stop
the model, not the code; runs with them are checked with CHECK_DEADLOCK FALSE, because then all rows may be used up. In
payroll_overlap, cron_trigger and pool deadlock is checked.

`leave_serial` has one request slot on purpose. What it states is broken by overlapping requests: that is a property of the
code, told in section 6, and the run shows that overlap is what it takes; the theorems are about any number of requests that do not
overlap. FnfSettlement, Custody, AttendanceDay and LeaveYear
remember overlap in a variable instead, and their properties say which of them hold with it and which without. LeaveYear's
run excludes the overlap of a job with itself (`Overlapping = {}`); so do YearsInForce and OneBalance, and of NeverBelowFloor the
theorem covers the rest. Requests, copies, payrolls and the other job overlap it freely.

Fairness. PayrollRun: a request that was taken is carried on (weak fairness per request, Node resolves what is
pending), and a waiter on the unique index gets it in the end (strong fairness of Insert, PostgreSQL queues waiters).
CronOrchestrator: the clock and the server's own steps; job handlers may never answer, so none is assumed of them.
SalaryStructures: days pass and the job starts each night (strong fairness, since a request or a run by hand can be in the way)
and goes on (weak); failures are limited by their number. Requests are assumed nothing of there. ConnectionPool: weak fairness of
each request's progress, that is, the database answers, and the queue is served in order, as pg-pool does. The other modules
have no liveness property: their requests may always be refused, or interrupted for good.

Each property has a mutant: a plausible wrong version of one definition, beside that definition under a comment
"Mutant", with which the property fails.

## 5. The proofs

All are checked with TLAPS for every value of the constants under the modules' assumptions, which only say that bounds
are numbers, that null values are not keys, and the like; the one that says more is PoolAssumption.

Components whose proofs share a module (`Server_proofs`, `Attendance_proofs`) name their variables, actions and specifications
apart, so that one module can extend them; nothing else connects them.

**PayrollRun_proofs**: TypeCorrect, UniquePayroll, ApprovedBeforePaid, BonusPaidOncePerMonth, BonusListedOnce,
NeverOverCredited. The inductive invariant adds to the properties what an open transaction owns (an id and a key nobody else
has: TxInv), that a request about to write PAID names a row whose approval is recorded (ApprovalInv; approvedAt is never taken
back), and that payrolls list bonuses of their own user (OwnerInv). None of the properties is inductive alone: the reads happen
steps before the writes. With one request at a time (Serial) a bonus is listed by one payroll in whatever month: ListedInv says
that what is listed is paid, and what the request in flight is about to list is still pending and listed nowhere. CreditInv says
that the balance, and any balance a request has read and not yet written back, is at most what the payrolls of that user credit:
those sums only grow, so a stale read can lose credits but never invent one (NeverOverCredited). That one is proved and not run:
it takes payrolls of one user in two months, since the key keeps two of one month apart, and two months are too much for a run.

**SalaryStructures_proofs**: TypeCorrect and NightsCover. NamesInv says that whatever the job has listed or has in hand has
begun for its date. From there: in a clean night everything that has begun and is not active is still listed, so when
the list is empty something that has begun is active; superseding is followed by activating a structure that has begun.

**ExpenseVersions_proofs**: TypeCorrect, NotLost, InLine and OneRecord, the refinement of ExpenseRecord. LineInv says that on a
fuel expense without overlap at most one request is in flight, that it names the last version, and that this version is
still in the status the request read (Fits); after a deletion nothing is in flight. Each commit then is one step of the
record, each read none.

**FnfSettlement_proofs**: TypeCorrect, StatementIsRight, PaidBeforeArchived, CreditedOnce, LeavesForReason and TableFollowed, the
refinement of SettlementRecord. All nine writes are one form, a settlement changed by id, so one lemma (Effect) says what each
does to the row, and Moves what that means for the others. GoodRow is what a row says by itself (printed amounts, completion
dates), Holds and Knows what a request still knows of its settlement while it waits: for statements and the table only without
overlap (Alone), for archiving with any, because completedAt and the credits of a settlement only grow. Completed ties the
archived employee to a row that was paid; it holds across interruptions since archiving comes last. Reason says that the exit
date is taken back only with the last settlement that is not cancelled, as long as there is one at a time.

**Custody_proofs**: TypeCorrect, HoldersWereOffered and HandsOver, the refinement of HandoverRecord. Who holds
or is about to (Owned) was asked before (Asked), with any overlap, edits that carry an old holder included. The rest is about
things requests did not overlap on (Kept): one request (Alone), one version (One), and the request's copy of it still true
(Due), so that its commit is one step of the record.

**Attendance_proofs**, first part, LeaveLedger: TypeCorrect for whatever overlaps, and LiveIsPaid, NoLeaveBeyondAllocated,
NoDayTwice and NoWayBack for any number of requests of which no two are in flight together (`[]Alone`, which section 6 shows to be
needed). What a request read is then still so when it writes (Fresh): the balance and the days it found free, the status it
checked against the transitions, the list the auto-approval selected. An application inserted by `applyLeave` falls on a day with no
live one (Once), each insert raises consumed by as much as it adds, and no step raises the live applications of a category without
having compared with the allocation.

Second part, AttendanceDay: DayTypeCorrect, DayKeepsARow, DayHasOneRow, FoodIsForWork and DayGetsSettled. Plan says, once and for all
handlers, what list of commits a handler begins with: it names active rows, what it switches off it replaces, its food is
what its rows gain or lose, its rows are decided. StepsInv says that lists and jobs refer to rows there are, whatever overlaps.
DayKeepsARow holds with any overlap: the last row is active unless its successor is still to be inserted (LastInv). The others
are about steps that overlap with nothing: OrderInv has one list or one job at a time, naming active rows, and JobInv
that a job is about to commit what it would read now. CountInv counts the active rows with those a list still adds and switches
off; FoodInv does the same for food (Owed is what a list still credits beyond the work it still brings), up to one per interruption;
SettledInv follows the day to the evening, after which every row is decided or a holiday (Late) and every commit decides.

**Server_proofs**, first part, CronOrchestrator: NightTypeCorrect, MidnightIsOver, DatesAreEntered and PayrollAfterAccrual. The
clock moves only when each open run races a job whose timer still runs, so an open run has attempted a job for every tick but
the last (OnTime); groups have four jobs at most, so what began at midnight is over when the accrual fires. EntryInv says that
from midnight on the entry of the new date is due, still to come in an open run, done, or missed. AccrualInv says the same of
the accrual on each 1st, with one hypothesis: the clock does not start on the 2nd, when payroll would run for a month whose
accrual it did not see.

Second part, CronTrigger: TriggerTypeCorrect, NoMarkLeft and OverlapOnlyByCut. Every slot is sound (only a run can be cut), a mark
belongs to a run that is not cut, and two runs of one key are never both uncut: a second run starts only when the mark is
gone, and it goes only by a `finally`, which cuts.

Third part, ConnectionPool: PoolTypeCorrect, NoConnectionLost and RoomForNesting. Shape relates the step of a request to the
connections it holds; the rest is counting. If no connection is free and every holder waits, the connections held are among
WaitSlots, and by PoolAssumption those are fewer than Size, while NoConnectionLost says that Size are held.

**LeaveYear_proofs**: TypeCorrect, OneSettingInForce, BalanceIsOne and NothingBelowFloor. Names says that a run of the
activation lists rows that exist; InForce that a lone activation, before it switches a setting off, has in hand the one that is
active, and before it switches one on, no other is (Knows), so that a year never has two; and that, undisturbed, what has begun
is still on its list as long as its year has none (Covers). Balanced says that who has not joined has no balance, that an
accrual's list of staff and writes only name people who have joined, and that what it inserts it found missing: so what a
joining inserts is never also inserted by the accrual, and payroll inserts nothing. Floored says that no balance, and no total
that an accrual or a payroll has in hand, is below the floor of its row: a total is at least what was read, which was at least
the floor, and the floor stays while the total is in hand.

Only model-checked: liveness, which is beyond the prover (CallsEnd of PayrollRun and ConnectionPool, GroupEnds, EventuallyLatest).
EveryDayIsEntered is violated, as section 6 tells. Every other property of the runs is a theorem: those of LeaveLedger and
those marked "without overlap" only for requests that do not overlap, which is what they say or what their run has.

## 6. What the models found

**A run shows it.** `attendance_entry`: the daily entry (`attendance.cron.service.ts:147`) enters holidays and the default
`NOT_CHECKED_IN_YET` with a null approval status, which the column refuses (migration 1749352656103:67-71). The refused insert
aborts the transaction of all employees; the errors are caught one by one, and the job reports success with no row entered.

**Seen with the same models, by runs that gave way to later ones.**

- The refund of leaves has the wrong sign: `leave-applications.service.ts:1213`, 1234, 1264, 1330, 1351 and 1381 write consumed + 1
  for rejected and cancelled days, against `leave-application.constants.ts:20` and the refund in `attendance.service.ts:2104`.
  A balance is then refused as exhausted after a rejection.
- Payroll runs with no auto-approval before it: '30 18 1 * *' (`scheduler.constants.ts:68`) is midnight of the 2nd in India, and
  the group is skipped by its own date check (`cron-orchestrator.service.ts:222`), while `payroll.cron.service.ts:40` says the
  approvals are complete by then. The April group is skipped in the same way.
- Two active salary structures: `salary-structure.service.ts:303` looks for a current structure with an effectiveTo that is null,
  and the job re-activates superseded ones that have one (`salary-structure.queries.ts:47`), against `salary-structure.constants.ts:16`.
- An old version of an expense is approved beside the new one: `expense-tracker.service.ts:783` looks up by id without isActive,
  where `fuel-expense.service.ts:880` asks for it.
- A bulk cancel that has read a payroll before it was paid cancels the PAID row (`payroll.service.ts:513` against :493).

**Payroll and leaves.**

- A rejected leave application can become approved: a decision reads the status in one transaction and writes by id in
  another (`leave-applications.service.ts:1033`), while `leave-application.constants.ts:39` says it cannot. Two decisions,
  or a decision and the auto-approval, do it.
- Two overlapping applications for one day pass the duplicate check together and debit once.
- A payroll cancelled cannot be generated again: the check for active rows lets it through, the unique index of migration
  1770000000003 has no condition on the status.
- A bonus paid by a payroll that is then cancelled stays PAID, and two payrolls of different months may list one bonus when
  requests overlap on it and the bonus is moved between them.
- A day entered as leave for an application still pending is not credited when it is regularized.
- The night after an increment, the job re-activates the superseded structure and then the new one again, every night, and leaves
  the current one with an effectiveTo; increments are refused from then on. In the end the latest is in force, which is what
  salary_nights shows.

**The leave year.**

- The settings of a new year become active the night after the year began, since `CURRENT_DATE` is the day before at midnight in
  India; on 1 April leave applications and new employees are refused. The copy of last year's settings runs by hand only.
- The activation's pending query does not ask for effectiveTo, so a setting that has just expired is activated again in the same run.
- A copy looks for an existing setting outside its transaction (`leave.cron.service.ts:197`). Two overlapping copies, or a copy and
  a form, give a year two settings; one is in force at a time, but they change places every night.
- Overlapping accruals insert two balances of an employee, or write the lower total last. A setting switched off between the two
  reads of the accrual makes the setting's id an empty string, which the uuid column refuses: every credit is rolled back, and reported.
- An accrual credits an employee who joined in the middle of the year back to April, and what payroll credited for work on holidays is
  swallowed by the next accrual, which takes them for part of what it owes.
- Payroll and the accrual write the same total absolutely, from a balance read before (`payroll.service.ts:1121` and 1156,
  `leave.cron.service.ts:816`). If payroll commits its credit between the accrual's read and its commit, the accrual writes its own
  total over it and the allocation goes down, without a second accrual; a payroll that comes late takes back an accrual in the same
  way. NeverBelowFloor says what remains: nothing is lost but what was credited while a total was in hand.
- A body of POST /config-settings may say isSystemOperation, which the DTO calls internal (`create-config-setting.dto.ts:44`): it skips
  the validation, and with the current year the setting is active at once, beside the one in force.
- Categories that are not credited monthly get no balance in a new year (the carry-forward is not implemented). `getCalendarSettings`
  asks for an active setting of any year. Settings without effectiveFrom never become active.

**Settlement.**

- `getOrmConfig` (`utils/config/config.service.ts:71`) does not list FnfEntity, and no migration creates the columns of cards that
  `fnf/queries/fnf.queries.ts:21` reads: as the repository stands every handler of a settlement fails. The model is of what they do
  once that is there (`Installed`).
- A second settlement can be initiated once the first is calculated; cancelling either clears the exit date of both.
- Documents are generated in any status (the message for NOT_APPROVED in `fnf.constants.ts:18` is never used); after COMPLETED this
  allows a second completion and a second encashment. A completion interrupted after the encashment pays again when repeated, one
  interrupted before the archiving leaves the employee active.
- The approval does not accept NOT_APPLICABLE as a clearance.

**Custody.**

- An edit records an UPDATED event, which hides a pending handover: nobody can answer it any more. An edit that overlaps an acceptance
  writes the old holder back; two overlapping edits leave two active versions. An edit cannot clear the holder.
- DELETE of one asset or vehicle (`asset-masters.service.ts:541`, `vehicle-masters.service.ts:743`) looks neither at its status nor at its
  holder; only the bulk route refuses what is assigned, and only for staff who are neither admin nor HR. What somebody holds can be
  deleted, so that the settlement's clearance no longer counts it, and an asset also while a handover of it is pending, which
  nobody can answer then.
- What is retired or damaged while somebody holds it stays theirs and cannot be given back, so that the settlement's clearance counts
  it. A vehicle that was deleted still takes actions.
- Cards: the bulk deletion looks at fuel expenses only, a deleted card stays on its vehicle, and `vehicle_masters.cardId` is unique over
  deleted vehicles too, so their cards can never be used again.

**Attendance.**

- With one punch a day, a second check-in inserts a second active row. Overlapping handlers leave two as well, an interruption between
  the two commits of a regularization none, or, in the branch of half days, two.
- From present to leave the food expense is reversed twice (`attendance.service.ts:2484` and 795, against
  `docs/ATTENDANCE-REGULARIZATION.md:277`); rejecting an approved day of leave or absence, or regularizing a present day that
  was not approved, reverses what was never credited; a day approved during the shift and punched again is credited twice; a leave decided with
  a status of attendance has no food expense.
- Regularizations without a branch (from CHECKED_OUT, HALF_DAY or leave without pay to PRESENT) answer success, change nothing and credit food.
  Approving any day makes it PRESENT.
- The automatic approval never credits food: it passes the word SYSTEM where a uuid is wanted (`attendance.service.ts:2055`).
- The end-of-day job writes by id what it selected before, and can undo an approval that came in between.

**Manual trigger.** The look-ups of earlier runs and of dependencies are refused by PostgreSQL (`cron-trigger.service.ts:265`:
an ORDER BY of undefined, a date with its time twice), so these checks never answer. The `finally` at line 167 runs for refused
calls as well and removes the mark of the run in progress, after which a third call starts the job again. The dependencies are
named differently from the logs, dry runs are logged under another name, and the period looks at when a run started, not at what
it processed.

**Connection pool.** Ten connections by default and no time limit. Five overlapping approvals of past leaves, each holding two and
waiting for a third, stop the server for good (`leave-applications.service.ts:1033`); nothing bounds the load below that.

## 7. Not modelled

Amounts and rounding (payslip, encashment, the share of the month of joining): arithmetic over decimals that no state depends
on. Listing, paging, statistics, dashboards, reminders, mail, WhatsApp, uploads, announcements and audit logs: they read, or
write what nothing reads. Validation of dates, categories and configuration values beyond the guards named above. Roles and
permissions: look-ups. Sign-in and refresh tokens: sessions touch none of the records above. Cards: rows whose one use elsewhere
is the count in a clearance; what was seen of them is in section 6. The edit of a setting, and configurations without years: the
same upsert and the same activation as in LeaveYear. The dates, calibrations and services of assets and vehicles: single
inserts. Shift times and the allowed period of a regularization: conditions on a clock that AttendanceDay has in five steps
only. The carry-forward of leaves: the code is a stub. The front end is not part of the repository.
