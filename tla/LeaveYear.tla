------------------------------- MODULE LeaveYear -------------------------------
(***************************************************************************)
(* A leave category over the change of the financial year: the settings of *)
(* its configuration, each for one year; the jobs that copy last year's,   *)
(* activate what has begun and credit the month; the credit of an employee *)
(* who joins; and what payroll credits for holidays worked.                *)
(*                                                                         *)
(* A setting is only used while it is active.  The activation has no       *)
(* transaction, and takes its date from the database: at midnight in India *)
(* that is the day before.  The accrual asks for the setting, for its id   *)
(* and for the employees before its transaction, and in it reads and       *)
(* writes one balance after the other.  Payroll reads the balance outside  *)
(* its transaction.  Both write a total, not a difference, and neither     *)
(* locks the row it has read.  No table has a unique index that would keep *)
(* a year or a balance from being there twice.                             *)
(***************************************************************************)
EXTENDS Integers, Sequences, FiniteSets

CONSTANTS
    Users,
    Longtime,     \* those who are there from the beginning, without a balance
    Runs,         \* jobs and requests that can be in flight together
    Overlapping,  \* the jobs of which two can be in flight together
    LastDay,      \* bound: the last day
    NewYear,      \* the first day of year 2
    MonthLength,
    Months,       \* of a year
    FormStarts,   \* bound: first days that forms ask for
    FormEnds,     \* bound: ends that forms ask for
    Quota,        \* annualQuota
    Precision,    \* in what an amount is counted (100 in the code)
    MaxShare,     \* bound: the share of the month of joining
    MaxCredit,    \* bound: leaves that one payroll credits
    MaxTotal,     \* bound: the total that a payroll writes
    MaxSettings,  \* bound: rows of config_settings
    MaxBypassed,  \* bound: rows there can be when a form skips the validation
    MaxFaults     \* bound: statements that fail, jobs that stop

ASSUME LeaveYearAssumption ==
    /\ Longtime \subseteq Users /\ Overlapping \subseteq {"activation", "accrual"}
    /\ LastDay \in Nat /\ NewYear \in 2..LastDay
    /\ MonthLength \in Nat \ {0} /\ Months \in Nat \ {0}
    /\ NewYear <= Months * MonthLength + 1
    /\ LastDay < NewYear + Months * MonthLength
    /\ FormStarts \subseteq 1..LastDay
    /\ FormEnds \subseteq 1..(NewYear + Months * MonthLength)
    /\ Quota \in Nat /\ Precision \in Nat \ {0}
    /\ MaxShare \in Nat /\ MaxCredit \in Nat /\ MaxTotal \in Nat
    /\ MaxSettings \in Nat \ {0} /\ MaxBypassed \in Nat /\ MaxFaults \in Nat

VARIABLES
    today,      \* the date in India
    setting,    \* config_settings of the category, in the order of insertion
    staff,      \* users whose status is ACTIVE
    balance,    \* totalAllocated of the rows per user and year
    floor,      \* history: the balances when a total of the user was last in nobody's hands
    run,        \* what each job or request in flight has read
    overlap,    \* the jobs of which two were in flight at the same time
    early,      \* a form has asked for an active setting
    disturbed,  \* in this activation a statement failed, or something came between
    faults

vars == <<today, setting, staff, balance, floor, run, overlap, early, disturbed, faults>>

Years == 1..2
Days == 1..LastDay
\* The year of the model before the first day is not shorter than the others.
YearLength == Months * MonthLength
FirstOf(y) == IF y = 1 THEN NewYear - YearLength ELSE NewYear
LastOf(y) == FirstOf(y) + YearLength - 1

YearOf(day) == IF day < NewYear THEN 1 ELSE 2

\* getMonthInFinancialYear
MonthOf(day) == (day - FirstOf(YearOf(day))) \div MonthLength + 1

\* The second of a month: 19:00 UTC on the 1st.
AccrualDay(day) == (day - FirstOf(YearOf(day))) % MonthLength = 1 % MonthLength

Starts == (2 - YearLength)..(NewYear + YearLength)
Ends == (1 - YearLength)..(NewYear + YearLength)
Setting == [year : Years, from : Starts, to : Ends, active : BOOLEAN]
Ids == 1..MaxSettings
Rows == DOMAIN setting
Active(y) == {i \in Rows : setting[i].active /\ setting[i].year = y}
Begun(date) == {i \in Rows : setting[i].from <= date}

\* shouldHaveCreditedByNow: whole leaves by the schedule, hundredths by hand.
Scheduled(month) == Precision * ((Quota * month) \div Months)
ByHand(month) == (Precision * Quota * month) \div Months
Totals == Nat

Idle == [step |-> "idle"]
Listing == [step : {"expiring", "deactivating", "reading", "activating"},
            date : 0..LastDay, todo : SUBSET Ids]
Switching == [step : {"superseding", "switching"}, date : 0..LastDay,
              todo : SUBSET Ids, id : Ids, current : 0..MaxSettings]
Copying == [step : {"copying"}, year : Years]
Joining == [step : {"joining"}, user : Users, year : Years, share : 0..MaxShare]
Accruing == [step : {"identifying", "listing"}, year : Years, total : Totals,
             known : BOOLEAN]
Credit == [user : Users, row : Nat, total : Totals]
Crediting == [step : {"crediting"}, year : Years, total : Totals, known : BOOLEAN,
              todo : SUBSET Users, writes : SUBSET Credit]
Paying == [step : {"paying"}, user : Users, year : Years, row : Nat, total : Totals]

ActivationSteps == {"expiring", "deactivating", "reading", "activating",
                    "superseding", "switching"}
AccrualSteps == {"identifying", "listing", "crediting"}

-----------------------------------------------------------------------------
\* Employees from before the year 1 ends, and its setting.
Init ==
    /\ today = 1
    /\ setting = <<[year |-> 1, from |-> FirstOf(1), to |-> LastOf(1), active |-> TRUE]>>
    /\ staff = Longtime
    /\ balance = [u \in Users |-> [y \in Years |-> <<>>]]
    /\ floor = balance
    /\ run = [r \in Runs |-> Idle]
    /\ overlap = {}
    /\ early = FALSE /\ disturbed = FALSE
    /\ faults = 0

Go(r, state) == run' = [run EXCEPT ![r] = state]

\* A job of this name begins, beside another one or not.
Begin(r, name, steps, state) ==
    /\ run[r] = Idle
    /\ Go(r, state)
    /\ IF \E s \in Runs : run[s].step \in steps
         THEN name \in Overlapping /\ overlap' = overlap \cup {name}
         ELSE UNCHANGED overlap

Fault == faults < MaxFaults /\ faults' = faults + 1

-----------------------------------------------------------------------------
(* Settings.                                                               *)

\* validateLeaveConfig: the current year cannot be set, nor anything that has
\* begun (a date begins at 5:30 in India).
ValidLeaveConfig(y, from, to) ==
    y # YearOf(today) /\ from >= today /\ from <= to

\* create.  The setting waits for its day unless the form says isActive.  A form
\* that says isSystemOperation is not validated; one for the current year is then
\* active unless it says otherwise, beside the one that is in force.
CreateSetting(y, from, to, active, isSystemOperation) ==
    /\ Len(setting) < MaxSettings
    /\ IF isSystemOperation THEN Len(setting) <= MaxBypassed ELSE ValidLeaveConfig(y, from, to)
    /\ setting' = Append(setting, [year |-> y, from |-> from, to |-> to, active |-> active])
    /\ early' = (early \/ active)
    /\ disturbed' = TRUE
    /\ UNCHANGED <<today, staff, balance, run, overlap, faults>>

\* handleFYLeaveConfigAutoCopyDirect: skipped if the year has a setting.
ReadForCopy(r, y) ==
    /\ run[r] = Idle
    /\ \A i \in Rows : setting[i].year # y
    /\ Go(r, [step |-> "copying", year |-> y])
    /\ UNCHANGED <<today, setting, staff, balance, overlap, early, disturbed, faults>>

\* An error if there is no last year to copy from.
CommitCopy(r) ==
    /\ run[r].step = "copying"
    /\ LET y == run[r].year IN
       IF \E i \in Rows : setting[i].year = y - 1
         THEN /\ Len(setting) < MaxSettings
              /\ setting' = Append(setting, [year |-> y, from |-> FirstOf(y),
                                             to |-> LastOf(y), active |-> FALSE])
         ELSE UNCHANGED setting
    /\ disturbed' = TRUE
    /\ Go(r, Idle)
    /\ UNCHANGED <<today, staff, balance, overlap, early, faults>>

-----------------------------------------------------------------------------
(* The activation.                                                         *)

\* Every midnight, or by hand.
StartActivation(r, date) ==
    /\ date \in {today - 1, today}
    /\ Begin(r, "activation", ActivationSteps,
             [step |-> "expiring", date |-> date, todo |-> {}])
    /\ disturbed' = FALSE
    /\ UNCHANGED <<today, setting, staff, balance, early, faults>>

StepOn(r, step, todo) == Go(r, [step |-> step, date |-> run[r].date, todo |-> todo])

Went == UNCHANGED <<disturbed, faults>>
Failed == Fault /\ disturbed' = TRUE

\* getExpiredActiveSettingsQuery
ReadExpired(r) ==
    /\ run[r].step = "expiring"
    /\ \/ /\ StepOn(r, "deactivating",
                    {i \in Rows : setting[i].active /\ setting[i].to < run[r].date})
          /\ Went
       \/ StepOn(r, "reading", {}) /\ Failed
    /\ UNCHANGED <<today, setting, staff, balance, overlap, early>>

Deactivate(r) ==
    /\ run[r].step = "deactivating"
    /\ \E i \in run[r].todo :
         /\ StepOn(r, "deactivating", run[r].todo \ {i})
         /\ \/ setting' = [setting EXCEPT ![i].active = FALSE] /\ Went
            \/ UNCHANGED setting /\ Failed
    /\ UNCHANGED <<today, staff, balance, overlap, early>>

\* Mutant: "effectiveFrom" < CURRENT_DATE.
BegunBefore(date) == {i \in Rows : ~setting[i].active /\ setting[i].from < date}

\* getPendingActivationSettingsQuery.  It does not ask for the end, and so
\* lists what has just been deactivated.
Pending(date) == {i \in Begun(date) : ~setting[i].active}

ReadPending(r) ==
    /\ \/ run[r].step = "reading"
       \/ run[r].step = "deactivating" /\ run[r].todo = {}
    /\ \/ StepOn(r, "activating", Pending(run[r].date)) /\ Went
       \/ StepOn(r, "activating", {}) /\ Failed
    /\ UNCHANGED <<today, setting, staff, balance, overlap, early>>

\* Year by year, in the order of effectiveFrom.
First(S) ==
    {i \in S : \A j \in S :
        \/ setting[i].year < setting[j].year
        \/ setting[i].year = setting[j].year /\ setting[i].from <= setting[j].from}

\* getCurrentActiveSettingQuery, LIMIT 1
ReadCurrent(r) ==
    /\ run[r].step = "activating"
    /\ \E i \in First(run[r].todo) :
         LET active == Active(setting[i].year) IN
         \/ \E c \in IF active = {} THEN {0} ELSE active :
              /\ Go(r, [step |-> IF c \in {0, i} THEN "switching" ELSE "superseding",
                        date |-> run[r].date, todo |-> run[r].todo, id |-> i, current |-> c])
              /\ Went
         \/ StepOn(r, "activating", run[r].todo \ {i}) /\ Failed
    /\ UNCHANGED <<today, setting, staff, balance, overlap, early>>

NextTurn(r) == StepOn(r, "activating", run[r].todo \ {run[r].id})

\* Mutant: a setting that could not be superseded does not hold up the next.
SupersedeOrNot(r) ==
    /\ run[r].step = "superseding"
    /\ run' = [run EXCEPT ![r].step = "switching"]
    /\ \/ setting' = [setting EXCEPT ![run[r].current] =
                        [@ EXCEPT !.active = FALSE, !.to = setting[run[r].id].from - 1]] /\ Went
       \/ UNCHANGED setting /\ Failed
    /\ UNCHANGED <<today, staff, balance, overlap, early>>

\* If this fails the pending setting is not activated.
Supersede(r) ==
    /\ run[r].step = "superseding"
    /\ \/ /\ setting' = [setting EXCEPT ![run[r].current] =
                           [@ EXCEPT !.active = FALSE, !.to = setting[run[r].id].from - 1]]
          /\ run' = [run EXCEPT ![r].step = "switching"]
          /\ Went
       \/ UNCHANGED setting /\ NextTurn(r) /\ Failed
    /\ UNCHANGED <<today, staff, balance, overlap, early>>

Activate(r) ==
    /\ run[r].step = "switching"
    /\ NextTurn(r)
    /\ \/ setting' = [setting EXCEPT ![run[r].id].active = TRUE] /\ Went
       \/ UNCHANGED setting /\ Failed
    /\ UNCHANGED <<today, staff, balance, overlap, early>>

Over(r) == run[r].step = "activating" /\ run[r].todo = {}

EndActivation(r) ==
    /\ Over(r)
    /\ Go(r, Idle)
    /\ UNCHANGED <<today, setting, staff, balance, overlap, early, disturbed, faults>>

-----------------------------------------------------------------------------
(* The accrual.                                                            *)

\* getLeaveCategoriesConfig: without an active setting nothing is done.
StartAccrual(r, y, total) ==
    /\ Active(y) # {}
    /\ Begin(r, "accrual", AccrualSteps,
             [step |-> "identifying", year |-> y, total |-> total, known |-> FALSE])
    /\ UNCHANGED <<today, setting, staff, balance, early, disturbed, faults>>

Accrue(r) ==
    \/ AccrualDay(today) /\ StartAccrual(r, YearOf(today), Scheduled(MonthOf(today)))
    \/ \E day \in 1..today : StartAccrual(r, YearOf(day), ByHand(MonthOf(day)))

\* getLeaveConfigSettingId asks for the active setting again.
ReadSettingId(r) ==
    /\ run[r].step = "identifying"
    /\ run' = [run EXCEPT ![r] = [@ EXCEPT !.step = "listing",
                                           !.known = Active(run[r].year) # {}]]
    /\ UNCHANGED <<today, setting, staff, balance, overlap, early, disturbed, faults>>

\* getActiveUsersQuery
ListStaff(r) ==
    /\ run[r].step = "listing"
    /\ Go(r, [step |-> "crediting", year |-> run[r].year, total |-> run[r].total,
              known |-> run[r].known, todo |-> staff, writes |-> {}])
    /\ UNCHANGED <<today, setting, staff, balance, overlap, early, disturbed, faults>>

\* getUserLeaveBalanceQuery: the total and the place of one of the rows, of none.
Allocated(u, y) ==
    LET rows == balance[u][y] IN
    IF rows = <<>> THEN {[row |-> 0, total |-> 0]}
                   ELSE {[row |-> i, total |-> rows[i]] : i \in DOMAIN rows}

\* Mutant: the balances it looks for are those of the accrual, which are the
\* first of an employee.
AllocatedByAccrual(u, y) ==
    IF u \in Longtime THEN Allocated(u, y) ELSE {[row |-> 0, total |-> 0]}

Found(u, y) == Allocated(u, y)

\* Mutant: toCredit may be negative.
Differs(total, now) == total # now

ToCredit(total, now) == total > now

\* creditLeavesForUser: it becomes the total that was due, not more by a credit.
CreditUser(r) ==
    /\ run[r].step = "crediting"
    /\ \E u \in run[r].todo : \E now \in Found(u, run[r].year) :
         Go(r, [run[r] EXCEPT
             !.todo = @ \ {u},
             !.writes = IF ToCredit(run[r].total, now.total)
                          THEN @ \cup {[user |-> u, row |-> now.row, total |-> run[r].total]}
                          ELSE @])
    /\ UNCHANGED <<today, setting, staff, balance, overlap, early, disturbed, faults>>

\* The rows of user u in year y after the writes.
Written(writes, u, y, year) ==
    LET rows == balance[u][y]
        Of(i) == {w \in writes : w.user = u /\ w.row = i} IN
    IF y # year \/ \A w \in writes : w.user # u THEN rows
    ELSE IF Of(0) # {} THEN Append(rows, (CHOOSE w \in Of(0) : TRUE).total)
    ELSE [i \in DOMAIN rows |-> IF Of(i) # {} THEN (CHOOSE w \in Of(i) : TRUE).total
                                              ELSE rows[i]]

\* A row cannot be inserted without the id of the setting: the statement fails,
\* and PostgreSQL rolls the transaction back, whatever the job reports.
CommitAccrual(r) ==
    /\ run[r].step = "crediting" /\ run[r].todo = {}
    /\ balance' = IF run[r].known \/ \A w \in run[r].writes : w.row # 0
                    THEN [u \in Users |-> [y \in Years |->
                             Written(run[r].writes, u, y, run[r].year)]]
                    ELSE balance
    /\ Go(r, Idle)
    /\ UNCHANGED <<today, setting, staff, overlap, early, disturbed, faults>>

-----------------------------------------------------------------------------
(* Joining.                                                                *)

\* createEmployee, up to getLeaveCategoriesConfig for the year of joining:
\* without a setting the employee is not created.
ReadForJoin(r, u, y, share) ==
    /\ run[r] = Idle
    /\ u \notin staff
    /\ Active(y) # {}
    /\ Go(r, [step |-> "joining", user |-> u, year |-> y, share |-> share])
    /\ UNCHANGED <<today, setting, staff, balance, overlap, early, disturbed, faults>>

\* The id of the setting, then the employee and the balance together.  A share
\* of nothing has no row.
CommitJoin(r) ==
    /\ run[r].step = "joining"
    /\ LET u == run[r].user  y == run[r].year IN
       IF u \notin staff /\ Active(y) # {}
         THEN /\ staff' = staff \cup {u}
              /\ balance' = IF run[r].share = 0 THEN balance
                              ELSE [balance EXCEPT ![u][y] = Append(@, run[r].share)]
         ELSE UNCHANGED <<staff, balance>>
    /\ Go(r, Idle)
    /\ UNCHANGED <<today, setting, overlap, early, disturbed, faults>>

-----------------------------------------------------------------------------
(* Payroll.                                                                *)

\* creditHolidayWorkLeaves, for a month that has begun: without a balance there
\* is nothing to credit.  The balance is read outside the transaction.
ReadForPayroll(r, u, y, leaves) ==
    /\ run[r] = Idle
    /\ y <= YearOf(today)
    /\ balance[u][y] # <<>>
    /\ \E now \in Allocated(u, y) :
         LET total == now.total + Precision * leaves IN
         /\ total <= MaxTotal
         /\ Go(r, [step |-> "paying", user |-> u, year |-> y, row |-> now.row, total |-> total])
    /\ UNCHANGED <<today, setting, staff, balance, overlap, early, disturbed, faults>>

\* The sum is written by id, whatever the balance is by now.
CommitPayroll(r) ==
    /\ run[r].step = "paying"
    /\ balance' = [balance EXCEPT ![run[r].user][run[r].year][run[r].row] = run[r].total]
    /\ Go(r, Idle)
    /\ UNCHANGED <<today, setting, staff, overlap, early, disturbed, faults>>

-----------------------------------------------------------------------------
\* The server stops, or a statement of a transaction fails.
Stop(r) ==
    /\ run[r] # Idle
    /\ Go(r, Idle)
    /\ Failed
    /\ UNCHANGED <<today, setting, staff, balance, overlap, early>>

NextDay ==
    /\ today < LastDay
    /\ today' = today + 1
    /\ UNCHANGED <<setting, staff, balance, run, overlap, early, disturbed, faults>>

Activation(r) ==
    \/ \E date \in {today - 1, today} : StartActivation(r, date)
    \/ ReadExpired(r) \/ Deactivate(r) \/ ReadPending(r)
    \/ ReadCurrent(r) \/ Supersede(r) \/ Activate(r) \/ EndActivation(r)

Accrual(r) ==
    \/ Accrue(r) \/ ReadSettingId(r) \/ ListStaff(r) \/ CreditUser(r) \/ CommitAccrual(r)

Request(r) ==
    \/ \E y \in Years : ReadForCopy(r, y)
    \/ CommitCopy(r)
    \/ \E u \in Users, y \in Years, share \in 0..MaxShare : ReadForJoin(r, u, y, share)
    \/ CommitJoin(r)
    \/ \E u \in Users, y \in Years, leaves \in 1..MaxCredit : ReadForPayroll(r, u, y, leaves)
    \/ CommitPayroll(r)

Step ==
    \/ \E r \in Runs : Activation(r) \/ Accrual(r) \/ Request(r) \/ Stop(r)
    \/ \E y \in Years, from \in FormStarts, to \in FormEnds, active, isSystemOperation \in BOOLEAN :
         CreateSetting(y, from, to, active, isSystemOperation)
    \/ NextDay

\* A total of u that was computed from a balance that was read, and not written yet.
Held(u) ==
    \E r \in Runs :
        \/ run[r].step = "paying" /\ run[r].user = u
        \/ run[r].step = "crediting" /\ \E w \in run[r].writes : w.user = u

\* No step reads floor.
Next ==
    /\ Step
    /\ floor' = [u \in Users |-> IF Held(u)' THEN floor[u] ELSE balance'[u]]

Spec == Init /\ [][Next]_vars

-----------------------------------------------------------------------------
TypeOK ==
    /\ today \in Days
    /\ setting \in Seq(Setting)
    /\ Len(setting) <= MaxSettings
    /\ staff \subseteq Users
    /\ {balance, floor} \subseteq [Users -> [Years -> Seq(Totals)]]
    /\ run \in [Runs -> {Idle} \cup Listing \cup Switching \cup Copying \cup Joining
                          \cup Accruing \cup Crediting \cup Paying]
    /\ overlap \subseteq {"activation", "accrual"}
    /\ early \in BOOLEAN /\ disturbed \in BOOLEAN
    /\ faults \in 0..MaxFaults

\* "Only ONE active setting per configId + contextKey combination", at every
\* moment: unless two activations overlap or a form asks for an active one,
\* whatever copies, forms and failures leave behind.  And after an activation in
\* which nothing failed and nothing came between, every year that has a setting
\* that has begun has one.
YearsInForce ==
    "activation" \notin overlap =>
        /\ ~early => \A y \in Years : \A i, j \in Active(y) : i = j
        /\ \A r \in Runs : Over(r) /\ ~disturbed =>
             \A i \in Begun(run[r].date) : Active(setting[i].year) # {}

\* An employee has one balance per year and category: the accrual and the
\* credit on joining never both insert one, however they overlap, unless two
\* accruals do.
OneBalance ==
    "accrual" \notin overlap =>
        \A u \in Users, y \in Years : Len(balance[u][y]) <= 1

\* Accrual and payroll each write the total they computed from a balance they
\* read before, over whatever is there by then.  They lose no more than what was
\* credited since the last moment at which nobody had such a total in hand: what
\* an employee had been allocated by then is never taken away, however many of
\* them overlap.  So none that is alone lowers an allocation, not an accrual by
\* the schedule, which counts whole leaves, after one by hand, which does not,
\* nor one that is repeated for a month that is over.
NeverBelowFloor ==
    [][\A u \in Users, y \in Years : \A i \in DOMAIN floor[u][y] :
         balance'[u][y][i] >= floor[u][y][i]]_vars
=============================================================================
