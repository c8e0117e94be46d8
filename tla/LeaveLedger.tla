----------------------------- MODULE LeaveLedger -----------------------------
(***************************************************************************)
(* Leave applications of one employee in one financial year, the balance   *)
(* rows they debit and credit, and the days of the attendance sheet that   *)
(* say LEAVE because of them.                                              *)
(*                                                                         *)
(* Five writers share these tables: applyLeave and forceLeaveApplication,  *)
(* the approval of an application, the regularization of an attendance     *)
(* day, the monthly auto-approval and the daily attendance entry.  Each    *)
(* reads outside the transaction it later writes in, so each is a read     *)
(* step and a write step here.                                             *)
(*                                                                         *)
(* A day has one attendance status in this module; that overlapping        *)
(* regularizations can leave two active rows is left out.                  *)
(***************************************************************************)
EXTENDS Integers, Sequences, FiniteSets

CONSTANTS
    Categories,    \* leave categories
    LastDay,       \* the financial year is the days 1..LastDay
    MonthLength,   \* days of a month
    Holidays,      \* days of the holiday calendar
    Backward,      \* categories with allowBackwardApply
    NoticeDays,    \* applyBeforeDays of the categories, 0 for none
    MaxDays,       \* maxDays of the categories, 0 for no limit
    Requests,      \* requests and cron jobs that can be in flight together
    MaxApps,       \* bound: rows of leave_applications
    MaxAllocated   \* bound: days accrual allocates in a category

ASSUME LeaveAssumption ==
    /\ LastDay \in Nat \ {0}
    /\ MonthLength \in Nat \ {0}
    /\ Holidays \subseteq 1..LastDay
    /\ Backward \subseteq Categories
    /\ NoticeDays \in Nat
    /\ MaxDays \in Nat
    /\ MaxApps \in Nat
    /\ MaxAllocated \in Nat

VARIABLES
    today,       \* the current date
    app,         \* leave_applications: one row per day applied for
    consumed,    \* consumed column of the balance row of each category
    allocated,   \* totalAllocated of the same row
    attendance,  \* status of each day: "work" stands for every status but
                 \* leave and holiday, "none" for a day without a row
    req          \* what each request in flight has read so far

vars == <<today, app, consumed, allocated, attendance, req>>

Days      == 1..LastDay
Status    == {"pending", "approved", "rejected", "cancelled"}
Day       == {"none", "work", "leave", "holiday"}
Origin    == {"self", "forced", "regularized"}
Row       == [category : Categories, date : Days, status : Status, origin : Origin]
Idle      == [step |-> "idle"]
MonthOf(d) == (d - 1) \div MonthLength

ApplyCall   == [step : {"applying", "exhausted"}, origin : {"self", "forced"},
                category : Categories, from : Days, to : Days,
                next : 1..(LastDay + 1), consumed : Nat]
DecideCall  == [step : {"deciding"}, id : 1..MaxApps, target : Status,
                day : {"none", "work"}]
RevertCall  == [step : {"dayRead", "applicationFound"}, date : Days,
                target : {"work", "holiday"}, id : 0..MaxApps]
ForceCall   == [step : {"forcing", "balanceChecked"}, date : Days,
                category : Categories]
CronCall    == [step : {"autoApproving"}, ids : SUBSET (1..MaxApps)]
EntryCall   == [step : {"entering"}, date : Days, status : Day]

-----------------------------------------------------------------------------
Apps == DOMAIN app
Live(i) == app[i].status \in {"pending", "approved"}
LiveApps(c) == {i \in Apps : app[i].category = c /\ Live(i)}
LiveOn(c, d) == {i \in LiveApps(c) : app[i].date = d}
Available(c) == allocated[c] - consumed[c]
Answer(r) == req' = [req EXCEPT ![r] = Idle]

Init ==
    /\ today = 1
    /\ app = <<>>
    /\ consumed = [c \in Categories |-> 0]
    /\ allocated = [c \in Categories |-> 0]
    /\ attendance = [d \in Days |-> "none"]
    /\ req = [r \in Requests |-> Idle]

-----------------------------------------------------------------------------
(* applyLeave and forceLeaveApplication.                                   *)

\* validateHolidays and validateLeaveApplication
MayApply(c, from, to) ==
    /\ from <= to
    /\ from..to \cap Holidays = {}
    /\ from < today => c \in Backward
    /\ NoticeDays > 0 => from - today >= NoticeDays
    /\ MaxDays > 0 => to - from + 1 <= MaxDays

\* Mutant: the balance check is off by one.
EnoughOrOneShort(c, n) == Available(c) + 1 >= n

\* validateLeaveBalance
Enough(c, n) == Available(c) >= n

\* The balance is read, and checked, before the transaction.
ReadBalance(r, origin, c, from, to) ==
    /\ req[r] = Idle
    /\ MayApply(c, from, to)
    /\ req' = [req EXCEPT ![r] =
                 [step |-> IF Enough(c, to - from + 1) THEN "applying"
                                                       ELSE "exhausted",
                  origin |-> origin, category |-> c, from |-> from, to |-> to,
                  next |-> from, consumed |-> consumed[c]]]
    /\ UNCHANGED <<today, app, consumed, allocated, attendance>>

AnswerExhausted(r) ==
    /\ req[r].step = "exhausted"
    /\ Answer(r)
    /\ UNCHANGED <<today, app, consumed, allocated, attendance>>

\* Mutant: only approved applications stand in the way.
CheckNextApproved(r) ==
    /\ req[r].step = "applying"
    /\ req[r].next <= req[r].to
    /\ \/ /\ \E i \in LiveOn(req[r].category, req[r].next) : app[i].status = "approved"
          /\ Answer(r)
       \/ /\ \A i \in LiveOn(req[r].category, req[r].next) : app[i].status = "pending"
          /\ req' = [req EXCEPT ![r].next = @ + 1]
    /\ UNCHANGED <<today, app, consumed, allocated, attendance>>

\* One turn of the loop that looks for an application of the same category
\* and date, with a query of its own that takes no lock.
CheckNextDate(r) ==
    /\ req[r].step = "applying"
    /\ req[r].next <= req[r].to
    /\ \/ /\ LiveOn(req[r].category, req[r].next) # {}
          /\ Answer(r)
       \/ /\ LiveOn(req[r].category, req[r].next) = {}
          /\ req' = [req EXCEPT ![r].next = @ + 1]
    /\ UNCHANGED <<today, app, consumed, allocated, attendance>>

\* Mutant: a range of days is charged as one day.
DebitOneDay(r) == [consumed EXCEPT ![req[r].category] = req[r].consumed + 1]

\* The balance is written as an absolute value: what was read, plus the days.
DebitApplied(r) ==
    [consumed EXCEPT ![req[r].category] = req[r].consumed + req[r].to - req[r].from + 1]

\* The transaction: one row per day, and the balance.
CommitApply(r) ==
    /\ req[r].step = "applying"
    /\ req[r].next > req[r].to
    /\ Len(app) + req[r].to - req[r].from + 1 <= MaxApps
    /\ app' = app \o [k \in 1..(req[r].to - req[r].from + 1) |->
                        [category |-> req[r].category, date |-> req[r].from + k - 1,
                         status |-> IF req[r].origin = "self" THEN "pending"
                                                              ELSE "approved",
                         origin |-> req[r].origin]]
    /\ consumed' = DebitApplied(r)
    /\ Answer(r)
    /\ UNCHANGED <<today, allocated, attendance>>

-----------------------------------------------------------------------------
(* Approval: handleSingleLeaveApplicationApproval reads the row in one     *)
(* transaction and writes it, by id, in a second one.                      *)

\* Mutant: the switch falls through for a rejected application.
TransitionsFromRejected ==
    {<<"pending", "approved">>, <<"pending", "rejected">>, <<"pending", "cancelled">>,
     <<"approved", "rejected">>, <<"approved", "cancelled">>,
     <<"rejected", "approved">>}

\* The two levels of the switch in validateAndUpdateLeaveApplicationApproval.
Transitions ==
    {<<"pending", "approved">>, <<"pending", "rejected">>, <<"pending", "cancelled">>,
     <<"approved", "rejected">>, <<"approved", "cancelled">>}

\* An attendance status (present or absent, both "work") comes with the
\* decision exactly when the day is today or past.
ReadApplication(r, i, target) ==
    /\ req[r] = Idle
    /\ i \in Apps
    /\ <<app[i].status, target>> \in Transitions
    /\ target = "cancelled" => app[i].date > today
    /\ req' = [req EXCEPT ![r] =
                 [step |-> "deciding", id |-> i, target |-> target,
                  day |-> IF app[i].date <= today THEN "work" ELSE "none"]]
    /\ UNCHANGED <<today, app, consumed, allocated, attendance>>

\* A rejection or a cancellation adds one to consumed.
ChargeDecision(c, target) ==
    IF target \in {"rejected", "cancelled"}
    THEN [consumed EXCEPT ![c] = @ + 1] ELSE consumed

\* With an attendance status the active attendance row of the day is
\* replaced; without such a row the call fails.
WriteDecision(r) ==
    /\ req[r].step = "deciding"
    /\ LET a == app[req[r].id] IN
       \/ /\ req[r].day = "work"
          /\ attendance[a.date] = "none"
          /\ UNCHANGED <<app, consumed, attendance>>
       \/ /\ req[r].day = "work" => attendance[a.date] # "none"
          /\ app' = [app EXCEPT ![req[r].id].status = req[r].target]
          /\ consumed' = ChargeDecision(a.category, req[r].target)
          /\ attendance' = IF req[r].day = "work"
                           THEN [attendance EXCEPT ![a.date] = "work"]
                           ELSE attendance
    /\ Answer(r)
    /\ UNCHANGED <<today, allocated>>

-----------------------------------------------------------------------------
(* Regularization of an attendance day.                                    *)

\* regularizeAttendance reads the active row of a day that is not in the
\* future; from leave, the leave is reverted.
ReadLeaveDay(r, d, target) ==
    /\ req[r] = Idle
    /\ d <= today
    /\ attendance[d] = "leave"
    /\ req' = [req EXCEPT ![r] = [step |-> "dayRead", date |-> d,
                                  target |-> target, id |-> 0]]
    /\ UNCHANGED <<today, app, consumed, allocated, attendance>>

\* findLeaveApplicationForDate: an approved application of any category.
FindApplication(r) ==
    /\ req[r].step = "dayRead"
    /\ LET found == {i \in Apps : app[i].status = "approved" /\ app[i].date = req[r].date}
       IN \E i \in IF found = {} THEN {0} ELSE found :
            req' = [req EXCEPT ![r].step = "applicationFound", ![r].id = i]
    /\ UNCHANGED <<today, app, consumed, allocated, attendance>>

\* Mutant: the day is given back once per approved application of the year.
CreditAllApproved(c) ==
    [consumed EXCEPT ![c] =
        @ - Cardinality({i \in LiveApps(c) : app[i].status = "approved"})]

\* GREATEST(0, consumed - 1)
CreditOneDay(c) == [consumed EXCEPT ![c] = IF @ > 0 THEN @ - 1 ELSE 0]

\* revertLeaveAndMarkPresent / Absent / Holiday
CommitRevert(r) ==
    /\ req[r].step = "applicationFound"
    /\ \/ /\ req[r].id = 0
          /\ UNCHANGED <<app, consumed>>
       \/ /\ req[r].id # 0
          /\ consumed' = CreditOneDay(app[req[r].id].category)
          /\ app' = [app EXCEPT ![req[r].id].status = "cancelled"]
    /\ attendance' = [attendance EXCEPT ![req[r].date] = req[r].target]
    /\ Answer(r)
    /\ UNCHANGED <<today, allocated>>

\* To leave: refused for a holiday.
ReadWorkDay(r, d, c) ==
    /\ req[r] = Idle
    /\ d <= today
    /\ attendance[d] = "work"
    /\ req' = [req EXCEPT ![r] = [step |-> "forcing", date |-> d, category |-> c]]
    /\ UNCHANGED <<today, app, consumed, allocated, attendance>>

\* forceLeaveAndDebitBalance reads the balance row.
CheckBalance(r) ==
    /\ req[r].step = "forcing"
    /\ \/ Available(req[r].category) < 1 /\ Answer(r)
       \/ /\ Available(req[r].category) >= 1
          /\ req' = [req EXCEPT ![r].step = "balanceChecked"]
    /\ UNCHANGED <<today, app, consumed, allocated, attendance>>

\* It debits a day and inserts an approved application; an application of
\* that day that exists already is not looked for.
CommitForce(r) ==
    /\ req[r].step = "balanceChecked"
    /\ Len(app) < MaxApps
    /\ consumed' = [consumed EXCEPT ![req[r].category] = @ + 1]
    /\ app' = Append(app, [category |-> req[r].category, date |-> req[r].date,
                           status |-> "approved", origin |-> "regularized"])
    /\ attendance' = [attendance EXCEPT ![req[r].date] = "leave"]
    /\ Answer(r)
    /\ UNCHANGED <<today, allocated>>

\* Every other regularization, from work to holiday or from holiday to work.
RegularizeOther(d) ==
    /\ d <= today
    /\ \/ attendance[d] = "work" /\ attendance' = [attendance EXCEPT ![d] = "holiday"]
       \/ attendance[d] = "holiday" /\ attendance' = [attendance EXCEPT ![d] = "work"]
    /\ UNCHANGED <<today, app, consumed, allocated, req>>

-----------------------------------------------------------------------------
(* Crons.                                                                  *)

\* Auto-approval reads the pending applications of the previous month.
ReadPending(r) ==
    /\ req[r] = Idle
    /\ LET ids == {i \in Apps : /\ app[i].status = "pending"
                                /\ MonthOf(app[i].date) = MonthOf(today) - 1}
       IN /\ ids # {}
          /\ req' = [req EXCEPT ![r] = [step |-> "autoApproving", ids |-> ids]]
    /\ UNCHANGED <<today, app, consumed, allocated, attendance>>

\* autoApproveLeaveQuery names each row by id alone.
CommitAutoApprove(r) ==
    /\ req[r].step = "autoApproving"
    /\ app' = [i \in Apps |-> IF i \in req[r].ids
                              THEN [app[i] EXCEPT !.status = "approved"] ELSE app[i]]
    /\ Answer(r)
    /\ UNCHANGED <<today, consumed, allocated, attendance>>

\* buildAttendanceRecord, for a user without a row on this day: the holiday
\* first, then an application that is approved or pending.
ReadForEntry(r) ==
    /\ req[r] = Idle
    /\ attendance[today] = "none"
    /\ req' = [req EXCEPT ![r] =
         [step |-> "entering", date |-> today,
          status |-> IF today \in Holidays THEN "holiday"
                     ELSE IF \E c \in Categories : LiveOn(c, today) # {} THEN "leave"
                     ELSE "work"]]
    /\ UNCHANGED <<today, app, consumed, allocated, attendance>>

CommitEntry(r) ==
    /\ req[r].step = "entering"
    /\ attendance' = [attendance EXCEPT ![req[r].date] = req[r].status]
    /\ Answer(r)
    /\ UNCHANGED <<today, app, consumed, allocated>>

\* Monthly accrual raises the allocation to what is due by now.
Accrue(c) ==
    /\ allocated[c] < MaxAllocated
    /\ \E n \in (allocated[c] + 1)..MaxAllocated : allocated' = [allocated EXCEPT ![c] = n]
    /\ UNCHANGED <<today, app, consumed, attendance, req>>

NextDay ==
    /\ today < LastDay
    /\ today' = today + 1
    /\ UNCHANGED <<app, consumed, allocated, attendance, req>>

-----------------------------------------------------------------------------
Call(r) ==
    \/ \E origin \in {"self", "forced"}, c \in Categories, from, to \in Days :
         ReadBalance(r, origin, c, from, to)
    \/ \E i \in Apps, target \in Status : ReadApplication(r, i, target)
    \/ \E d \in Days, target \in {"work", "holiday"} : ReadLeaveDay(r, d, target)
    \/ \E d \in Days, c \in Categories : ReadWorkDay(r, d, c)
    \/ ReadPending(r)
    \/ ReadForEntry(r)

Advance(r) ==
    \/ AnswerExhausted(r) \/ CheckNextDate(r) \/ CommitApply(r)
    \/ WriteDecision(r)
    \/ FindApplication(r) \/ CommitRevert(r) \/ CheckBalance(r) \/ CommitForce(r)
    \/ CommitAutoApprove(r) \/ CommitEntry(r)

Next ==
    \/ \E r \in Requests : Call(r) \/ Advance(r)
    \/ \E c \in Categories : Accrue(c)
    \/ \E d \in Days : RegularizeOther(d)
    \/ NextDay

Spec == Init /\ [][Next]_vars

-----------------------------------------------------------------------------
TypeOK ==
    /\ today \in Days
    /\ app \in Seq(Row) /\ Len(app) <= MaxApps
    /\ consumed \in [Categories -> Nat]
    /\ allocated \in [Categories -> 0..MaxAllocated]
    /\ attendance \in [Days -> Day]
    /\ req \in [Requests -> ApplyCall \cup DecideCall \cup RevertCall \cup ForceCall
                              \cup CronCall \cup EntryCall \cup {Idle}]

(* What holds when requests do not overlap (one request slot).             *)

\* Every live application is paid for: the consumed days of a category are
\* at least its pending and approved applications.
ConsumedCoversLive == \A c \in Categories : consumed[c] >= Cardinality(LiveApps(c))

\* Nobody holds more leave than was allocated, whichever of the three ways
\* of creating an application was used.
LiveWithinAllocated ==
    \A c \in Categories : Cardinality(LiveApps(c)) <= allocated[c]

\* A day has at most one live application per category, among those that
\* were applied for.
AppliedOncePerDay ==
    \A c \in Categories, d \in Days :
        Cardinality({i \in LiveOn(c, d) : app[i].origin # "regularized"}) <= 1

\* A rejected or cancelled application never comes back, neither through the
\* approval handler nor through the auto-approval.
DecidedIsFinal ==
    [][\A i \in Apps : ~Live(i) => app'[i].status = app[i].status]_vars
=============================================================================
