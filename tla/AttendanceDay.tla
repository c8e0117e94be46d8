----------------------------- MODULE AttendanceDay -----------------------------
(***************************************************************************)
(* The attendance rows of one employee on one day, and the food allowance  *)
(* credited for it, from the entry at night to the approval at the end of  *)
(* the month.                                                              *)
(*                                                                         *)
(* A handler reads the active row, and then does what is left in its       *)
(* `todo', one commit after the other: a regularization commits the old    *)
(* row, the new row and the food expense separately or together, depending *)
(* on the branch it takes.  Food expenses always have a commit of their    *)
(* own, before that of the transaction around them.                        *)
(*                                                                         *)
(* Nothing ever reads what an inactive row says, so it says nothing here.  *)
(* The balance and the applications of leaves are in LeaveLedger.          *)
(***************************************************************************)
EXTENDS Integers, Sequences, FiniteSets

CONSTANTS
    Callers,   \* they have a request in flight each, at most
    Multiple,   \* multiplePunchesInOneDay
    Manual,     \* manualCheckOut
    NotNull,    \* may attendances.approvalStatus be NOT NULL, may it not
    Forced,     \* statuses entered by force
    MaxRows,    \* bound: rows of the day
    MaxRaced,   \* bound: overlaps begin on fewer rows
    MaxFood,    \* bound: credits beyond reversals, and one less the other way
    MaxFaults   \* bound: requests and jobs that stop in the middle

DayStatus == {"PRESENT", "ABSENT", "HALF_DAY", "LEAVE", "LEAVE_WITHOUT_PAY", "CHECKED_IN",
           "CHECKED_OUT", "NOT_CHECKED_IN_YET", "APPROVAL_PENDING", "HOLIDAY"}
Approval == {"NONE", "PENDING", "APPROVED", "REJECTED"}

ASSUME AttendanceAssumption ==
    /\ Multiple \in BOOLEAN /\ Manual \in BOOLEAN
    /\ NotNull \subseteq BOOLEAN /\ Forced \subseteq DayStatus
    /\ MaxRows \in Nat /\ MaxRaced \in Nat /\ MaxFood \in Nat \ {0} /\ MaxFaults \in Nat

VARIABLES
    rows,       \* attendances of the day, in the order they were inserted
    food,       \* food expenses credited minus reversed
    clock,      \* how far the day is
    job,        \* the scheduled job of this hour
    todo,        \* what each request in flight has still to do
    notNull,    \* the column refuses null
    raced,      \* requests or jobs were in flight at the same time
    unmatched,  \* something was done whose food expense the code gets wrong
    faults

dayVars == <<rows, food, clock, job, todo, notNull, raced, unmatched, faults>>

DayRow(status, approval) == [active |-> TRUE, status |-> status, approval |-> approval]
Inactive == [active |-> FALSE, status |-> "ABSENT", approval |-> "NONE"]
Rows == [active : {TRUE}, status : DayStatus, approval : Approval]

Hours == <<"night", "shift", "evening", "midnight", "month">>
JobHours == {"night", "evening", "midnight", "month"}

Ids == DOMAIN rows
Active == {i \in Ids : rows[i].active}

\* One commit of a request: a food expense, the switching off of a row, a new
\* row, an update of a row ("KEEP" leaves a column alone) or several together.
Food(amount) == [do |-> "food", amount |-> amount]
Off(i) == [do |-> "off", id |-> i]
Add(row) == [do |-> "add", row |-> row]
Set(i, status, approval) == [do |-> "set", id |-> i, status |-> status, approval |-> approval]
Swap(i, row) == [do |-> "swap", id |-> i, row |-> row]
Renew(row) == [do |-> "renew", row |-> row]
Revive(i, row) == [do |-> "revive", id |-> i, row |-> row]

Nothing == <<>>
NoWrites == [step |-> "due", writes |-> {}, add |-> {}]

DayInit ==
    /\ rows = <<>>
    /\ food = 0
    /\ clock = 1
    /\ job = NoWrites
    /\ todo = [r \in Callers |-> Nothing]
    /\ notNull \in NotNull
    /\ raced = FALSE /\ unmatched = FALSE
    /\ faults = 0

Hour == Hours[clock]
Foods == (1 - MaxFood)..MaxFood
JobRuns == job.step \notin {"due", "done"}
Room == Len(rows) < MaxRows

-----------------------------------------------------------------------------
\* Bound: overlaps are explored on few rows and apart from interruptions.
Overlap(now) ==
    /\ raced' = (raced \/ now)
    /\ raced' => Len(rows) < MaxRaced /\ faults = 0

\* A request that was not refused begins its commits.
Take(r, commits, wrong) ==
    /\ todo[r] = Nothing
    /\ todo' = [todo EXCEPT ![r] = commits]
    /\ Overlap(JobRuns \/ \E s \in Callers : todo[s] # Nothing)
    /\ unmatched' = (unmatched \/ wrong)
    /\ UNCHANGED <<rows, food, clock, job, notNull, faults>>

Updated(row, status, approval) ==
    IF row.active THEN DayRow(IF status = "KEEP" THEN row.status ELSE status,
                           IF approval = "KEEP" THEN row.approval ELSE approval)
                  ELSE row

Do(r, do) ==
    /\ todo[r] # Nothing
    /\ Head(todo[r]).do = do
    /\ todo' = [todo EXCEPT ![r] = Tail(@)]
    /\ UNCHANGED <<clock, job, notNull, raced, unmatched, faults>>

CreditFood(r) ==
    /\ Do(r, "food")
    /\ food' = food + Head(todo[r]).amount
    /\ food' \in Foods
    /\ UNCHANGED rows

SwitchOff(r) ==
    /\ Do(r, "off")
    /\ rows' = [rows EXCEPT ![Head(todo[r]).id] = Inactive]
    /\ UNCHANGED food

AddRow(r) ==
    /\ Do(r, "add")
    /\ Room
    /\ rows' = Append(rows, Head(todo[r]).row)
    /\ UNCHANGED food

SetRow(r) ==
    /\ Do(r, "set")
    /\ LET w == Head(todo[r]) IN
         rows' = [rows EXCEPT ![w.id] = Updated(@, w.status, w.approval)]
    /\ UNCHANGED food

SwapRow(r) ==
    /\ Do(r, "swap")
    /\ Room
    /\ rows' = Append([rows EXCEPT ![Head(todo[r]).id] = Inactive], Head(todo[r]).row)
    /\ UNCHANGED food

\* The update of handleCheckIn names the day, not a row.
RenewRows(r) ==
    /\ Do(r, "renew")
    /\ Room
    /\ rows' = Append([i \in Ids |-> Inactive], Head(todo[r]).row)
    /\ UNCHANGED food

\* The row saved is the one that was read, isActive included.
ReviveRow(r) ==
    /\ Do(r, "revive")
    /\ rows' = [rows EXCEPT ![Head(todo[r]).id] = Head(todo[r]).row]
    /\ UNCHANGED food

-----------------------------------------------------------------------------
(* handleCheckIn, handleCheckOut                                           *)

\* Mutant: the rows of the day are switched off before the update by id.
SwitchOffFirst(i) == <<Off(i), Set(i, "CHECKED_IN", "PENDING")>>

Punch(i) ==
    IF rows[i].status \in {"NOT_CHECKED_IN_YET", "HOLIDAY"}
    THEN <<Set(i, "CHECKED_IN", "PENDING")>>
    ELSE IF Multiple THEN <<Renew(DayRow("CHECKED_IN", "PENDING"))>>
                     ELSE <<Add(DayRow("CHECKED_IN", "PENDING"))>>

Worked(row) == row.status = "PRESENT" /\ row.approval = "APPROVED"

\* A day that was approved already is punched again, and credited again when
\* it is approved again.
CheckIn(r, i) ==
    /\ Hour = "shift"
    /\ rows[i].status \notin {"LEAVE", "LEAVE_WITHOUT_PAY", "CHECKED_IN"}
    /\ rows[i].approval # "REJECTED"
    /\ Take(r, Punch(i), \E j \in Active : Worked(rows[j]))

CheckInUnentered(r) ==
    /\ Hour = "shift"
    /\ Active = {}
    /\ Take(r, <<Add(DayRow("CHECKED_IN", "PENDING"))>>, FALSE)

CheckOut(r, i) ==
    /\ Hour = "shift" /\ Manual
    /\ rows[i].status = "CHECKED_IN" /\ rows[i].approval # "REJECTED"
    /\ Take(r, <<Set(i, IF rows[i].approval = "PENDING" THEN "APPROVAL_PENDING" ELSE "CHECKED_IN",
                     "KEEP")>>, FALSE)

-----------------------------------------------------------------------------
(* regularizeAttendance                                                    *)

\* The branches there are; every other change of status answers success.
Branches ==
    [PRESENT |-> {"ABSENT", "APPROVAL_PENDING", "LEAVE", "HOLIDAY", "CHECKED_IN"},
     ABSENT |-> {"PRESENT", "APPROVAL_PENDING", "LEAVE", "CHECKED_IN"},
     LEAVE |-> {"PRESENT", "ABSENT", "APPROVAL_PENDING", "CHECKED_IN"},
     HOLIDAY |-> {"PRESENT", "ABSENT", "LEAVE", "APPROVAL_PENDING", "CHECKED_IN"}]

Refused(from, to) == from = "HOLIDAY" /\ to \in {"ABSENT", "LEAVE"}

\* handleFoodExpenseForStatusChange
FoodFor(from, to) ==
    IF (from = "PRESENT") = (to = "PRESENT") THEN <<>>
    ELSE <<Food(IF to = "PRESENT" THEN 1 ELSE -1)>>

\* Mutant: the old row stays.
KeepOldRow(i, to) == <<Add(DayRow(to, "APPROVED"))>> \o FoodFor(rows[i].status, to)

\* Only an absent or a pending day made present is switched off in the
\* transaction, and only a leave is switched off and inserted in it.
Regularization(i, to) ==
    LET from == rows[i].status
        new == DayRow(to, "APPROVED")
    IN IF from \notin Branches[to] THEN FoodFor(from, to)
       ELSE IF to = "LEAVE" THEN FoodFor(from, to) \o FoodFor(from, to) \o <<Swap(i, new)>>
       ELSE IF from = "LEAVE" THEN FoodFor(from, to) \o <<Swap(i, new)>>
       ELSE IF to = "PRESENT" /\ from \in {"ABSENT", "APPROVAL_PENDING"}
            THEN <<Add(new)>> \o FoodFor(from, to) \o <<Off(i)>>
       ELSE <<Off(i), Add(new)>> \o FoodFor(from, to)

Regularize(r, i, to) ==
    LET from == rows[i].status IN
    /\ from # to /\ ~Refused(from, to)
    /\ Take(r, Regularization(i, to),
            \/ from \notin Branches[to]
            \/ from = "PRESENT" /\ (to = "LEAVE" \/ rows[i].approval # "APPROVED"))

-----------------------------------------------------------------------------
(* handleSingleForceAttendance                                             *)

ForceEntry(status) ==
    IF Hour = "shift" THEN <<Add(DayRow(status, "PENDING"))>>
    ELSE FoodFor("NOT_CHECKED_IN_YET", status) \o <<Add(DayRow(status, "APPROVED"))>>

EnterByForce(r, status) ==
    /\ Hour # "night"
    /\ Active = {}
    /\ Take(r, ForceEntry(status), FALSE)

-----------------------------------------------------------------------------
(* handleSingleAttendanceApproval, and the approval of a leave             *)

\* Mutant: a rejection reverses the food expense of a day never approved.
ReversedOnRejection(row, approval) ==
    IF approval = "APPROVED" THEN <<Food(1)>> ELSE <<Food(-1)>>

\* handleFoodExpenseForApproval
FoodForApproval(row, approval) ==
    IF approval = "APPROVED" THEN <<Food(1)>>
    ELSE IF row.approval = "APPROVED" THEN <<Food(-1)>> ELSE <<>>

Approve(r, i, approval) ==
    /\ rows[i].approval # approval
    /\ Take(r, Append(FoodForApproval(rows[i], approval),
                      Set(i, IF approval = "APPROVED" THEN "PRESENT" ELSE "ABSENT", approval)),
            approval = "REJECTED" /\ rows[i].approval = "APPROVED" /\ rows[i].status # "PRESENT")

\* The decision on a leave that begins today or earlier brings a status of
\* its own, and no food expense.
DecideLeave(r, i, status) ==
    Take(r, <<Revive(i, DayRow(status, "APPROVED"))>>,
         Worked(rows[i]) # (status = "PRESENT"))

-----------------------------------------------------------------------------
(* The jobs                                                                *)

JobStep(step, writes, add) ==
    /\ job' = [step |-> step, writes |-> writes, add |-> add]
    /\ Overlap(\E r \in Callers : todo[r] # Nothing)
    /\ UNCHANGED <<rows, food, clock, todo, notNull, faults>>

Write(i, status, approval) == [id |-> i, status |-> status, approval |-> approval]

\* buildAttendanceRecord
Entries == {DayRow("HOLIDAY", "NONE"), DayRow("NOT_CHECKED_IN_YET", "NONE")} \cup
           {DayRow(s, a) : s \in {"LEAVE", "LEAVE_WITHOUT_PAY"}, a \in {"PENDING", "APPROVED"}}

ReadToEnter(entry) ==
    /\ Hour = "night" /\ job.step = "due"
    /\ JobStep("commit", {}, IF rows = <<>> THEN {entry} ELSE {})
    /\ UNCHANGED unmatched

ReadCheckedIn ==
    /\ Hour = "evening" /\ job.step = "due"
    /\ JobStep("notCheckedIn",
               {Write(i, "CHECKED_OUT", IF rows[i].approval = "APPROVED" THEN "KEEP" ELSE "PENDING") :
                  i \in {j \in Active : rows[j].status = "CHECKED_IN"
                                        /\ rows[j].approval # "REJECTED"}},
               {})
    /\ UNCHANGED unmatched

\* Mutant: who was absent is not put up for approval.
MarkedAbsentOnly(i) == Write(i, "ABSENT", "KEEP")

MarkedAbsent(i) == Write(i, "ABSENT", "PENDING")

ReadNotCheckedIn ==
    /\ job.step = "notCheckedIn"
    /\ JobStep("missing",
               job.writes \cup {MarkedAbsent(i) :
                  i \in {j \in Active : rows[j].status = "NOT_CHECKED_IN_YET"}},
               {})
    /\ UNCHANGED unmatched

ReadMissing ==
    /\ job.step = "missing"
    /\ JobStep("commit", job.writes, IF rows = <<>> THEN {DayRow("ABSENT", "PENDING")} ELSE {})
    /\ UNCHANGED unmatched

ReadCheckedOut ==
    /\ Hour = "midnight" /\ job.step = "due"
    /\ JobStep("commit",
               {Write(i, "APPROVAL_PENDING", "KEEP") :
                  i \in {j \in Active : rows[j].status = "CHECKED_OUT"
                                        /\ rows[j].approval = "PENDING"}},
               {})
    /\ UNCHANGED unmatched

\* Mutant: the status becomes that of the approval.
ApprovedAsStatus(i) == Write(i, "APPROVED", "APPROVED")

AutoApproved(i) ==
    Write(i, IF rows[i].status \in {"CHECKED_OUT", "HALF_DAY", "APPROVAL_PENDING"}
             THEN "PRESENT" ELSE "KEEP", "APPROVED")

\* The food expense of a day approved by the system is never credited: it is
\* created by 'SYSTEM', which is no uuid, and that of a day already PRESENT is
\* not asked for.
ReadUndecided ==
    /\ Hour = "month" /\ job.step = "due"
    /\ LET pending == {i \in Active : rows[i].approval = "PENDING"} IN
         /\ JobStep("commit", {AutoApproved(i) : i \in pending}, {})
         /\ unmatched' = (unmatched \/ \E i \in pending :
              rows[i].status \in {"PRESENT", "CHECKED_OUT", "HALF_DAY", "APPROVAL_PENDING"})

Written(i) ==
    LET ws == {w \in job.writes : w.id = i} IN
    IF ws = {} THEN rows[i] ELSE LET w == CHOOSE w \in ws : TRUE IN Updated(rows[i], w.status, w.approval)

CommitJob ==
    /\ job.step = "commit"
    /\ notNull => \A row \in job.add : row.approval # "NONE"
    /\ job.add # {} => Room
    /\ LET updated == [i \in Ids |-> Written(i)] IN
         rows' = IF job.add = {} THEN updated
                 ELSE Append(updated, CHOOSE row \in job.add : TRUE)
    /\ job' = [NoWrites EXCEPT !.step = "done"]
    /\ UNCHANGED <<food, clock, todo, notNull, raced, unmatched, faults>>

\* The entry of somebody, this employee or another one of the same job, has no
\* approval and the column refuses it: the transaction of all is aborted.  The
\* job catches that and reports success.
AbortEntry ==
    /\ Hour = "night" /\ job.step = "commit" /\ notNull
    /\ job' = [NoWrites EXCEPT !.step = "done"]
    /\ UNCHANGED <<rows, food, clock, todo, notNull, raced, unmatched, faults>>

\* An hour passes.  The approval at the end of the month comes when somebody
\* starts it: its scheduled run is stopped by the date check in front of it.
Tick ==
    /\ clock < Len(Hours)
    /\ Hour \in JobHours => job.step = "done"
    /\ clock' = clock + 1
    /\ job' = NoWrites
    /\ UNCHANGED <<rows, food, todo, notNull, raced, unmatched, faults>>

\* A commit fails or the server dies: the request or the job does no more.
Stop(r) ==
    /\ todo[r] # Nothing
    /\ faults < MaxFaults /\ ~raced
    /\ faults' = faults + 1
    /\ todo' = [todo EXCEPT ![r] = Nothing]
    /\ UNCHANGED <<rows, food, clock, job, notNull, raced, unmatched>>

StopJob ==
    /\ JobRuns
    /\ faults < MaxFaults /\ ~raced
    /\ faults' = faults + 1
    /\ job' = [NoWrites EXCEPT !.step = "done"]
    /\ UNCHANGED <<rows, food, clock, todo, notNull, raced, unmatched>>

-----------------------------------------------------------------------------
Begin(r) ==
    \/ CheckInUnentered(r)
    \/ \E status \in Forced : EnterByForce(r, status)
    \/ \E i \in Active :
         \/ CheckIn(r, i) \/ CheckOut(r, i)
         \/ \E to \in DOMAIN Branches : Regularize(r, i, to)
         \/ \E approval \in {"APPROVED", "REJECTED"} : Approve(r, i, approval)
         \/ \E status \in {"PRESENT", "ABSENT"} : DecideLeave(r, i, status)

Continue(r) ==
    \/ CreditFood(r) \/ SwitchOff(r) \/ AddRow(r) \/ SetRow(r) \/ SwapRow(r)
    \/ RenewRows(r) \/ ReviveRow(r)

Job ==
    \/ \E entry \in Entries : ReadToEnter(entry)
    \/ ReadCheckedIn \/ ReadNotCheckedIn \/ ReadMissing \/ ReadCheckedOut \/ ReadUndecided
    \/ CommitJob \/ AbortEntry \/ StopJob

DayNext == (\E r \in Callers : Begin(r) \/ Continue(r) \/ Stop(r)) \/ Job \/ Tick

DaySpec == DayInit /\ [][DayNext]_dayVars

-----------------------------------------------------------------------------
Todo ==
    {Food(a) : a \in {-1, 1}} \cup {Off(i) : i \in 1..MaxRows} \cup
    {Set(i, s, a) : i \in 1..MaxRows, s \in DayStatus, a \in Approval \cup {"KEEP"}} \cup
    {Swap(i, row) : i \in 1..MaxRows, row \in Rows} \cup
    {Revive(i, row) : i \in 1..MaxRows, row \in Rows} \cup
    {Add(row) : row \in Rows} \cup {Renew(row) : row \in Rows}

DayTypeOK ==
    /\ rows \in Seq(Rows \cup {Inactive}) /\ Len(rows) <= MaxRows
    /\ food \in Foods
    /\ clock \in DOMAIN Hours
    /\ job.writes \subseteq [id : 1..MaxRows, status : DayStatus \cup {"KEEP"},
                             approval : Approval \cup {"KEEP"}]
    /\ job.add \subseteq Rows
    /\ job.step \in {"due", "notCheckedIn", "missing", "commit", "done"}
    /\ \A r \in Callers : \A k \in DOMAIN todo[r] : todo[r][k] \in Todo
    /\ notNull \in BOOLEAN /\ raced \in BOOLEAN /\ unmatched \in BOOLEAN
    /\ faults \in 0..MaxFaults

Quiet == ~JobRuns /\ \A r \in Callers : todo[r] = Nothing
Orderly == Quiet /\ ~raced

\* A day that has been entered does not get lost: when nothing is under way it
\* has an active row, also after handlers overlapped that each switch a row off
\* in one commit and insert its successor in another.
SomethingActive ==
    Quiet /\ faults = 0 /\ rows # <<>> => Active # {}

\* Of the rows a day collects one is active, if requests do not overlap and an
\* employee may punch more than once, and no interruption of a request, between
\* whichever two commits, adds more than one to them.
OneActiveRow ==
    Orderly /\ Multiple => Cardinality(Active) <= 1 + faults

\* The three jobs, each of which only takes up what an earlier one or a person
\* left in a certain status, leave no day of the month undecided.
DayIsSettled ==
    Orderly /\ faults = 0 /\ Hour = "month" /\ job.step = "done" =>
        /\ Active # {}
        /\ \A i \in Active : rows[i].approval \in {"APPROVED", "REJECTED"}
                             \/ rows[i] = DayRow("HOLIDAY", "NONE")

\* Over any sequence of approvals, rejections, regularizations and entries by
\* force the food expense of a day is credited once if the day was worked and
\* approved, and not otherwise, unless one of the things was done for which the
\* code credits or reverses the wrong amount.  An interruption costs one.
FoodMatchesDay ==
    Orderly /\ ~unmatched =>
        food - Cardinality({i \in Active : Worked(rows[i])}) \in (-faults)..faults

\* "Creates attendance records for all active employees": once the job has run
\* the day has a row.
EveryDayIsEntered ==
    Hour = "night" /\ job.step = "done" /\ faults = 0 => rows # <<>>
=============================================================================
