----------------------------- MODULE PayrollRun -----------------------------
(***************************************************************************)
(* Monthly payroll: generation (by an administrator, in bulk, or by the    *)
(* nightly cron), the status life of a payroll row, the bonuses a payroll  *)
(* pays and the leave it credits for holidays worked.                      *)
(*                                                                         *)
(* Every handler of payroll.service.ts and bonus.service.ts reads rows,    *)
(* awaits, and later writes by primary key, so a handler is several steps  *)
(* here, and steps of different requests interleave.  The database is      *)
(* PostgreSQL at READ COMMITTED: a request sees committed rows only, its   *)
(* own transaction commits as one step, and a unique index makes a second  *)
(* insert of a key wait for the first one to commit or to roll back.       *)
(***************************************************************************)
EXTENDS Integers, FiniteSets

CONSTANTS
    Users,           \* employees
    Months,          \* (month, year) pairs, none of them in the future
    Bonuses,         \* primary keys of bonus rows
    PayrollIds,      \* primary keys of payroll rows
    Requests,        \* requests that can be in flight at the same time
    BalanceHolders,  \* users with a balance row for the holiday-work category
    ExitMonths,      \* bound: months FNF may announce as a last working month
    MaxCredit,       \* bound: leaves one payroll may credit for holidays worked
    NoId, NoMonth    \* "no payroll row yet" and "not exiting"

ASSUME PayrollAssumption ==
    /\ BalanceHolders \subseteq Users
    /\ ExitMonths \subseteq Months
    /\ MaxCredit \in Nat
    /\ NoId \notin PayrollIds
    /\ NoMonth \notin Months

VARIABLES
    payroll,    \* the payroll table; status "NONE" is a row not inserted yet
    bonus,      \* the bonuses table; status "NONE" is a row not created yet
    allocated,  \* leaves credited to each user by payrolls (totalAllocated)
    exitMonth,  \* month of users.lastWorkingDate, written by FNF
    req         \* what each request in flight has read so far

vars == <<payroll, bonus, allocated, exitMonth, req>>

PayrollStatus == {"DRAFT", "GENERATED", "APPROVED", "PAID", "CANCELLED"}
BonusStatus   == {"PENDING", "PAID", "CANCELLED"}

PayrollRow == [user : Users, month : Months, status : PayrollStatus,
               approvedAt : BOOLEAN, bonuses : SUBSET Bonuses,
               credit : 0..MaxCredit]
BonusRow   == [user : Users, month : Months, status : BonusStatus,
               isActive : BOOLEAN]
NoRow      == [status |-> "NONE"]
Idle       == [step |-> "idle"]

GenerateCall == [step : {"admitted", "notExiting", "noActive", "priced",
                         "inserted", "balanceRead", "duplicateKey"},
                 user : Users, month : Months, status : {"DRAFT", "GENERATED"},
                 bonuses : SUBSET Bonuses, credit : 0..MaxCredit,
                 balance : Nat, id : PayrollIds \cup {NoId}]
StatusCall   == [step : {"statusRead"}, id : PayrollIds, target : PayrollStatus]
BonusCall    == [step : {"bonusRead"}, bonus : Bonuses, status : BonusStatus,
                 month : Months, isActive : BOOLEAN]

-----------------------------------------------------------------------------
(* What a request can see, and what the database enforces.                 *)

Inserted == {i \in PayrollIds : payroll[i].status # "NONE"}
RowsOf(u, m) == {i \in Inserted : payroll[i].user = u /\ payroll[i].month = m}
LiveRowsOf(u, m) == {i \in RowsOf(u, m) : payroll[i].status # "CANCELLED"}

\* The request is inside the transaction of generatePayroll, after its insert.
InTx(r) == req[r].step \in {"inserted", "balanceRead"}

\* Mutant: a partial unique index, on rows that are not cancelled.
KeyTakenLive(u, m) == LiveRowsOf(u, m) # {}

\* The keys the unique index (userId, month, year) refuses a second time.
KeyTaken(u, m) == RowsOf(u, m) # {}

\* An insert of this key is under way in another transaction: wait for it.
KeyLocked(u, m, r) ==
    \E s \in Requests \ {r} : InTx(s) /\ req[s].user = u /\ req[s].month = m

FreeIds == {i \in PayrollIds \ Inserted :
              \A s \in Requests : InTx(s) => req[s].id # i}

\* bonus.service getPendingBonusesForPayroll
PendingBonuses(u, m) ==
    {b \in Bonuses : /\ bonus[b].status = "PENDING"
                     /\ bonus[b].user = u
                     /\ bonus[b].month = m
                     /\ bonus[b].isActive}

\* Mutant: a generated payroll can be paid directly.
ShortcutTransitions ==
    {<<"DRAFT", "GENERATED">>, <<"GENERATED", "APPROVED">>, <<"GENERATED", "PAID">>,
     <<"APPROVED", "PAID">>, <<"APPROVED", "CANCELLED">>}

\* payroll.service validateStatusTransition
ValidTransitions ==
    {<<"DRAFT", "GENERATED">>, <<"DRAFT", "CANCELLED">>,
     <<"GENERATED", "APPROVED">>, <<"GENERATED", "CANCELLED">>,
     <<"APPROVED", "PAID">>, <<"APPROVED", "CANCELLED">>}
CanTransition(from, to) == from = to \/ <<from, to>> \in ValidTransitions

Answer(r) == req' = [req EXCEPT ![r] = Idle]

-----------------------------------------------------------------------------
Init ==
    /\ payroll = [i \in PayrollIds |-> NoRow]
    /\ bonus = [b \in Bonuses |-> NoRow]
    /\ allocated = [u \in Users |-> 0]
    /\ exitMonth = [u \in Users |-> NoMonth]
    /\ req = [r \in Requests |-> Idle]

-----------------------------------------------------------------------------
(* generatePayroll: four reads outside the transaction, then the           *)
(* transaction itself.                                                     *)

Admit(r, u, m, initialStatus) ==
    /\ req' = [req EXCEPT ![r] =
                 [step |-> "admitted", user |-> u, month |-> m,
                  status |-> initialStatus, bonuses |-> {}, credit |-> 0,
                  balance |-> 0, id |-> NoId]]
    /\ UNCHANGED <<payroll, bonus, allocated, exitMonth>>

\* POST payroll/generate
StartGenerate(r, u, m) ==
    /\ req[r] = Idle
    /\ Admit(r, u, m, "GENERATED")

\* One item of generateBulkPayroll: an eligibility query comes first.
StartBulkItem(r, u, m) ==
    /\ req[r] = Idle
    /\ exitMonth[u] # m
    /\ Admit(r, u, m, "GENERATED")

\* processUserPayroll of the cron skips a user with any row, cancelled or not.
StartCronItem(r, u, m) ==
    /\ req[r] = Idle
    /\ \/ ~KeyTaken(u, m) /\ Admit(r, u, m, "DRAFT")
       \/ /\ KeyTaken(u, m)
          /\ Answer(r)
          /\ UNCHANGED <<payroll, bonus, allocated, exitMonth>>

\* validateUserNotExitingThisMonth
CheckExit(r) ==
    /\ req[r].step = "admitted"
    /\ \/ /\ exitMonth[req[r].user] = req[r].month
          /\ Answer(r)
       \/ /\ exitMonth[req[r].user] # req[r].month
          /\ req' = [req EXCEPT ![r].step = "notExiting"]
    /\ UNCHANGED <<payroll, bonus, allocated, exitMonth>>

\* getActivePayrollByUserAndMonth: only non-cancelled rows count.
CheckActive(r) ==
    /\ req[r].step = "notExiting"
    /\ \/ /\ LiveRowsOf(req[r].user, req[r].month) # {}
          /\ Answer(r)
       \/ /\ LiveRowsOf(req[r].user, req[r].month) = {}
          /\ req' = [req EXCEPT ![r].step = "noActive"]
    /\ UNCHANGED <<payroll, bonus, allocated, exitMonth>>

\* The pending bonuses and the attendance are read: the payroll is computed.
\* Without a salary structure the call ends here.
Price(r) ==
    /\ req[r].step = "noActive"
    /\ \/ \E credit \in 0..MaxCredit :
            /\ req' = [req EXCEPT
                 ![r].step = "priced",
                 ![r].bonuses = PendingBonuses(req[r].user, req[r].month),
                 ![r].credit = credit]
       \/ Answer(r)
    /\ UNCHANGED <<payroll, bonus, allocated, exitMonth>>

\* First statement of the transaction: the insert under the unique index.
Insert(r) ==
    /\ req[r].step = "priced"
    /\ ~KeyLocked(req[r].user, req[r].month, r)
    /\ \/ /\ KeyTaken(req[r].user, req[r].month)
          /\ req' = [req EXCEPT ![r].step = "duplicateKey"]
       \/ /\ ~KeyTaken(req[r].user, req[r].month)
          /\ \E i \in FreeIds :
               req' = [req EXCEPT ![r].step = "inserted", ![r].id = i]
    /\ UNCHANGED <<payroll, bonus, allocated, exitMonth>>

\* Mutant: a database error sends the call back to read again.
RetryDuplicate(r) ==
    /\ req[r].step = "duplicateKey"
    /\ req' = [req EXCEPT ![r].step = "noActive"]
    /\ UNCHANGED <<payroll, bonus, allocated, exitMonth>>

\* payroll.repository turns the database error into an internal server error.
AnswerDuplicate(r) ==
    /\ req[r].step = "duplicateKey"
    /\ Answer(r)
    /\ UNCHANGED <<payroll, bonus, allocated, exitMonth>>

\* creditHolidayWorkLeaves reads the balance, outside the transaction.
ReadBalance(r) ==
    /\ req[r].step = "inserted"
    /\ req[r].credit > 0
    /\ req' = [req EXCEPT ![r].step = "balanceRead",
                          ![r].balance = allocated[req[r].user]]
    /\ UNCHANGED <<payroll, bonus, allocated, exitMonth>>

\* creditHolidayWorkLeaves writes read + credit, as an absolute value.
CreditedBalance(r) ==
    IF req[r].credit > 0 /\ req[r].user \in BalanceHolders
    THEN [allocated EXCEPT ![req[r].user] = req[r].balance + req[r].credit]
    ELSE allocated

\* The bonuses read earlier become PAID, by id, whatever they are by now.
MarkPaid(bs) ==
    [b \in Bonuses |-> IF b \in bs THEN [bonus[b] EXCEPT !.status = "PAID"]
                                   ELSE bonus[b]]

Commit(r) ==
    /\ \/ req[r].step = "balanceRead"
       \/ req[r].step = "inserted" /\ req[r].credit = 0
    /\ payroll' = [payroll EXCEPT ![req[r].id] =
                     [user |-> req[r].user, month |-> req[r].month,
                      status |-> req[r].status, approvedAt |-> FALSE,
                      bonuses |-> req[r].bonuses, credit |-> req[r].credit]]
    /\ allocated' = CreditedBalance(r)
    /\ bonus' = MarkPaid(req[r].bonuses)
    /\ Answer(r)
    /\ UNCHANGED exitMonth

\* A statement of the transaction fails: everything in it is rolled back.
Rollback(r) ==
    /\ InTx(r)
    /\ Answer(r)
    /\ UNCHANGED <<payroll, bonus, allocated, exitMonth>>

-----------------------------------------------------------------------------
(* The status of a payroll row: PATCH :id, bulk-status-update, bulk-cancel. *)

StatusAllowed(handler, from, to) ==
    CASE handler = "update"           -> CanTransition(from, to)
      [] handler = "bulkUpdateStatus" -> to # "CANCELLED" /\ CanTransition(from, to)
      [] handler = "bulkCancel"       -> /\ to = "CANCELLED"
                                         /\ from \notin {"CANCELLED", "PAID"}

ReadForStatus(r, handler, i, target) ==
    /\ req[r] = Idle
    /\ i \in Inserted
    /\ StatusAllowed(handler, payroll[i].status, target)
    /\ req' = [req EXCEPT ![r] = [step |-> "statusRead", id |-> i,
                                  target |-> target]]
    /\ UNCHANGED <<payroll, bonus, allocated, exitMonth>>

\* The write names the row by id alone: the status it has by now is not looked at.
WriteStatus(r) ==
    /\ req[r].step = "statusRead"
    /\ payroll' = [payroll EXCEPT
                     ![req[r].id].status = req[r].target,
                     ![req[r].id].approvedAt = @ \/ req[r].target = "APPROVED"]
    /\ Answer(r)
    /\ UNCHANGED <<bonus, allocated, exitMonth>>

-----------------------------------------------------------------------------
(* Bonuses.                                                                *)

CreateBonus(b, u, m) ==
    /\ bonus[b] = NoRow
    /\ bonus' = [bonus EXCEPT ![b] = [user |-> u, month |-> m,
                                      status |-> "PENDING", isActive |-> TRUE]]
    /\ UNCHANGED <<payroll, allocated, exitMonth, req>>

\* update: a bonus that is not PENDING is refused; the DTO may carry a new
\* status, a new month, or both.
ReadBonusForUpdate(r, b, newStatus, newMonth) ==
    /\ req[r] = Idle
    /\ bonus[b] # NoRow
    /\ bonus[b].isActive
    /\ bonus[b].status = "PENDING"
    /\ req' = [req EXCEPT ![r] =
                 [step |-> "bonusRead", bonus |-> b, status |-> newStatus,
                  month |-> newMonth, isActive |-> TRUE]]
    /\ UNCHANGED <<payroll, bonus, allocated, exitMonth>>

\* update writes the fields of the DTO, by id.
WriteBonus(r) ==
    /\ req[r].step = "bonusRead"
    /\ req[r].isActive
    /\ \/ bonus' = [bonus EXCEPT ![req[r].bonus].status = req[r].status]
       \/ bonus' = [bonus EXCEPT ![req[r].bonus].month = req[r].month]
       \/ bonus' = [bonus EXCEPT ![req[r].bonus].status = req[r].status,
                                 ![req[r].bonus].month = req[r].month]
    /\ Answer(r)
    /\ UNCHANGED <<payroll, allocated, exitMonth>>

\* delete: soft, refused for a PAID bonus.
ReadBonusForDelete(r, b) ==
    /\ req[r] = Idle
    /\ bonus[b] # NoRow
    /\ bonus[b].isActive
    /\ bonus[b].status # "PAID"
    /\ req' = [req EXCEPT ![r] =
                 [step |-> "bonusRead", bonus |-> b, status |-> bonus[b].status,
                  month |-> bonus[b].month, isActive |-> FALSE]]
    /\ UNCHANGED <<payroll, bonus, allocated, exitMonth>>

DeleteBonus(r) ==
    /\ req[r].step = "bonusRead"
    /\ ~req[r].isActive
    /\ bonus' = [bonus EXCEPT ![req[r].bonus].isActive = FALSE]
    /\ Answer(r)
    /\ UNCHANGED <<payroll, allocated, exitMonth>>

-----------------------------------------------------------------------------
(* The rest of the system as payroll sees it.                              *)

\* FNF initiation and cancellation write users.lastWorkingDate.
SetExit(u, m) ==
    /\ exitMonth' = [exitMonth EXCEPT ![u] = m]
    /\ UNCHANGED <<payroll, bonus, allocated, req>>

\* The server process dies: open transactions roll back, calls are lost.
Crash ==
    /\ \E r \in Requests : req[r] # Idle
    /\ req' = [r \in Requests |-> Idle]
    /\ UNCHANGED <<payroll, bonus, allocated, exitMonth>>

-----------------------------------------------------------------------------
Advance(r) ==
    \/ CheckExit(r) \/ CheckActive(r) \/ Price(r) \/ Insert(r)
    \/ AnswerDuplicate(r) \/ ReadBalance(r) \/ Commit(r)
    \/ WriteStatus(r) \/ WriteBonus(r) \/ DeleteBonus(r)

Call(r) ==
    \/ \E u \in Users, m \in Months :
         StartGenerate(r, u, m) \/ StartBulkItem(r, u, m) \/ StartCronItem(r, u, m)
    \/ \E handler \in {"update", "bulkUpdateStatus", "bulkCancel"},
          i \in PayrollIds, target \in PayrollStatus :
            ReadForStatus(r, handler, i, target)
    \/ \E b \in Bonuses, newStatus \in BonusStatus, newMonth \in Months :
         ReadBonusForUpdate(r, b, newStatus, newMonth)
    \/ \E b \in Bonuses : ReadBonusForDelete(r, b)

Environment ==
    \/ \E b \in Bonuses, u \in Users, m \in Months : CreateBonus(b, u, m)
    \/ \E u \in Users, m \in ExitMonths \cup {NoMonth} : SetExit(u, m)

Next ==
    \/ \E r \in Requests : Call(r) \/ Advance(r) \/ Rollback(r)
    \/ Environment
    \/ Crash

\* The server goes on with every request it has taken: each await is answered.
\* The insert needs strong fairness: the database wakes the one that waits for
\* a key when the holder ends, even if newcomers keep taking the key.
Fairness == \A r \in Requests : WF_vars(Advance(r)) /\ SF_vars(Insert(r))

Spec == Init /\ [][Next]_vars
FairSpec == Spec /\ Fairness

-----------------------------------------------------------------------------
TypeOK ==
    /\ payroll \in [PayrollIds -> PayrollRow \cup {NoRow}]
    /\ bonus \in [Bonuses -> BonusRow \cup {NoRow}]
    /\ allocated \in [Users -> Nat]
    /\ exitMonth \in [Users -> Months \cup {NoMonth}]
    /\ req \in [Requests -> GenerateCall \cup StatusCall \cup BonusCall \cup {Idle}]

\* At most one payroll row exists for a user and month, whatever two
\* administrators, the bulk run and the cron do at the same time.
OnePayrollPerKey ==
    \A i, j \in Inserted :
        payroll[i].user = payroll[j].user /\ payroll[i].month = payroll[j].month
            => i = j

\* A row is PAID only if it has been approved: no interleaving of stale
\* status writes skips the approval.
PaidWasApproved ==
    \A i \in Inserted : payroll[i].status = "PAID" => payroll[i].approvedAt

\* No bonus is in two payrolls of the same month, although bonuses are read
\* outside the transaction that pays them.
BonusOncePerMonth ==
    \A i, j \in Inserted : \A b \in payroll[i].bonuses \cap payroll[j].bonuses :
        i # j => payroll[i].month # payroll[j].month

\* The leaves credited for holidays worked over all payrolls of a user, each
\* with a name of its own, so that counting them adds up the payrolls.
Credits(u) == UNION {{i} \X (1..payroll[i].credit) : i \in {j \in Inserted : payroll[j].user = u}}
CreditsOf(u) == Cardinality(Credits(u))

\* The balance a payroll reads before its write may be stale when payrolls of two
\* months overlap, but what it writes never credits more than the payrolls say
\* (proved in PayrollRun_proofs).
CreditNeverExceeds == \A u \in Users : allocated[u] <= CreditsOf(u)

\* Every call that was taken ends: nobody waits for ever on the unique index.
CallsEnd == \A r \in Requests : req[r] # Idle ~> req[r] = Idle

-----------------------------------------------------------------------------
(* What holds when requests do not overlap.                                *)

\* A bonus is paid by at most one payroll, whatever sequence of generations,
\* cancellations and edits of bonuses there is (proved in PayrollRun_proofs).
BonusInOnePayroll ==
    \A i, j \in Inserted : i # j => payroll[i].bonuses \cap payroll[j].bonuses = {}
=============================================================================
