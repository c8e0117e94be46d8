-------------------------- MODULE PayrollRun_proofs --------------------------
(***************************************************************************)
(* Safety of PayrollRun for every number of users, months, bonuses, rows   *)
(* and overlapping requests.                                               *)
(***************************************************************************)
EXTENDS PayrollRun, FiniteSetTheorems, TLAPS

GenerateSteps == {"admitted", "notExiting", "noActive", "priced", "inserted",
                  "balanceRead", "duplicateKey"}

\* What an open transaction holds: a row id and a key nobody else has.
TxInv ==
    \A r \in Requests : InTx(r) =>
        /\ req[r].id \in PayrollIds
        /\ req[r].id \notin Inserted
        /\ \A i \in Inserted : ~ (payroll[i].user = req[r].user
                                   /\ payroll[i].month = req[r].month)
        /\ \A s \in Requests : InTx(s) /\ s # r =>
              /\ req[s].id # req[r].id
              /\ ~ (req[s].user = req[r].user /\ req[s].month = req[r].month)

\* Approval is never forgotten, and a request about to write PAID has seen it.
ApprovalInv ==
    /\ \A i \in Inserted :
         payroll[i].status \in {"APPROVED", "PAID"} => payroll[i].approvedAt
    /\ \A r \in Requests : req[r].step = "statusRead" =>
         /\ req[r].id \in Inserted
         /\ req[r].target = "PAID" => payroll[req[r].id].approvedAt

\* A payroll, made or in the making, lists bonuses of its own user only.
OwnerInv ==
    /\ \A i \in Inserted : \A b \in payroll[i].bonuses :
         bonus[b] # NoRow /\ bonus[b].user = payroll[i].user
    /\ \A r \in Requests : req[r].step \in GenerateSteps =>
         \A b \in req[r].bonuses : bonus[b] # NoRow /\ bonus[b].user = req[r].user
    /\ \A r \in Requests : req[r].step = "bonusRead" => bonus[req[r].bonus] # NoRow

IInv == TypeOK /\ OnePayrollPerKey /\ TxInv /\ ApprovalInv /\ OwnerInv

-----------------------------------------------------------------------------
\* The step of a request tells which record it is.
LEMMA CallOfStep ==
    ASSUME TypeOK, NEW r \in Requests
    PROVE  /\ req[r].step \in GenerateSteps => req[r] \in GenerateCall
           /\ req[r].step = "statusRead" => req[r] \in StatusCall
           /\ req[r].step = "bonusRead" => req[r] \in BonusCall
BY DEF TypeOK, GenerateSteps, GenerateCall, StatusCall, BonusCall, Idle

\* A row with a status is a payroll row, a bonus that exists is a bonus row.
LEMMA RowTypes ==
    ASSUME TypeOK
    PROVE  /\ \A i \in Inserted : payroll[i] \in PayrollRow
           /\ \A b \in Bonuses : bonus[b] # NoRow => bonus[b] \in BonusRow
BY DEF TypeOK, Inserted, NoRow

\* Initially there are no rows and no requests.
LEMMA InitIInv == Init => IInv
<1> SUFFICES ASSUME Init PROVE IInv
  OBVIOUS
<1>1. Inserted = {}
  BY DEF Init, Inserted, NoRow
<1>2. TypeOK
  BY DEF Init, TypeOK
<1>3. \A r \in Requests : ~InTx(r) /\ req[r].step = "idle"
  BY DEF Init, InTx, Idle
<1> QED
  BY <1>1, <1>2, <1>3 DEF IInv, OnePayrollPerKey, TxInv, ApprovalInv, OwnerInv, GenerateSteps

-----------------------------------------------------------------------------
\* What a request may become when only that request changes.
SafeCall(r, c) ==
    /\ c \in GenerateCall \cup StatusCall \cup BonusCall \cup {Idle}
    /\ c.step \in {"inserted", "balanceRead"} =>
         /\ c.id \in PayrollIds
         /\ c.id \notin Inserted
         /\ \A i \in Inserted : ~ (payroll[i].user = c.user /\ payroll[i].month = c.month)
         /\ \A s \in Requests : InTx(s) /\ s # r =>
              /\ req[s].id # c.id
              /\ ~ (req[s].user = c.user /\ req[s].month = c.month)
    /\ c.step = "statusRead" =>
         /\ c.id \in Inserted
         /\ c.target = "PAID" => payroll[c.id].approvedAt
    /\ c.step \in GenerateSteps =>
         \A b \in c.bonuses : bonus[b] # NoRow /\ bonus[b].user = c.user
    /\ c.step = "bonusRead" => bonus[c.bonus] # NoRow

\* A step that changes one request into a safe one preserves the invariant.
LEMMA RequestStep ==
    ASSUME IInv, NEW r \in Requests, NEW c, SafeCall(r, c),
           req' = [req EXCEPT ![r] = c],
           UNCHANGED <<payroll, bonus, allocated, exitMonth>>
    PROVE  IInv'
<1>1. /\ req'[r] = c
      /\ \A s \in Requests : s # r => req'[s] = req[s]
  BY DEF IInv, TypeOK
<1>2. Inserted' = Inserted
  BY DEF Inserted
<1>3. TypeOK'
  BY DEF IInv, TypeOK, SafeCall
<1>4. OnePayrollPerKey'
  BY <1>2 DEF IInv, OnePayrollPerKey
<1>5. TxInv'
  <2> SUFFICES ASSUME NEW t \in Requests, InTx(t)'
               PROVE  /\ req'[t].id \in PayrollIds
                      /\ req'[t].id \notin Inserted
                      /\ \A i \in Inserted : ~ (payroll[i].user = req'[t].user
                                                 /\ payroll[i].month = req'[t].month)
                      /\ \A s \in Requests : InTx(s)' /\ s # t =>
                            /\ req'[s].id # req'[t].id
                            /\ ~ (req'[s].user = req'[t].user /\ req'[s].month = req'[t].month)
    BY <1>2 DEF TxInv
  <2>1. \A s \in Requests : s # r => (InTx(s)' <=> InTx(s))
    BY <1>1 DEF InTx
  <2>2. CASE t = r
    BY <1>1, <2>1, <2>2 DEF SafeCall, InTx
  <2>3. CASE t # r
    <3>1. InTx(t)
      BY <2>1, <2>3
    <3>2. InTx(r)' => /\ c.id # req[t].id
                      /\ ~ (c.user = req[t].user /\ c.month = req[t].month)
      BY <3>1, <2>3, <1>1 DEF SafeCall, InTx
    <3> QED
      BY <3>1, <3>2, <2>1, <2>3, <1>1 DEF IInv, TxInv
  <2> QED
    BY <2>2, <2>3
<1>6. ApprovalInv'
  BY <1>1, <1>2 DEF IInv, ApprovalInv, SafeCall
<1>7. OwnerInv'
  BY <1>1, <1>2 DEF IInv, OwnerInv, SafeCall
<1> QED
  BY <1>3, <1>4, <1>5, <1>6, <1>7 DEF IInv

\* A request that is answered holds nothing.
LEMMA IdleIsSafe ==
    ASSUME NEW r \in Requests
    PROVE  SafeCall(r, Idle)
BY DEF SafeCall, Idle, GenerateSteps

\* The steps of generatePayroll that only read.
LEMMA AdmitStep ==
    ASSUME IInv, NEW r \in Requests, NEW u \in Users, NEW m \in Months,
           NEW status \in {"DRAFT", "GENERATED"}, Admit(r, u, m, status)
    PROVE  IInv'
<1> DEFINE c == [step |-> "admitted", user |-> u, month |-> m, status |-> status,
                 bonuses |-> {}, credit |-> 0, balance |-> 0, id |-> NoId]
<1>1. c \in GenerateCall
  BY PayrollAssumption DEF GenerateCall
<1>2. SafeCall(r, c)
  BY <1>1 DEF SafeCall
<1> QED
  BY <1>2, RequestStep DEF Admit

LEMMA AnswerStep ==
    ASSUME IInv, NEW r \in Requests, Answer(r),
           UNCHANGED <<payroll, bonus, allocated, exitMonth>>
    PROVE  IInv'
BY IdleIsSafe, RequestStep DEF Answer

LEMMA CheckExitStep ==
    ASSUME IInv, NEW r \in Requests, CheckExit(r)
    PROVE  IInv'
<1>1. CASE Answer(r)
  BY <1>1, AnswerStep DEF CheckExit
<1>2. CASE req' = [req EXCEPT ![r].step = "notExiting"]
  <2> DEFINE c == [req[r] EXCEPT !.step = "notExiting"]
  <2>1. req[r] \in GenerateCall
    BY CallOfStep DEF IInv, CheckExit, GenerateSteps
  <2>2. c \in GenerateCall /\ c.step = "notExiting" /\ c.bonuses = req[r].bonuses
        /\ c.user = req[r].user
    BY <2>1 DEF GenerateCall
  <2>3. SafeCall(r, c)
    BY <2>2 DEF SafeCall, IInv, OwnerInv, CheckExit, GenerateSteps
  <2> QED
    BY <1>2, <2>3, RequestStep DEF CheckExit
<1> QED
  BY <1>1, <1>2 DEF CheckExit

LEMMA CheckActiveStep ==
    ASSUME IInv, NEW r \in Requests, CheckActive(r)
    PROVE  IInv'
<1>1. CASE Answer(r)
  BY <1>1, AnswerStep DEF CheckActive
<1>2. CASE req' = [req EXCEPT ![r].step = "noActive"]
  <2> DEFINE c == [req[r] EXCEPT !.step = "noActive"]
  <2>1. req[r] \in GenerateCall
    BY CallOfStep DEF IInv, CheckActive, GenerateSteps
  <2>2. c \in GenerateCall /\ c.step = "noActive" /\ c.bonuses = req[r].bonuses
        /\ c.user = req[r].user
    BY <2>1 DEF GenerateCall
  <2>3. SafeCall(r, c)
    BY <2>2 DEF SafeCall, IInv, OwnerInv, CheckActive, GenerateSteps
  <2> QED
    BY <1>2, <2>3, RequestStep DEF CheckActive
<1> QED
  BY <1>1, <1>2 DEF CheckActive

\* The bonuses that are read are the user's.
LEMMA PriceStep ==
    ASSUME IInv, NEW r \in Requests, Price(r)
    PROVE  IInv'
<1>1. CASE Answer(r)
  BY <1>1, AnswerStep DEF Price
<1>2. ASSUME NEW credit \in 0..MaxCredit,
             req' = [req EXCEPT
                 ![r].step = "priced",
                 ![r].bonuses = PendingBonuses(req[r].user, req[r].month),
                 ![r].credit = credit]
      PROVE  IInv'
  <2> DEFINE bs == PendingBonuses(req[r].user, req[r].month)
             c == [req[r] EXCEPT !.step = "priced", !.bonuses = bs, !.credit = credit]
  <2>1. req[r] \in GenerateCall
    BY CallOfStep DEF IInv, Price, GenerateSteps
  <2>2. bs \subseteq Bonuses
        /\ \A b \in bs : bonus[b] # NoRow /\ bonus[b].user = req[r].user
    BY DEF PendingBonuses, NoRow
  <2>3. /\ c \in GenerateCall
        /\ c.step = "priced" /\ c.bonuses = bs /\ c.user = req[r].user
    BY <2>1, <2>2 DEF GenerateCall
  <2>4. SafeCall(r, c)
    BY <2>2, <2>3 DEF SafeCall
  <2> QED
    BY <1>2, <2>4, RequestStep DEF Price
<1> QED
  BY <1>1, <1>2 DEF Price

\* The unique index: the insert goes through only for a key nobody has.
LEMMA InsertStep ==
    ASSUME IInv, NEW r \in Requests, Insert(r)
    PROVE  IInv'
<1>1. req[r] \in GenerateCall
  BY CallOfStep DEF IInv, Insert, GenerateSteps
<1>2. CASE req' = [req EXCEPT ![r].step = "duplicateKey"]
  <2> DEFINE c == [req[r] EXCEPT !.step = "duplicateKey"]
  <2>1. c \in GenerateCall /\ c.step = "duplicateKey" /\ c.bonuses = req[r].bonuses
        /\ c.user = req[r].user
    BY <1>1 DEF GenerateCall
  <2>2. SafeCall(r, c)
    BY <2>1 DEF SafeCall, IInv, OwnerInv, Insert, GenerateSteps
  <2> QED
    BY <1>2, <2>2, RequestStep DEF Insert
<1>3. ASSUME ~KeyTaken(req[r].user, req[r].month), NEW i \in FreeIds,
             req' = [req EXCEPT ![r].step = "inserted", ![r].id = i]
      PROVE  IInv'
  <2> DEFINE c == [req[r] EXCEPT !.step = "inserted", !.id = i]
  <2>1. /\ c \in GenerateCall /\ c.step = "inserted" /\ c.bonuses = req[r].bonuses
        /\ c.user = req[r].user /\ c.month = req[r].month /\ c.id = i
    BY <1>1 DEF GenerateCall, FreeIds
  <2>2. /\ i \in PayrollIds /\ i \notin Inserted
        /\ \A s \in Requests : InTx(s) => req[s].id # i
    BY DEF FreeIds
  <2>3. \A j \in Inserted : ~ (payroll[j].user = c.user /\ payroll[j].month = c.month)
    BY <1>3, <2>1 DEF KeyTaken, RowsOf
  <2>4. \A s \in Requests : InTx(s) /\ s # r =>
            ~ (req[s].user = c.user /\ req[s].month = c.month)
    BY <2>1 DEF Insert, KeyLocked
  <2>5. \A b \in c.bonuses : bonus[b] # NoRow /\ bonus[b].user = c.user
    BY <2>1 DEF IInv, OwnerInv, Insert, GenerateSteps
  <2>6. SafeCall(r, c)
    BY <2>1, <2>2, <2>3, <2>4, <2>5 DEF SafeCall
  <2> QED
    BY <1>3, <2>6, RequestStep DEF Insert
<1> QED
  BY <1>2, <1>3 DEF Insert

LEMMA ReadBalanceStep ==
    ASSUME IInv, NEW r \in Requests, ReadBalance(r)
    PROVE  IInv'
<1> DEFINE c == [req[r] EXCEPT !.step = "balanceRead", !.balance = allocated[req[r].user]]
<1>1. req[r] \in GenerateCall
  BY CallOfStep DEF IInv, ReadBalance, GenerateSteps
<1>2. allocated[req[r].user] \in Nat
  BY <1>1 DEF GenerateCall, IInv, TypeOK
<1>3. /\ c \in GenerateCall /\ c.step = "balanceRead" /\ c.bonuses = req[r].bonuses
      /\ c.user = req[r].user /\ c.month = req[r].month /\ c.id = req[r].id
  BY <1>1, <1>2 DEF GenerateCall
<1>4. InTx(r)
  BY DEF ReadBalance, InTx
<1>5. \A b \in c.bonuses : bonus[b] # NoRow /\ bonus[b].user = c.user
  BY <1>3 DEF IInv, OwnerInv, ReadBalance, GenerateSteps
<1>6. SafeCall(r, c)
  BY <1>3, <1>4, <1>5 DEF SafeCall, IInv, TxInv
<1> QED
  BY <1>6, RequestStep DEF ReadBalance

\* The readers of the status and of the bonus handlers.
LEMMA ReadForStatusStep ==
    ASSUME IInv, NEW r \in Requests, NEW i \in PayrollIds, NEW target \in PayrollStatus,
           NEW handler, ReadForStatus(r, handler, i, target),
           handler \in {"update", "bulkUpdateStatus", "bulkCancel"}
    PROVE  IInv'
<1> DEFINE c == [step |-> "statusRead", id |-> i, target |-> target]
<1>1. i \in Inserted
  BY DEF ReadForStatus
<1>2. target = "PAID" => payroll[i].status \in {"APPROVED", "PAID"}
  BY DEF ReadForStatus, StatusAllowed, CanTransition, ValidTransitions
<1>3. SafeCall(r, c)
  BY <1>1, <1>2 DEF SafeCall, StatusCall, IInv, ApprovalInv, GenerateSteps
<1> QED
  BY <1>3, RequestStep DEF ReadForStatus

LEMMA ReadBonusStep ==
    ASSUME IInv, NEW r \in Requests, NEW b \in Bonuses,
           NEW newStatus \in BonusStatus, NEW newMonth \in Months,
           ReadBonusForUpdate(r, b, newStatus, newMonth) \/ ReadBonusForDelete(r, b)
    PROVE  IInv'
<1>1. bonus[b] # NoRow /\ bonus[b] \in BonusRow
  BY RowTypes DEF ReadBonusForUpdate, ReadBonusForDelete, IInv
<1> DEFINE c(s, m, a) == [step |-> "bonusRead", bonus |-> b, status |-> s,
                          month |-> m, isActive |-> a]
<1>2. \A s \in BonusStatus, m \in Months, a \in BOOLEAN : SafeCall(r, c(s, m, a))
  BY <1>1 DEF SafeCall, BonusCall, GenerateSteps
<1>3. CASE ReadBonusForUpdate(r, b, newStatus, newMonth)
  BY <1>2, <1>3, RequestStep DEF ReadBonusForUpdate
<1>4. CASE ReadBonusForDelete(r, b)
  BY <1>1, <1>2, <1>4, RequestStep DEF ReadBonusForDelete, BonusRow
<1> QED
  BY <1>3, <1>4

-----------------------------------------------------------------------------
(* The steps that write.                                                   *)

\* The commit puts the reserved key into the table.
LEMMA CommitStep ==
    ASSUME IInv, NEW r \in Requests, Commit(r)
    PROVE  IInv'
<1> DEFINE k == req[r].id
           row == [user |-> req[r].user, month |-> req[r].month,
                   status |-> req[r].status, approvedAt |-> FALSE,
                   bonuses |-> req[r].bonuses, credit |-> req[r].credit]
<1>1. InTx(r) /\ req[r] \in GenerateCall
  BY CallOfStep DEF IInv, Commit, InTx, GenerateSteps
<1>2. /\ k \in PayrollIds
      /\ k \notin Inserted
      /\ \A i \in Inserted : ~ (payroll[i].user = req[r].user
                                 /\ payroll[i].month = req[r].month)
      /\ \A s \in Requests : InTx(s) /\ s # r =>
            /\ req[s].id # k
            /\ ~ (req[s].user = req[r].user /\ req[s].month = req[r].month)
  BY <1>1 DEF IInv, TxInv
<1>3. \A b \in req[r].bonuses : bonus[b] # NoRow /\ bonus[b].user = req[r].user
  BY <1>1 DEF IInv, OwnerInv, InTx, GenerateSteps
<1>4. row \in PayrollRow
  BY <1>1 DEF PayrollRow, GenerateCall, PayrollStatus
<1>5. /\ payroll'[k] = row
      /\ \A i \in PayrollIds : i # k => payroll'[i] = payroll[i]
      /\ Inserted' = Inserted \cup {k}
  BY <1>2, <1>4 DEF Commit, IInv, TypeOK, Inserted, PayrollRow, PayrollStatus
<1>6. /\ req'[r] = Idle
      /\ \A s \in Requests : s # r => req'[s] = req[s]
      /\ \A s \in Requests : InTx(s)' => s # r /\ InTx(s)
  BY DEF Commit, Answer, IInv, TypeOK, InTx, Idle
<1>7. \A b \in Bonuses : /\ bonus[b] # NoRow => bonus'[b] \in BonusRow
                         /\ bonus[b] # NoRow => bonus'[b].user = bonus[b].user
                         /\ bonus[b] = NoRow => bonus'[b] = NoRow
  BY <1>3, RowTypes DEF Commit, MarkPaid, BonusRow, BonusStatus, IInv
<1>8. TypeOK'
  <2>1. payroll' \in [PayrollIds -> PayrollRow \cup {NoRow}]
    BY <1>4 DEF Commit, IInv, TypeOK
  <2>2. bonus' \in [Bonuses -> BonusRow \cup {NoRow}]
    <3>1. \A b \in Bonuses : bonus'[b] \in BonusRow \cup {NoRow}
      BY <1>7
    <3>2. bonus' = [b \in Bonuses |-> bonus'[b]]
      BY DEF Commit, MarkPaid
    <3> QED
      BY <3>1, <3>2
  <2>3. allocated' \in [Users -> Nat]
    <3>1. req[r].balance + req[r].credit \in Nat
      BY <1>1, PayrollAssumption DEF GenerateCall
    <3> QED
      BY <3>1 DEF Commit, CreditedBalance, IInv, TypeOK
  <2>4. exitMonth' \in [Users -> Months \cup {NoMonth}]
    BY DEF Commit, IInv, TypeOK
  <2>5. req' \in [Requests -> GenerateCall \cup StatusCall \cup BonusCall \cup {Idle}]
    BY DEF Commit, Answer, IInv, TypeOK
  <2> QED
    BY <2>1, <2>2, <2>3, <2>4, <2>5 DEF TypeOK
<1>9. OnePayrollPerKey'
  <2>1. \A i \in Inserted : i # k /\ payroll'[i] = payroll[i]
    BY <1>2, <1>5 DEF Inserted
  <2>2. payroll'[k].user = req[r].user /\ payroll'[k].month = req[r].month
    BY <1>5
  <2> QED
    BY <1>2, <1>5, <2>1, <2>2 DEF IInv, OnePayrollPerKey
<1>10. TxInv'
  <2> SUFFICES ASSUME NEW t \in Requests, InTx(t)'
               PROVE  /\ req'[t].id \in PayrollIds
                      /\ req'[t].id \notin Inserted'
                      /\ \A i \in Inserted' : ~ (payroll'[i].user = req'[t].user
                                                  /\ payroll'[i].month = req'[t].month)
                      /\ \A s \in Requests : InTx(s)' /\ s # t =>
                            /\ req'[s].id # req'[t].id
                            /\ ~ (req'[s].user = req'[t].user /\ req'[s].month = req'[t].month)
    BY DEF TxInv
  <2>1. t # r /\ InTx(t) /\ req'[t] = req[t]
    BY <1>6
  <2>2. req[t].id # k /\ ~ (req[t].user = req[r].user /\ req[t].month = req[r].month)
    BY <1>2, <2>1
  <2>3. \A i \in Inserted' : ~ (payroll'[i].user = req[t].user
                                 /\ payroll'[i].month = req[t].month)
    BY <1>5, <2>1, <2>2 DEF IInv, TxInv, Inserted
  <2> QED
    BY <1>5, <1>6, <2>1, <2>2, <2>3 DEF IInv, TxInv
<1>11. ApprovalInv'
  <2>1. row.status \notin {"APPROVED", "PAID"}
    BY <1>1 DEF GenerateCall
  <2>2. \A i \in Inserted' : payroll'[i].status \in {"APPROVED", "PAID"} => payroll'[i].approvedAt
    BY <1>2, <1>5, <2>1 DEF IInv, ApprovalInv, Inserted
  <2>3. \A s \in Requests : req'[s].step = "statusRead" =>
           /\ req'[s].id \in Inserted'
           /\ req'[s].target = "PAID" => payroll'[req'[s].id].approvedAt
    <3> SUFFICES ASSUME NEW s \in Requests, req'[s].step = "statusRead"
                 PROVE  /\ req'[s].id \in Inserted'
                        /\ req'[s].target = "PAID" => payroll'[req'[s].id].approvedAt
      OBVIOUS
    <3>1. s # r /\ req'[s] = req[s]
      BY <1>6 DEF Idle
    <3>2. req[s].id \in Inserted /\ req[s].id # k /\ req[s].id \in PayrollIds
      BY <3>1, <1>2 DEF IInv, ApprovalInv, Inserted
    <3> QED
      BY <3>1, <3>2, <1>5 DEF IInv, ApprovalInv
  <2> QED
    BY <2>2, <2>3 DEF ApprovalInv
<1>12. OwnerInv'
  <2>1. \A i \in Inserted' : payroll'[i].bonuses \subseteq Bonuses
    BY <1>4, <1>5, RowTypes DEF PayrollRow, IInv, Inserted
  <2>2. \A i \in Inserted' : \A b \in payroll'[i].bonuses :
           bonus[b] # NoRow /\ bonus[b].user = payroll'[i].user
    BY <1>2, <1>3, <1>5 DEF IInv, OwnerInv, Inserted
  <2>3. \A b \in Bonuses : bonus[b] # NoRow => bonus'[b] # NoRow
    BY <1>7 DEF NoRow, BonusRow, BonusStatus
  <2>4. \A s \in Requests : req'[s].step \in GenerateSteps =>
           \A b \in req'[s].bonuses : bonus'[b] # NoRow /\ bonus'[b].user = req'[s].user
    <3> SUFFICES ASSUME NEW s \in Requests, req'[s].step \in GenerateSteps,
                        NEW b \in req'[s].bonuses
                 PROVE  bonus'[b] # NoRow /\ bonus'[b].user = req'[s].user
      OBVIOUS
    <3>1. s # r /\ req'[s] = req[s]
      BY <1>6 DEF Idle, GenerateSteps
    <3>2. b \in Bonuses /\ bonus[b] # NoRow /\ bonus[b].user = req[s].user
      BY <3>1, CallOfStep DEF IInv, OwnerInv, GenerateCall
    <3> QED
      BY <3>1, <3>2, <2>3, <1>7
  <2>5. \A s \in Requests : req'[s].step = "bonusRead" => bonus'[req'[s].bonus] # NoRow
    <3> SUFFICES ASSUME NEW s \in Requests, req'[s].step = "bonusRead"
                 PROVE  bonus'[req'[s].bonus] # NoRow
      OBVIOUS
    <3>1. s # r /\ req'[s] = req[s]
      BY <1>6 DEF Idle
    <3>2. req[s].bonus \in Bonuses /\ bonus[req[s].bonus] # NoRow
      BY <3>1, CallOfStep DEF IInv, OwnerInv, BonusCall
    <3> QED
      BY <3>1, <3>2, <2>3
  <2> QED
    BY <2>1, <2>2, <2>3, <2>4, <2>5, <1>7 DEF OwnerInv
<1> QED
  BY <1>8, <1>9, <1>10, <1>11, <1>12 DEF IInv

\* A status write keeps the approval of a row, and PAID is written only by a
\* request that saw the row APPROVED (or PAID).
LEMMA WriteStatusStep ==
    ASSUME IInv, NEW r \in Requests, WriteStatus(r)
    PROVE  IInv'
<1> DEFINE k == req[r].id
           row == [payroll[k] EXCEPT !.status = req[r].target,
                                     !.approvedAt = @ \/ req[r].target = "APPROVED"]
<1>1. req[r] \in StatusCall /\ k \in PayrollIds /\ k \in Inserted
      /\ req[r].target \in PayrollStatus
  BY CallOfStep DEF IInv, WriteStatus, ApprovalInv, Inserted, StatusCall
<1>2. payroll[k] \in PayrollRow
  BY <1>1, RowTypes DEF IInv
<1>3. /\ row \in PayrollRow
      /\ row.user = payroll[k].user /\ row.month = payroll[k].month
      /\ row.bonuses = payroll[k].bonuses /\ row.status = req[r].target
      /\ row.approvedAt = (payroll[k].approvedAt \/ req[r].target = "APPROVED")
  BY <1>1, <1>2 DEF PayrollRow
<1>4. payroll' = [payroll EXCEPT ![k] = row]
  BY <1>1, <1>2 DEF WriteStatus, IInv, TypeOK, PayrollRow
<1>5. /\ payroll'[k] = row
      /\ \A i \in PayrollIds : i # k => payroll'[i] = payroll[i]
      /\ Inserted' = Inserted
  BY <1>1, <1>3, <1>4 DEF IInv, TypeOK, Inserted, PayrollStatus
<1>6. /\ req'[r] = Idle
      /\ \A s \in Requests : s # r => req'[s] = req[s]
      /\ \A s \in Requests : InTx(s)' => s # r /\ InTx(s)
      /\ UNCHANGED <<bonus, allocated, exitMonth>>
  BY DEF WriteStatus, Answer, IInv, TypeOK, InTx, Idle
<1>7. \A i \in Inserted : /\ payroll'[i].user = payroll[i].user
                          /\ payroll'[i].month = payroll[i].month
                          /\ payroll'[i].bonuses = payroll[i].bonuses
                          /\ payroll[i].approvedAt => payroll'[i].approvedAt
  BY <1>3, <1>5 DEF Inserted
<1>8. TypeOK'
  <2>1. payroll' \in [PayrollIds -> PayrollRow \cup {NoRow}]
    <3> HIDE DEF row
    <3> QED
      BY <1>3, <1>4 DEF IInv, TypeOK
  <2>2. req' \in [Requests -> GenerateCall \cup StatusCall \cup BonusCall \cup {Idle}]
    BY DEF IInv, TypeOK, WriteStatus, Answer
  <2> QED
    BY <1>6, <2>1, <2>2 DEF IInv, TypeOK
<1>9. OnePayrollPerKey'
  BY <1>5, <1>7 DEF IInv, OnePayrollPerKey
<1>10. TxInv'
  BY <1>5, <1>6, <1>7 DEF IInv, TxInv
<1>11. ApprovalInv'
  <2>1. row.status \in {"APPROVED", "PAID"} => row.approvedAt
    BY <1>1, <1>3 DEF IInv, ApprovalInv, WriteStatus
  <2>2. \A i \in Inserted :
           payroll'[i].status \in {"APPROVED", "PAID"} => payroll'[i].approvedAt
    BY <1>5, <2>1 DEF IInv, ApprovalInv, Inserted
  <2>3. \A s \in Requests : req'[s].step = "statusRead" =>
           /\ req'[s].id \in Inserted
           /\ req'[s].target = "PAID" => payroll'[req'[s].id].approvedAt
    BY <1>6, <1>7 DEF IInv, ApprovalInv, Idle
  <2> QED
    BY <1>5, <2>2, <2>3 DEF ApprovalInv
<1>12. OwnerInv'
  BY <1>5, <1>6, <1>7 DEF IInv, OwnerInv, Idle, GenerateSteps
<1> QED
  BY <1>8, <1>9, <1>10, <1>11, <1>12 DEF IInv

\* A bonus keeps its user for ever.
LEMMA BonusTableStep ==
    ASSUME IInv, NEW b \in Bonuses, NEW row \in BonusRow,
           bonus[b] # NoRow => bonus[b].user = row.user,
           bonus' = [bonus EXCEPT ![b] = row],
           UNCHANGED <<payroll, allocated, exitMonth>>,
           \A r \in Requests : req'[r] = req[r] \/ req'[r] = Idle,
           req' \in [Requests -> GenerateCall \cup StatusCall \cup BonusCall \cup {Idle}]
    PROVE  IInv'
<1>1. Inserted' = Inserted
  BY DEF Inserted
<1>2. \A a \in Bonuses : bonus[a] # NoRow =>
         bonus'[a] # NoRow /\ bonus'[a].user = bonus[a].user
  BY DEF IInv, TypeOK, NoRow, BonusRow, BonusStatus
<1>3. TypeOK'
  BY DEF IInv, TypeOK
<1>4. OnePayrollPerKey'
  BY <1>1 DEF IInv, OnePayrollPerKey
<1>5. \A r \in Requests : InTx(r)' => InTx(r) /\ req'[r] = req[r]
  BY DEF InTx, Idle
<1>6. TxInv'
  BY <1>1, <1>5 DEF IInv, TxInv
<1>7. ApprovalInv'
  BY <1>1 DEF IInv, ApprovalInv, Idle
<1>8. OwnerInv'
  <2>1. \A i \in Inserted : \A a \in payroll[i].bonuses :
           bonus'[a] # NoRow /\ bonus'[a].user = payroll[i].user
    BY <1>2, RowTypes DEF IInv, OwnerInv, PayrollRow
  <2>2. \A r \in Requests : req[r].step \in GenerateSteps =>
           \A a \in req[r].bonuses : bonus'[a] # NoRow /\ bonus'[a].user = req[r].user
    BY <1>2, CallOfStep DEF IInv, OwnerInv, GenerateCall
  <2>3. \A r \in Requests : req[r].step = "bonusRead" => bonus'[req[r].bonus] # NoRow
    BY <1>2, CallOfStep DEF IInv, OwnerInv, BonusCall
  <2>4. \A r \in Requests : req'[r].step \in GenerateSteps \cup {"bonusRead"} => req'[r] = req[r]
    BY DEF Idle, GenerateSteps
  <2> QED
    BY <1>1, <2>1, <2>2, <2>3, <2>4 DEF OwnerInv
<1> QED
  BY <1>3, <1>4, <1>6, <1>7, <1>8 DEF IInv

LEMMA WriteBonusStep ==
    ASSUME IInv, NEW r \in Requests, WriteBonus(r) \/ DeleteBonus(r)
    PROVE  IInv'
<1> DEFINE b == req[r].bonus
<1>1. /\ req[r] \in BonusCall /\ b \in Bonuses
      /\ req[r].status \in BonusStatus /\ req[r].month \in Months
  BY CallOfStep DEF IInv, WriteBonus, DeleteBonus, BonusCall
<1>2. bonus[b] # NoRow /\ bonus[b] \in BonusRow
  BY <1>1, RowTypes DEF IInv, OwnerInv, WriteBonus, DeleteBonus
<1>3. \E row \in BonusRow : /\ row.user = bonus[b].user
                            /\ bonus' = [bonus EXCEPT ![b] = row]
  <2> DEFINE s == [bonus[b] EXCEPT !.status = req[r].status]
             m == [bonus[b] EXCEPT !.month = req[r].month]
             sm == [bonus[b] EXCEPT !.status = req[r].status, !.month = req[r].month]
             d == [bonus[b] EXCEPT !.isActive = FALSE]
  <2>1. \A row \in {s, m, sm, d} : row \in BonusRow /\ row.user = bonus[b].user
    BY <1>1, <1>2 DEF BonusRow
  <2>2. \E row \in {s, m, sm, d} : bonus' = [bonus EXCEPT ![b] = row]
    BY <1>1 DEF WriteBonus, DeleteBonus, IInv, TypeOK
  <2> QED
    BY <2>1, <2>2
<1>4. /\ \A s \in Requests : req'[s] = req[s] \/ req'[s] = Idle
      /\ req' \in [Requests -> GenerateCall \cup StatusCall \cup BonusCall \cup {Idle}]
      /\ UNCHANGED <<payroll, allocated, exitMonth>>
  BY DEF WriteBonus, DeleteBonus, Answer, IInv, TypeOK
<1> QED
  BY <1>1, <1>3, <1>4, BonusTableStep

LEMMA CreateBonusStep ==
    ASSUME IInv, NEW b \in Bonuses, NEW u \in Users, NEW m \in Months,
           CreateBonus(b, u, m)
    PROVE  IInv'
<1> DEFINE row == [user |-> u, month |-> m, status |-> "PENDING", isActive |-> TRUE]
<1>1. row \in BonusRow
  BY DEF BonusRow, BonusStatus
<1>2. req' \in [Requests -> GenerateCall \cup StatusCall \cup BonusCall \cup {Idle}]
  BY DEF CreateBonus, IInv, TypeOK
<1> QED
  BY <1>1, <1>2, BonusTableStep DEF CreateBonus

\* A crash, the exit month and a stuttering step.
LEMMA RestStep ==
    ASSUME IInv,
           \/ Crash
           \/ \E u \in Users, m \in Months \cup {NoMonth} : SetExit(u, m)
           \/ UNCHANGED vars
    PROVE  IInv'
<1>1. UNCHANGED <<payroll, bonus, allocated>>
  BY DEF Crash, SetExit, vars
<1>2. \A r \in Requests : req'[r] = req[r] \/ req'[r] = Idle
  BY DEF Crash, SetExit, vars
<1>3. TypeOK'
  BY DEF Crash, SetExit, vars, IInv, TypeOK
<1>4. Inserted' = Inserted
  BY <1>1 DEF Inserted
<1>5. OnePayrollPerKey'
  BY <1>1, <1>4 DEF IInv, OnePayrollPerKey
<1>6. \A r \in Requests : InTx(r)' => InTx(r) /\ req'[r] = req[r]
  BY <1>2 DEF InTx, Idle
<1>7. TxInv'
  BY <1>1, <1>4, <1>6 DEF IInv, TxInv
<1>8. ApprovalInv'
  BY <1>1, <1>2, <1>4 DEF IInv, ApprovalInv, Idle
<1>9. OwnerInv'
  BY <1>1, <1>2, <1>4 DEF IInv, OwnerInv, Idle, GenerateSteps
<1> QED
  BY <1>3, <1>5, <1>7, <1>8, <1>9 DEF IInv

-----------------------------------------------------------------------------
LEMMA NextIInv ==
    ASSUME IInv, [Next]_vars
    PROVE  IInv'
<1>1. ASSUME NEW r \in Requests, Call(r)
      PROVE  IInv'
  <2>1. ASSUME NEW u \in Users, NEW m \in Months,
               StartGenerate(r, u, m) \/ StartBulkItem(r, u, m) \/ StartCronItem(r, u, m)
        PROVE  IInv'
    BY <2>1, AdmitStep, AnswerStep DEF StartGenerate, StartBulkItem, StartCronItem
  <2>2. ASSUME NEW handler \in {"update", "bulkUpdateStatus", "bulkCancel"},
               NEW i \in PayrollIds, NEW target \in PayrollStatus,
               ReadForStatus(r, handler, i, target)
        PROVE  IInv'
    BY <2>2, ReadForStatusStep
  <2>3. ASSUME NEW b \in Bonuses, NEW newStatus \in BonusStatus, NEW newMonth \in Months,
               ReadBonusForUpdate(r, b, newStatus, newMonth)
        PROVE  IInv'
    BY <2>3, ReadBonusStep
  <2>4. ASSUME NEW b \in Bonuses, ReadBonusForDelete(r, b)
        PROVE  IInv'
    <3>1. bonus[b] \in BonusRow
      BY <2>4, RowTypes DEF ReadBonusForDelete, IInv
    <3>2. bonus[b].month \in Months /\ bonus[b].status \in BonusStatus
      BY <3>1 DEF BonusRow
    <3> QED
      BY <2>4, <3>2, ReadBonusStep
  <2> QED
    BY <1>1, <2>1, <2>2, <2>3, <2>4 DEF Call
<1>2. ASSUME NEW r \in Requests, Advance(r)
      PROVE  IInv'
  BY <1>2, CheckExitStep, CheckActiveStep, PriceStep, InsertStep, AnswerStep,
     ReadBalanceStep, CommitStep, WriteStatusStep, WriteBonusStep
     DEF Advance, AnswerDuplicate
<1>3. ASSUME NEW r \in Requests, Rollback(r)
      PROVE  IInv'
  BY <1>3, AnswerStep DEF Rollback
<1>4. CASE Environment
  BY <1>4, CreateBonusStep, RestStep, PayrollAssumption DEF Environment
<1>5. CASE Crash \/ UNCHANGED vars
  BY <1>5, RestStep
<1> QED
  BY <1>1, <1>2, <1>3, <1>4, <1>5 DEF Next

\* Each inductive conjunct yields a property.
LEMMA IInvImplies ==
    ASSUME IInv
    PROVE  PaidWasApproved /\ BonusOncePerMonth
<1>1. PaidWasApproved
  BY DEF IInv, ApprovalInv, PaidWasApproved
<1>2. BonusOncePerMonth
  BY DEF IInv, OwnerInv, OnePayrollPerKey, BonusOncePerMonth
<1> QED
  BY <1>1, <1>2

-----------------------------------------------------------------------------
THEOREM InductiveInvariant == Spec => []IInv
<1> QED
  BY InitIInv, NextIInv, PTL DEF Spec

\* Every row and every request in flight always has its type.
THEOREM TypeCorrect == Spec => []TypeOK
<1>1. IInv => TypeOK
  BY DEF IInv
<1> QED
  BY <1>1, InductiveInvariant, PTL

\* At most one payroll row per user and month, with any number of
\* administrators and cron runs generating at the same time.
THEOREM UniquePayroll == Spec => []OnePayrollPerKey
<1>1. IInv => OnePayrollPerKey
  BY DEF IInv
<1> QED
  BY <1>1, InductiveInvariant, PTL

\* However stale the reads of the status handlers are, a PAID row has been approved.
THEOREM ApprovedBeforePaid == Spec => []PaidWasApproved
<1> QED
  BY IInvImplies, InductiveInvariant, PTL

\* No bonus is paid twice for the same month, although no lock protects it
\* between the read and the payment: the unique index does.
THEOREM BonusPaidOncePerMonth == Spec => []BonusOncePerMonth
<1> QED
  BY IInvImplies, InductiveInvariant, PTL

-----------------------------------------------------------------------------
(* One request at a time.                                                  *)

Serial == \A r, s \in Requests : r = s

\* What a payroll lists is paid, what one in the making lists is still pending,
\* and what is being edited has not been paid.
ListedInv ==
    /\ BonusInOnePayroll
    /\ \A i \in Inserted : \A b \in payroll[i].bonuses : bonus[b].status = "PAID"
    /\ \A r \in Requests : req[r].step \in GenerateSteps =>
         \A b \in req[r].bonuses : bonus[b].status = "PENDING"
    /\ \A r \in Requests : req[r].step = "bonusRead" => bonus[req[r].bonus].status # "PAID"

\* A step that only changes one request.
LEMMA ListedRequest ==
    ASSUME TypeOK, ListedInv, NEW r \in Requests, NEW c, req' = [req EXCEPT ![r] = c],
           UNCHANGED <<payroll, bonus>>,
           c.step \in GenerateSteps => \A b \in c.bonuses : bonus[b].status = "PENDING",
           c.step = "bonusRead" => bonus[c.bonus].status # "PAID"
    PROVE  ListedInv'
<1>1. req'[r] = c /\ \A s \in Requests : s # r => req'[s] = req[s]
  BY DEF TypeOK
<1>2. Inserted' = Inserted
  BY DEF Inserted
<1> QED
  BY <1>1, <1>2 DEF ListedInv, BonusInOnePayroll

LEMMA ListedAnswer ==
    ASSUME TypeOK, ListedInv, NEW r \in Requests, Answer(r), UNCHANGED <<payroll, bonus>>
    PROVE  ListedInv'
BY ListedRequest DEF Answer, Idle, GenerateSteps

\* Reading a payroll together.
LEMMA ListedGenerate ==
    ASSUME IInv, ListedInv, NEW r \in Requests,
           \/ \E u \in Users, m \in Months :
                StartGenerate(r, u, m) \/ StartBulkItem(r, u, m) \/ StartCronItem(r, u, m)
           \/ CheckExit(r) \/ CheckActive(r) \/ Price(r) \/ Insert(r) \/ ReadBalance(r)
    PROVE  ListedInv'
<1>1. TypeOK
  BY DEF IInv
<1>2. ASSUME NEW u \in Users, NEW m \in Months, NEW status, Admit(r, u, m, status)
      PROVE  ListedInv'
  <2> PICK c : c = [step |-> "admitted", user |-> u, month |-> m, status |-> status,
                    bonuses |-> {}, credit |-> 0, balance |-> 0, id |-> NoId]
    OBVIOUS
  <2>1. c.step = "admitted" /\ c.bonuses = {}
    OBVIOUS
  <2>2. req' = [req EXCEPT ![r] = c] /\ UNCHANGED <<payroll, bonus>>
    BY <1>2 DEF Admit
  <2> QED
    BY <1>1, <2>1, <2>2, ListedRequest
<1>3. ASSUME NEW c, req' = [req EXCEPT ![r] = c], UNCHANGED <<payroll, bonus>>,
             req[r].step \in GenerateSteps, c.step # "bonusRead",
             c.bonuses = req[r].bonuses \/ \A b \in c.bonuses : bonus[b].status = "PENDING"
      PROVE  ListedInv'
  <2>1. \A b \in req[r].bonuses : bonus[b].status = "PENDING"
    BY <1>3 DEF ListedInv
  <2> QED
    BY <1>1, <1>3, <2>1, ListedRequest
<1>4. CASE CheckExit(r) \/ CheckActive(r)
  <2>1. req[r].step \in GenerateSteps /\ req[r] \in GenerateCall
    BY <1>1, <1>4, CallOfStep DEF CheckExit, CheckActive, GenerateSteps
  <2>2. CASE Answer(r)
    BY <1>1, <1>4, <2>2, ListedAnswer DEF CheckExit, CheckActive
  <2>3. CASE ~Answer(r)
    <3> PICK step \in {"notExiting", "noActive"} : req' = [req EXCEPT ![r].step = step]
      BY <1>4, <2>3 DEF CheckExit, CheckActive
    <3> PICK c : c = [req[r] EXCEPT !.step = step]
      OBVIOUS
    <3>1. c.step # "bonusRead" /\ c.bonuses = req[r].bonuses
      BY <2>1 DEF GenerateCall
    <3> QED
      BY <1>3, <1>4, <2>1, <3>1 DEF CheckExit, CheckActive
  <2> QED
    BY <2>2, <2>3
<1>5. CASE Price(r)
  <2>1. req[r].step \in GenerateSteps /\ req[r] \in GenerateCall
    BY <1>1, <1>5, CallOfStep DEF Price, GenerateSteps
  <2>2. CASE Answer(r)
    BY <1>1, <1>5, <2>2, ListedAnswer DEF Price
  <2>3. CASE ~Answer(r)
    <3> PICK credit, pending : /\ pending = PendingBonuses(req[r].user, req[r].month)
                               /\ req' = [req EXCEPT ![r].step = "priced", ![r].bonuses = pending,
                                                     ![r].credit = credit]
      BY <1>5, <2>3 DEF Price
    <3> PICK c : c = [req[r] EXCEPT !.step = "priced", !.bonuses = pending, !.credit = credit]
      OBVIOUS
    <3>1. c.step # "bonusRead" /\ c.bonuses = pending
      BY <2>1 DEF GenerateCall
    <3>2. \A b \in pending : bonus[b].status = "PENDING"
      BY DEF PendingBonuses
    <3>3. req' = [req EXCEPT ![r] = c] /\ UNCHANGED <<payroll, bonus>>
      BY <1>1, <1>5 DEF Price, TypeOK
    <3> QED
      BY <1>3, <2>1, <3>1, <3>2, <3>3
  <2> QED
    BY <2>2, <2>3
<1>6. CASE Insert(r) \/ ReadBalance(r)
  <2>1. req[r].step \in GenerateSteps /\ req[r] \in GenerateCall
    BY <1>1, <1>6, CallOfStep DEF Insert, ReadBalance, GenerateSteps
  <2>2. CASE KeyTaken(req[r].user, req[r].month) /\ Insert(r)
    <3> PICK c : c = [req[r] EXCEPT !.step = "duplicateKey"]
      OBVIOUS
    <3>1. c.step # "bonusRead" /\ c.bonuses = req[r].bonuses
      BY <2>1 DEF GenerateCall
    <3> QED
      BY <1>3, <2>1, <2>2, <3>1 DEF Insert
  <2>3. CASE ~KeyTaken(req[r].user, req[r].month) /\ Insert(r)
    <3> PICK i \in FreeIds : req' = [req EXCEPT ![r].step = "inserted", ![r].id = i]
      BY <2>3 DEF Insert
    <3> PICK c : c = [req[r] EXCEPT !.step = "inserted", !.id = i]
      OBVIOUS
    <3>1. c.step # "bonusRead" /\ c.bonuses = req[r].bonuses
      BY <2>1 DEF GenerateCall
    <3>2. req' = [req EXCEPT ![r] = c] /\ UNCHANGED <<payroll, bonus>>
      BY <1>1, <2>3 DEF Insert, TypeOK
    <3> QED
      BY <1>3, <2>1, <3>1, <3>2
  <2>4. CASE ReadBalance(r)
    <3> PICK c : c = [req[r] EXCEPT !.step = "balanceRead", !.balance = allocated[req[r].user]]
      OBVIOUS
    <3>1. c.step # "bonusRead" /\ c.bonuses = req[r].bonuses
      BY <2>1 DEF GenerateCall
    <3>2. req' = [req EXCEPT ![r] = c] /\ UNCHANGED <<payroll, bonus>>
      BY <1>1, <2>4 DEF ReadBalance, TypeOK
    <3> QED
      BY <1>3, <2>1, <3>1, <3>2
  <2> QED
    BY <1>6, <2>2, <2>3, <2>4
<1> QED
  BY <1>1, <1>2, <1>4, <1>5, <1>6, ListedAnswer DEF StartGenerate, StartBulkItem, StartCronItem

\* What the status and the bonus handlers read.
LEMMA ListedRead ==
    ASSUME IInv, ListedInv, NEW r \in Requests,
           \/ \E handler, i, target : ReadForStatus(r, handler, i, target)
           \/ \E b \in Bonuses, newStatus \in BonusStatus, newMonth \in Months :
                ReadBonusForUpdate(r, b, newStatus, newMonth)
           \/ \E b \in Bonuses : ReadBonusForDelete(r, b)
    PROVE  ListedInv'
<1>1. TypeOK
  BY DEF IInv
<1>2. ASSUME NEW handler, NEW i, NEW target, ReadForStatus(r, handler, i, target)
      PROVE  ListedInv'
  <2> PICK c : c = [step |-> "statusRead", id |-> i, target |-> target]
    OBVIOUS
  <2>1. c.step = "statusRead" /\ c.step \notin GenerateSteps
    BY DEF GenerateSteps
  <2> QED
    BY <1>1, <1>2, <2>1, ListedRequest DEF ReadForStatus
<1>3. ASSUME NEW b \in Bonuses, NEW status, NEW month, NEW active, bonus[b].status # "PAID",
             UNCHANGED <<payroll, bonus>>,
             req' = [req EXCEPT ![r] = [step |-> "bonusRead", bonus |-> b, status |-> status,
                                        month |-> month, isActive |-> active]]
      PROVE  ListedInv'
  <2> PICK c : c = [step |-> "bonusRead", bonus |-> b, status |-> status, month |-> month,
                    isActive |-> active]
    OBVIOUS
  <2>1. c.step \notin GenerateSteps /\ c.bonus = b
    BY DEF GenerateSteps
  <2> QED
    BY <1>1, <1>3, <2>1, ListedRequest
<1>4. CASE \E b \in Bonuses, newStatus \in BonusStatus, newMonth \in Months :
              ReadBonusForUpdate(r, b, newStatus, newMonth)
  <2> PICK b \in Bonuses, newStatus \in BonusStatus, newMonth \in Months :
          ReadBonusForUpdate(r, b, newStatus, newMonth)
    BY <1>4
  <2>1. bonus[b].status # "PAID" /\ UNCHANGED <<payroll, bonus>>
    BY DEF ReadBonusForUpdate
  <2> QED
    BY <1>3, <2>1 DEF ReadBonusForUpdate
<1>5. CASE \E b \in Bonuses : ReadBonusForDelete(r, b)
  <2> PICK b \in Bonuses : ReadBonusForDelete(r, b)
    BY <1>5
  <2> PICK status, month : status = bonus[b].status /\ month = bonus[b].month
    OBVIOUS
  <2>1. /\ bonus[b].status # "PAID" /\ UNCHANGED <<payroll, bonus>>
        /\ req' = [req EXCEPT ![r] = [step |-> "bonusRead", bonus |-> b, status |-> status,
                                      month |-> month, isActive |-> FALSE]]
    BY DEF ReadBonusForDelete
  <2> QED
    BY <1>3, <2>1
<1> QED
  BY <1>2, <1>4, <1>5

LEMMA ListedCommit ==
    ASSUME Serial, IInv, ListedInv, NEW r \in Requests, Commit(r)
    PROVE  ListedInv'
<1> PICK row, n, bs : /\ n = req[r].id /\ bs = req[r].bonuses
                      /\ row = [user |-> req[r].user, month |-> req[r].month,
                                status |-> req[r].status, approvedAt |-> FALSE,
                                bonuses |-> bs, credit |-> req[r].credit]
  OBVIOUS
<1>1. /\ req[r] \in GenerateCall /\ req[r].step \in GenerateSteps
      /\ n \in PayrollIds /\ n \notin Inserted
  BY CallOfStep DEF Commit, GenerateSteps, InTx, IInv, TxInv
<1>2. row.bonuses = bs /\ row.status \in {"DRAFT", "GENERATED"}
  BY <1>1 DEF GenerateCall
<1>3. payroll' = [payroll EXCEPT ![n] = row] /\ bonus' = MarkPaid(bs)
  BY DEF Commit
<1>4. /\ Inserted' = Inserted \cup {n} /\ payroll'[n] = row
      /\ \A i \in Inserted : payroll'[i] = payroll[i]
  BY <1>1, <1>2, <1>3 DEF Inserted, IInv, TypeOK
<1>5. /\ bs \subseteq Bonuses
      /\ \A i \in Inserted : payroll[i].bonuses \subseteq Bonuses
  BY <1>1, RowTypes DEF GenerateCall, PayrollRow, IInv
<1>6. \A i \in Inserted : payroll[i].bonuses \cap bs = {}
  BY <1>1 DEF ListedInv
<1>7. BonusInOnePayroll'
  BY <1>1, <1>2, <1>4, <1>6 DEF ListedInv, BonusInOnePayroll
<1>8. /\ \A b \in Bonuses : b \in bs \/ bonus[b].status = "PAID" => bonus'[b].status = "PAID"
  BY <1>3, RowTypes DEF MarkPaid, IInv, TypeOK, BonusRow, NoRow
<1>9. \A i \in Inserted' : \A b \in payroll'[i].bonuses : bonus'[b].status = "PAID"
  BY <1>2, <1>4, <1>5, <1>8 DEF ListedInv
<1>10. \A s \in Requests : req'[s] = Idle
  BY DEF Serial, Commit, Answer, IInv, TypeOK
<1> QED
  BY <1>7, <1>9, <1>10 DEF ListedInv, Idle, GenerateSteps

LEMMA ListedStatus ==
    ASSUME IInv, ListedInv, NEW r \in Requests, WriteStatus(r)
    PROVE  ListedInv'
<1> PICK n, target, row : /\ n = req[r].id /\ target = req[r].target
                          /\ row = [payroll[n] EXCEPT !.status = target,
                                     !.approvedAt = @ \/ target = "APPROVED"]
  OBVIOUS
<1>1. n \in Inserted /\ payroll[n] \in PayrollRow /\ target \in PayrollStatus
  BY CallOfStep, RowTypes DEF WriteStatus, IInv, ApprovalInv, StatusCall
<1>2. row.bonuses = payroll[n].bonuses /\ row.status # "NONE"
  BY <1>1 DEF PayrollRow, PayrollStatus
<1>3. payroll' = [payroll EXCEPT ![n] = row]
  BY <1>1 DEF WriteStatus, IInv, TypeOK, Inserted
<1>4. Inserted' = Inserted /\ \A i \in Inserted : payroll'[i].bonuses = payroll[i].bonuses
  BY <1>1, <1>2, <1>3 DEF Inserted, IInv, TypeOK
<1>5. bonus' = bonus /\ \A s \in Requests : req'[s] = req[s] \/ req'[s] = Idle
  BY DEF WriteStatus, Answer, IInv, TypeOK
<1> QED
  BY <1>4, <1>5 DEF ListedInv, BonusInOnePayroll, Idle, GenerateSteps

\* One bonus is written, and no request that has read it goes on.
LEMMA ListedBonusTable ==
    ASSUME IInv, ListedInv, NEW b, UNCHANGED payroll, bonus[b].status # "PAID",
           \A a \in Bonuses : a # b => bonus'[a] = bonus[a],
           \A s \in Requests :
               \/ req'[s] = Idle
               \/ req'[s] = req[s] /\ bonus[b] = NoRow /\ bonus'[b].status # "PAID"
    PROVE  ListedInv'
<1>1. Inserted' = Inserted
  BY DEF Inserted
<1>2. \A i \in Inserted : payroll[i].bonuses \subseteq Bonuses \ {b}
  BY RowTypes DEF ListedInv, PayrollRow, IInv
<1>3. BonusInOnePayroll' /\ \A i \in Inserted' : \A a \in payroll'[i].bonuses : bonus'[a].status = "PAID"
  BY <1>1, <1>2 DEF ListedInv, BonusInOnePayroll
<1>4. ASSUME NEW s \in Requests, req[s] = req'[s], bonus[b] = NoRow, bonus'[b].status # "PAID"
      PROVE  /\ req[s].step \in GenerateSteps => \A a \in req[s].bonuses : bonus'[a].status = "PENDING"
             /\ req[s].step = "bonusRead" => bonus'[req[s].bonus].status # "PAID"
  <2>1. req[s].step \in GenerateSteps => req[s].bonuses \subseteq Bonuses \ {b}
    BY <1>4, CallOfStep DEF IInv, OwnerInv, GenerateCall
  <2>2. req[s].step = "bonusRead" => req[s].bonus \in Bonuses \ {b}
    BY <1>4, CallOfStep DEF IInv, OwnerInv, BonusCall
  <2> QED
    BY <2>1, <2>2 DEF ListedInv
<1>5. ASSUME NEW s \in Requests
      PROVE  /\ req'[s].step \in GenerateSteps => \A a \in req'[s].bonuses : bonus'[a].status = "PENDING"
             /\ req'[s].step = "bonusRead" => bonus'[req'[s].bonus].status # "PAID"
  BY <1>4 DEF Idle, GenerateSteps
<1> QED
  BY <1>3, <1>5 DEF ListedInv

LEMMA ListedBonus ==
    ASSUME Serial, IInv, ListedInv, NEW r \in Requests, WriteBonus(r) \/ DeleteBonus(r)
    PROVE  ListedInv'
<1> PICK b : b = req[r].bonus
  OBVIOUS
<1>1. bonus[b].status # "PAID" /\ UNCHANGED payroll
  BY DEF WriteBonus, DeleteBonus, ListedInv
<1>2. \A a \in Bonuses : a # b => bonus'[a] = bonus[a]
  <2>1. CASE WriteBonus(r)
    BY <2>1 DEF WriteBonus, IInv, TypeOK
  <2>2. CASE DeleteBonus(r)
    BY <2>2 DEF DeleteBonus, IInv, TypeOK
  <2> QED
    BY <2>1, <2>2
<1>3. \A s \in Requests : req'[s] = Idle
  <2>1. Answer(r)
    BY DEF WriteBonus, DeleteBonus
  <2> QED
    BY <2>1 DEF Serial, Answer, IInv, TypeOK
<1> QED
  BY <1>1, <1>2, <1>3, ListedBonusTable

LEMMA ListedCreate ==
    ASSUME IInv, ListedInv, NEW b \in Bonuses, NEW u, NEW m, CreateBonus(b, u, m)
    PROVE  ListedInv'
<1>1. /\ bonus[b] = NoRow /\ UNCHANGED <<payroll, req>>
      /\ \A a \in Bonuses : a # b => bonus'[a] = bonus[a]
      /\ bonus'[b].status = "PENDING"
  BY DEF CreateBonus, IInv, TypeOK
<1> QED
  BY <1>1, ListedBonusTable DEF NoRow

LEMMA ListedStep ==
    ASSUME Serial, IInv, ListedInv, [Next]_vars
    PROVE  ListedInv'
<1>1. ASSUME NEW r \in Requests, Call(r)
      PROVE  ListedInv'
  BY <1>1, ListedGenerate, ListedRead DEF Call
<1>2. ASSUME NEW r \in Requests, Advance(r) \/ Rollback(r)
      PROVE  ListedInv'
  BY <1>2, ListedGenerate, ListedAnswer, ListedCommit, ListedStatus, ListedBonus
  DEF Advance, AnswerDuplicate, Rollback, IInv
<1>3. CASE \E b \in Bonuses, u \in Users, m \in Months : CreateBonus(b, u, m)
  BY <1>3, ListedCreate
<1>4. CASE Crash \/ UNCHANGED vars \/ \E u \in Users, m \in ExitMonths \cup {NoMonth} : SetExit(u, m)
  <2>1. /\ UNCHANGED <<payroll, bonus>> /\ Inserted' = Inserted
        /\ \A s \in Requests : req'[s] = req[s] \/ req'[s] = Idle
    BY <1>4 DEF Crash, SetExit, vars, Inserted
  <2> QED
    BY <2>1 DEF ListedInv, BonusInOnePayroll, Idle, GenerateSteps
<1> QED
  BY <1>1, <1>2, <1>3, <1>4 DEF Next, Environment

\* One request at a time, no sequence of generations, cancellations and edits
\* of bonuses lists a bonus in two payrolls.
THEOREM BonusListedOnce == Serial => (Spec => []BonusInOnePayroll)
<1> SUFFICES ASSUME Serial PROVE Spec => []BonusInOnePayroll
  OBVIOUS
<1>1. Init => ListedInv
  <2> SUFFICES ASSUME Init PROVE ListedInv
    OBVIOUS
  <2>1. Inserted = {} /\ \A r \in Requests : req[r].step = "idle"
    BY DEF Init, Inserted, NoRow, Idle
  <2> QED
    BY <2>1 DEF ListedInv, BonusInOnePayroll, GenerateSteps
<1>2. IInv /\ ListedInv /\ [Next]_vars => ListedInv'
  BY ListedStep
<1>3. ListedInv => BonusInOnePayroll
  BY DEF ListedInv
<1> QED
  BY <1>1, <1>2, <1>3, InductiveInvariant, PTL DEF Spec

-----------------------------------------------------------------------------
(* The credits of a user, leaf by leaf.                                    *)

\* A balance that a payroll has read or that stands is backed by payrolls:
\* credits are only added to a table whose rows are never deleted.
CreditInv ==
    \A u \in Users :
        /\ IsFiniteSet(Credits(u))
        /\ allocated[u] <= CreditsOf(u)
        /\ \A r \in Requests : req[r].step = "balanceRead" /\ req[r].user = u
                                => req[r].balance <= CreditsOf(u)

\* The names of the leaves credited, member by member.
LEMMA CreditMember ==
    ASSUME NEW u
    PROVE  \A x : x \in Credits(u) <=>
             \E i \in Inserted : /\ payroll[i].user = u
                                 /\ \E n \in 1..payroll[i].credit : x = <<i, n>>
BY DEF Credits

\* A step that keeps user and credit of every row keeps the credits.
LEMMA SameCredits ==
    ASSUME Inserted' = Inserted,
           \A i \in Inserted : payroll'[i].user = payroll[i].user
                               /\ payroll'[i].credit = payroll[i].credit
    PROVE  \A u \in Users : Credits(u)' = Credits(u) /\ CreditsOf(u)' = CreditsOf(u)
<1>1. ASSUME NEW u \in Users PROVE Credits(u)' = Credits(u)
  BY DEF Credits
<1> QED
  BY <1>1 DEF CreditsOf

\* A step that writes no credit, and after which a balance just read is the one
\* that stands.
LEMMA KeepsCreditInv ==
    ASSUME CreditInv, UNCHANGED allocated, Inserted' = Inserted,
           \A i \in Inserted : payroll'[i].user = payroll[i].user
                               /\ payroll'[i].credit = payroll[i].credit,
           \A r \in Requests :
              \/ req'[r] = req[r]
              \/ req'[r].step # "balanceRead"
              \/ req'[r].user \in Users /\ req'[r].balance = allocated[req'[r].user]
    PROVE  CreditInv'
<1>1. \A u \in Users : Credits(u)' = Credits(u) /\ CreditsOf(u)' = CreditsOf(u)
  BY SameCredits
<1> QED
  BY <1>1 DEF CreditInv

\* The leaves of one payroll, by name.
LEMMA NamesOfRow ==
    ASSUME NEW i, NEW n \in Nat
    PROVE  IsFiniteSet({i} \X (1..n)) /\ Cardinality({i} \X (1..n)) = n
<1>1. IsFiniteSet(1..n) /\ Cardinality(1..n) = n
  BY FS_Interval
<1>2. IsFiniteSet({i}) /\ Cardinality({i}) = 1
  BY FS_Singleton
<1> QED
  BY <1>1, <1>2, FS_Product

\* What generatePayroll and its callers do before the commit.
LEMMA CreditGenerate ==
    ASSUME IInv, CreditInv, NEW r \in Requests,
           \/ \E u \in Users, m \in Months :
                StartGenerate(r, u, m) \/ StartBulkItem(r, u, m) \/ StartCronItem(r, u, m)
           \/ CheckExit(r) \/ CheckActive(r) \/ Price(r) \/ Insert(r) \/ ReadBalance(r)
    PROVE  CreditInv'
<1>1. TypeOK /\ UNCHANGED <<payroll, allocated>> /\ Inserted' = Inserted
  BY DEF IInv, StartGenerate, StartBulkItem, StartCronItem, Admit, CheckExit, CheckActive,
     Price, Insert, ReadBalance, Inserted
<1>2. ASSUME NEW c, req' = [req EXCEPT ![r] = c],
             \/ c.step # "balanceRead"
             \/ c.user \in Users /\ c.balance = allocated[c.user]
      PROVE  CreditInv'
  <2>1. req'[r] = c /\ \A s \in Requests : s # r => req'[s] = req[s]
    BY <1>1, <1>2 DEF TypeOK
  <2> QED
    BY <1>1, <1>2, <2>1, KeepsCreditInv
<1>3. ASSUME Answer(r) PROVE CreditInv'
  BY <1>2, <1>3 DEF Answer, Idle
<1>4. ASSUME NEW u \in Users, NEW m \in Months, NEW status, Admit(r, u, m, status)
      PROVE  CreditInv'
  <2> PICK c : c = [step |-> "admitted", user |-> u, month |-> m, status |-> status,
                    bonuses |-> {}, credit |-> 0, balance |-> 0, id |-> NoId]
    OBVIOUS
  <2>1. c.step = "admitted"
    OBVIOUS
  <2> QED
    BY <1>2, <1>4, <2>1 DEF Admit
<1>6. ASSUME CheckExit(r) \/ CheckActive(r) PROVE CreditInv'
  <2>1. req[r] \in GenerateCall
    BY <1>1, <1>6, CallOfStep DEF CheckExit, CheckActive, GenerateSteps
  <2>2. CASE ~Answer(r)
    <3> PICK step \in {"notExiting", "noActive"} : req' = [req EXCEPT ![r].step = step]
      BY <1>6, <2>2 DEF CheckExit, CheckActive
    <3> PICK c : c = [req[r] EXCEPT !.step = step]
      OBVIOUS
    <3>1. c.step = step
      BY <2>1 DEF GenerateCall
    <3> QED
      BY <1>2, <3>1
  <2> QED
    BY <1>3, <2>2
<1>7. ASSUME Price(r) PROVE CreditInv'
  <2>1. req[r] \in GenerateCall
    BY <1>1, <1>7, CallOfStep DEF Price, GenerateSteps
  <2>2. CASE ~Answer(r)
    <3> PICK credit, pending :
            req' = [req EXCEPT ![r].step = "priced", ![r].bonuses = pending, ![r].credit = credit]
      BY <1>7, <2>2 DEF Price
    <3> PICK c : c = [req[r] EXCEPT !.step = "priced", !.bonuses = pending, !.credit = credit]
      OBVIOUS
    <3>1. c.step = "priced"
      BY <2>1 DEF GenerateCall
    <3>2. req' = [req EXCEPT ![r] = c]
      BY <1>1 DEF TypeOK
    <3> QED
      BY <1>2, <3>1, <3>2
  <2> QED
    BY <1>3, <2>2
<1>8. ASSUME Insert(r) PROVE CreditInv'
  <2>1. req[r] \in GenerateCall
    BY <1>1, <1>8, CallOfStep DEF Insert, GenerateSteps
  <2>2. CASE req' = [req EXCEPT ![r].step = "duplicateKey"]
    <3> PICK c : c = [req[r] EXCEPT !.step = "duplicateKey"]
      OBVIOUS
    <3>1. c.step = "duplicateKey"
      BY <2>1 DEF GenerateCall
    <3> QED
      BY <1>2, <2>2, <3>1
  <2>3. CASE \E i \in FreeIds : req' = [req EXCEPT ![r].step = "inserted", ![r].id = i]
    <3> PICK i : req' = [req EXCEPT ![r].step = "inserted", ![r].id = i]
      BY <2>3
    <3> PICK c : c = [req[r] EXCEPT !.step = "inserted", !.id = i]
      OBVIOUS
    <3>1. c.step = "inserted"
      BY <2>1 DEF GenerateCall
    <3>2. req' = [req EXCEPT ![r] = c]
      BY <1>1 DEF TypeOK
    <3> QED
      BY <1>2, <3>1, <3>2
  <2> QED
    BY <1>8, <2>2, <2>3 DEF Insert
<1>9. ASSUME ReadBalance(r) PROVE CreditInv'
  <2>1. req[r] \in GenerateCall /\ req[r].user \in Users
    BY <1>1, <1>9, CallOfStep DEF ReadBalance, GenerateSteps, GenerateCall
  <2> PICK stands : stands = allocated[req[r].user]
    OBVIOUS
  <2> PICK c : c = [req[r] EXCEPT !.step = "balanceRead", !.balance = stands]
    OBVIOUS
  <2>2. c.user = req[r].user /\ c.balance = stands
    BY <2>1 DEF GenerateCall
  <2>3. req' = [req EXCEPT ![r] = c]
    BY <1>1, <1>9 DEF ReadBalance, TypeOK
  <2> QED
    BY <1>2, <2>1, <2>2, <2>3
<1> QED
  BY <1>3, <1>4, <1>6, <1>7, <1>8, <1>9 DEF StartGenerate, StartBulkItem, StartCronItem

\* The row that is committed brings its leaves, and the balance that is written
\* was backed when it was read.
LEMMA CreditCommit ==
    ASSUME IInv, CreditInv, NEW r \in Requests, Commit(r)
    PROVE  CreditInv'
<1> PICK v, k, n, row : /\ v = req[r].user /\ k = req[r].id /\ n = req[r].credit
                        /\ row = [user |-> v, month |-> req[r].month,
                                  status |-> req[r].status, approvedAt |-> FALSE,
                                  bonuses |-> req[r].bonuses, credit |-> n]
  OBVIOUS
<1>1. /\ req[r] \in GenerateCall /\ req[r].step \in {"inserted", "balanceRead"}
      /\ k \in PayrollIds /\ k \notin Inserted
  BY CallOfStep DEF Commit, GenerateSteps, InTx, IInv, TxInv
<1>2. v \in Users /\ n \in Nat /\ req[r].balance \in Nat /\ row.status \in {"DRAFT", "GENERATED"}
  BY <1>1, PayrollAssumption DEF GenerateCall
<1>3. row.user = v /\ row.credit = n
  OBVIOUS
<1>4. payroll' = [payroll EXCEPT ![k] = row]
  BY DEF Commit
<1>5. /\ Inserted' = Inserted \cup {k} /\ payroll'[k] = row
      /\ \A i \in Inserted : payroll'[i] = payroll[i]
  BY <1>1, <1>2, <1>4 DEF Inserted, IInv, TypeOK
<1>6. \A u \in Users : u # v => Credits(u)' = Credits(u)
  BY <1>1, <1>3, <1>5 DEF Credits
<1>7. Credits(v)' = Credits(v) \cup ({k} \X (1..n))
  BY <1>1, <1>3, <1>5 DEF Credits
<1>8. Credits(v) \cap ({k} \X (1..n)) = {}
  BY <1>1, CreditMember
<1>9. IsFiniteSet(Credits(v)') /\ CreditsOf(v)' = CreditsOf(v) + n /\ CreditsOf(v) \in Nat
  <2>1. IsFiniteSet({k} \X (1..n)) /\ Cardinality({k} \X (1..n)) = n
    BY <1>2, NamesOfRow
  <2>2. IsFiniteSet(Credits(v)) /\ Cardinality(Credits(v)) \in Nat
    BY <1>2, FS_CardinalityType DEF CreditInv
  <2>3. Cardinality(Credits(v) \cap ({k} \X (1..n))) = 0
    BY <1>8, FS_EmptySet
  <2>4. /\ IsFiniteSet(Credits(v) \cup ({k} \X (1..n)))
        /\ Cardinality(Credits(v) \cup ({k} \X (1..n))) = Cardinality(Credits(v)) + n
    <3> PICK A, B : A = Credits(v) /\ B = {k} \X (1..n)
      OBVIOUS
    <3>1. IsFiniteSet(A) /\ IsFiniteSet(B)
      BY <2>1, <2>2
    <3>2. IsFiniteSet(A \cup B) /\ Cardinality(A \cup B) = Cardinality(A) + Cardinality(B) - Cardinality(A \cap B)
      BY <3>1, FS_Union
    <3> QED
      BY <1>2, <2>1, <2>2, <2>3, <3>2
  <2>5. CreditsOf(v)' = Cardinality(Credits(v)')
    BY DEF CreditsOf
  <2> QED
    BY <1>7, <2>2, <2>4, <2>5 DEF CreditsOf
<1>10. \A s \in Requests : req'[s] = req[s] \/ req'[s] = Idle
  BY DEF Commit, Answer, IInv, TypeOK
<1>11. \A u \in Users : u # v => allocated'[u] = allocated[u] /\ CreditsOf(u)' = CreditsOf(u)
  BY <1>2, <1>6 DEF Commit, CreditedBalance, CreditsOf, IInv, TypeOK
<1>12. allocated'[v] <= CreditsOf(v) + n
  <2>1. CASE n > 0 /\ v \in BalanceHolders
    <3>1. req[r].step = "balanceRead"
      BY <2>1 DEF Commit
    <3>2. req[r].balance <= CreditsOf(v)
      BY <1>2, <3>1 DEF CreditInv
    <3>3. allocated'[v] = req[r].balance + n
      BY <1>2, <2>1 DEF Commit, CreditedBalance, IInv, TypeOK
    <3> QED
      BY <1>2, <1>9, <3>2, <3>3
  <2>2. CASE ~(n > 0 /\ v \in BalanceHolders)
    <3>1. allocated'[v] = allocated[v] /\ allocated[v] \in Nat
      BY <1>2, <2>2 DEF Commit, CreditedBalance, IInv, TypeOK
    <3>2. allocated[v] <= CreditsOf(v)
      BY <1>2 DEF CreditInv
    <3> QED
      BY <1>2, <1>9, <3>1, <3>2
  <2> QED
    BY <2>1, <2>2
<1>13. \A s \in Requests : req'[s].step = "balanceRead" /\ req'[s].user = v
                            => req'[s].balance <= CreditsOf(v) + n
  <2> SUFFICES ASSUME NEW s \in Requests, req'[s].step = "balanceRead", req'[s].user = v
               PROVE  req'[s].balance <= CreditsOf(v) + n
    OBVIOUS
  <2>1. req'[s] = req[s]
    BY <1>10 DEF Idle
  <2>2. req[s].balance \in Nat
    BY <2>1, CallOfStep DEF IInv, GenerateSteps, GenerateCall
  <2>3. req[s].balance <= CreditsOf(v)
    BY <1>2, <2>1 DEF CreditInv
  <2> QED
    BY <1>2, <1>9, <2>1, <2>2, <2>3
<1> SUFFICES ASSUME NEW u \in Users
             PROVE  /\ IsFiniteSet(Credits(u)')
                    /\ allocated'[u] <= CreditsOf(u)'
                    /\ \A s \in Requests : req'[s].step = "balanceRead" /\ req'[s].user = u
                                            => req'[s].balance <= CreditsOf(u)'
  BY DEF CreditInv
<1>14. CASE u = v
  BY <1>9, <1>12, <1>13, <1>14
<1>15. CASE u # v
  BY <1>6, <1>10, <1>11, <1>15 DEF CreditInv, Idle
<1> QED
  BY <1>14, <1>15

\* A status write leaves user and credit of its row alone.
LEMMA CreditStatus ==
    ASSUME IInv, CreditInv, NEW r \in Requests, WriteStatus(r)
    PROVE  CreditInv'
<1> PICK n, target, row : /\ n = req[r].id /\ target = req[r].target
                          /\ row = [payroll[n] EXCEPT !.status = target,
                                     !.approvedAt = @ \/ target = "APPROVED"]
  OBVIOUS
<1>1. n \in Inserted /\ payroll[n] \in PayrollRow /\ target \in PayrollStatus
  BY CallOfStep, RowTypes DEF WriteStatus, IInv, ApprovalInv, StatusCall
<1>2. row.user = payroll[n].user /\ row.credit = payroll[n].credit /\ row.status # "NONE"
  BY <1>1 DEF PayrollRow, PayrollStatus
<1>3. payroll' = [payroll EXCEPT ![n] = row]
  BY <1>1 DEF WriteStatus, IInv, TypeOK, Inserted
<1>4. /\ Inserted' = Inserted
      /\ \A i \in Inserted : payroll'[i].user = payroll[i].user /\ payroll'[i].credit = payroll[i].credit
  BY <1>1, <1>2, <1>3 DEF Inserted, IInv, TypeOK
<1>5. UNCHANGED allocated /\ \A s \in Requests : req'[s] = req[s] \/ req'[s] = Idle
  BY DEF WriteStatus, Answer, IInv, TypeOK
<1> QED
  BY <1>4, <1>5, KeepsCreditInv DEF Idle

\* A step that touches neither payrolls nor balances, and reads no balance.
LEMMA CreditElsewhere ==
    ASSUME CreditInv, UNCHANGED <<payroll, allocated>>,
           \A s \in Requests : req'[s] = req[s] \/ req'[s].step # "balanceRead"
    PROVE  CreditInv'
<1>1. Inserted' = Inserted
  BY DEF Inserted
<1> QED
  BY <1>1, KeepsCreditInv

LEMMA CreditStep ==
    ASSUME IInv, CreditInv, [Next]_vars
    PROVE  CreditInv'
<1>1. ASSUME NEW r \in Requests, Answer(r), UNCHANGED <<payroll, allocated>>
      PROVE  CreditInv'
  BY <1>1, CreditElsewhere DEF Answer, Idle, IInv, TypeOK
<1>2. ASSUME NEW r \in Requests, NEW handler, NEW i, NEW target, ReadForStatus(r, handler, i, target)
      PROVE  CreditInv'
  BY <1>2, CreditElsewhere DEF ReadForStatus, IInv, TypeOK
<1>3. ASSUME NEW r \in Requests, NEW b, NEW newStatus, NEW newMonth,
             ReadBonusForUpdate(r, b, newStatus, newMonth) \/ ReadBonusForDelete(r, b)
      PROVE  CreditInv'
  BY <1>3, CreditElsewhere DEF ReadBonusForUpdate, ReadBonusForDelete, IInv, TypeOK
<1>4. ASSUME NEW r \in Requests, Call(r) PROVE CreditInv'
  BY <1>2, <1>3, <1>4, CreditGenerate DEF Call
<1>5. ASSUME NEW r \in Requests, Advance(r) \/ Rollback(r) PROVE CreditInv'
  BY <1>1, <1>5, CreditGenerate, CreditCommit, CreditStatus
  DEF Advance, Rollback, AnswerDuplicate, WriteBonus, DeleteBonus
<1>6. CASE Environment \/ Crash \/ UNCHANGED vars
  BY <1>6, CreditElsewhere DEF Environment, CreateBonus, SetExit, Crash, vars, Idle
<1> QED
  BY <1>4, <1>5, <1>6 DEF Next

\* creditHolidayWorkLeaves: read outside the transaction and written as an
\* absolute value, the balance of a user never exceeds what the payrolls of that
\* user credit, with any number of generations at the same time.
THEOREM NeverOverCredited == Spec => []CreditNeverExceeds
<1>1. Init => CreditInv
  <2> SUFFICES ASSUME Init, NEW u \in Users
               PROVE  /\ IsFiniteSet(Credits(u)) /\ allocated[u] <= CreditsOf(u)
                      /\ \A r \in Requests : req[r].step # "balanceRead"
    BY DEF CreditInv
  <2>1. Inserted = {}
    BY DEF Init, Inserted, NoRow
  <2>2. Credits(u) = {}
    BY <2>1 DEF Credits
  <2> QED
    BY <2>2, FS_EmptySet DEF Init, Idle, CreditsOf
<1>2. IInv /\ CreditInv /\ [Next]_vars => CreditInv'
  BY CreditStep
<1>3. CreditInv => CreditNeverExceeds
  BY DEF CreditInv, CreditNeverExceeds
<1> QED
  BY <1>1, <1>2, <1>3, InductiveInvariant, PTL DEF Spec

=============================================================================
