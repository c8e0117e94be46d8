----------------------------- MODULE FnfSettlement -----------------------------
(***************************************************************************)
(* The full and final settlements of one employee who leaves.              *)
(*                                                                         *)
(* Every handler reads the settlement, awaits (settings, salary, PDFs) and *)
(* writes it by its id.  Completion is three commits: the encashment is    *)
(* credited as a system expense, the settlement is completed, the employee *)
(* is archived.  Initiation sets the exit date over a connection of its    *)
(* own while the settlement is not committed.                              *)
(*                                                                         *)
(* The clearance stands for those of assets, vehicles and cards, which are *)
(* handled alike.  The amounts are one number, what the statement prints.  *)
(***************************************************************************)
EXTENDS Integers, Sequences, FiniteSets

CONSTANTS
    Requests,        \* requests that can be in flight together
    Blocking,        \* blockFnfIfPending
    Installed,       \* the connection knows FnfEntity, cards has the columns asked for
    MaxSettlements,  \* bound: settlements of the employee
    MaxRaced,        \* bound: settlements when requests overlap
    MaxAmount,       \* bound: amounts of a settlement
    MaxCredits,      \* bound: encashments credited for a settlement
    MaxFaults        \* bound: requests that stop in the middle

ASSUME FnfAssumption ==
    /\ Blocking \in BOOLEAN /\ Installed \in BOOLEAN
    /\ MaxSettlements \in Nat /\ MaxRaced \in 0..MaxSettlements /\ MaxAmount \in Nat
    /\ MaxCredits \in Nat /\ MaxFaults \in Nat

VARIABLES
    fnf,       \* fnf_settlements, in the order they were committed
    exiting,   \* users.exitDate is set
    archived,  \* users.status is ARCHIVED
    req,       \* what each request in flight has read
    raced,     \* two requests were in flight at the same time
    stray,     \* documents were asked for before the approval
    faults

vars == <<fnf, exiting, archived, req, raced, stray, faults>>

Status == {"INITIATED", "CALCULATED", "PENDING_CLEARANCE", "APPROVED",
           "DOCUMENTS_GENERATED", "COMPLETED", "CANCELLED"}
Clearance == {"PENDING", "CLEARED", "NOT_APPLICABLE"}
Amounts == 0..MaxAmount
Ids == 1..MaxSettlements

\* due: leaves to encash; printed: the amount on the statement, if there is
\* one; credits: the expenses that refer to the settlement; completed:
\* completedAt is set.
Settlement == [status : Status, clearance : Clearance, amount : Amounts,
               due : BOOLEAN, printed : Amounts \cup {-1}, credits : 0..MaxCredits,
               completed : BOOLEAN]

Idle == [step |-> "idle"]
Initiating == [step : {"initiating", "inserting"}, clearance : Clearance]
Handling == [step : {"calculating", "approving", "paying", "completing",
                     "archiving", "cancelling", "leaving"}, id : Ids]
Printing == [step : {"printing"}, id : Ids, amount : Amounts]
Clearing == [step : {"clearing", "cleared"}, id : Ids, status : Status]
Amending == [step : {"amending"}, id : Ids]

-----------------------------------------------------------------------------
Rows == DOMAIN fnf
Over == {"COMPLETED", "CANCELLED"}
Live == {i \in Rows : fnf[i].status \notin Over}

Init ==
    /\ fnf = <<>>
    /\ exiting = FALSE /\ archived = FALSE
    /\ req = [r \in Requests |-> Idle]
    /\ raced = FALSE /\ stray = FALSE
    /\ faults = 0

Take(r, call) ==
    /\ req[r] = Idle
    /\ req' = [req EXCEPT ![r] = call]
    /\ raced' = (raced \/ \E s \in Requests : req[s] # Idle)
    /\ raced' => Len(fnf) <= MaxRaced
    /\ UNCHANGED <<fnf, exiting, archived, faults>>

Go(r, call) == req' = [req EXCEPT ![r] = call] /\ UNCHANGED <<raced, stray, faults>>
Answer(r) == Go(r, Idle)

SetStatus(i, status) == fnf' = [fnf EXCEPT ![i].status = status]

-----------------------------------------------------------------------------
(* initiate                                                                *)

\* Refused when a settlement is INITIATED and the settlement found next, any
\* one of the employee's, is neither completed nor cancelled.  The clearance is
\* pending if something is assigned to the employee.  As the repository stands
\* nothing is installed: getOrmConfig does not list FnfEntity, and no migration
\* creates cards."assignedTo" and cards.status, which the clearance query reads.
ReadForInitiate(r, clearance) ==
    /\ Installed
    /\ \/ \A i \in Rows : fnf[i].status # "INITIATED"
       \/ \E i \in Rows : fnf[i].status \in Over
    /\ clearance # "NOT_APPLICABLE"
    /\ Take(r, [step |-> "initiating", clearance |-> clearance])
    /\ UNCHANGED stray

\* userService.update is not given the transaction: it commits.
SetExitDate(r) ==
    /\ req[r].step = "initiating"
    /\ exiting' = TRUE
    /\ Go(r, [step |-> "inserting", clearance |-> req[r].clearance])
    /\ UNCHANGED <<fnf, archived>>

CommitInitiate(r) ==
    /\ req[r].step = "inserting"
    /\ Len(fnf) < IF raced THEN MaxRaced ELSE MaxSettlements
    /\ fnf' = Append(fnf, [status |-> "INITIATED", clearance |-> req[r].clearance,
                           amount |-> 0, due |-> FALSE, printed |-> -1, credits |-> 0,
                           completed |-> FALSE])
    /\ Answer(r)
    /\ UNCHANGED <<exiting, archived>>

-----------------------------------------------------------------------------
(* calculate, update                                                       *)

\* validateStatusTransition
ReadForCalculate(r, i) ==
    /\ fnf[i].status = "INITIATED"
    /\ Take(r, [step |-> "calculating", id |-> i])
    /\ UNCHANGED stray

WriteCalculation(r, amount, due) ==
    /\ req[r].step = "calculating"
    /\ fnf' = [fnf EXCEPT ![req[r].id].status = "CALCULATED",
                          ![req[r].id].amount = amount, ![req[r].id].due = due]
    /\ Answer(r)
    /\ UNCHANGED <<exiting, archived>>

\* Mutant: amounts can be amended as long as the settlement is not over.
AmendWhileLive(r, i) ==
    /\ fnf[i].status \notin Over
    /\ Take(r, [step |-> "amending", id |-> i])
    /\ UNCHANGED stray

ReadForUpdate(r, i) ==
    /\ fnf[i].status \in {"CALCULATED", "PENDING_CLEARANCE"}
    /\ Take(r, [step |-> "amending", id |-> i])
    /\ UNCHANGED stray

WriteUpdate(r, amount) ==
    /\ req[r].step = "amending"
    /\ fnf' = [fnf EXCEPT ![req[r].id].amount = amount]
    /\ Answer(r)
    /\ UNCHANGED <<exiting, archived>>

-----------------------------------------------------------------------------
(* updateClearance, approve                                                *)

ReadForClearance(r, i) ==
    /\ fnf[i].status \notin Over
    /\ Take(r, [step |-> "clearing", id |-> i, status |-> fnf[i].status])
    /\ UNCHANGED stray

WriteClearance(r, clearance) ==
    /\ req[r].step = "clearing"
    /\ fnf' = [fnf EXCEPT ![req[r].id].clearance = clearance]
    /\ Go(r, [step |-> "cleared", id |-> req[r].id, status |-> req[r].status])
    /\ UNCHANGED <<exiting, archived>>

\* The settlement is read again, but the status tested is the one read first.
MarkPending(r) ==
    /\ req[r].step = "cleared"
    /\ fnf[req[r].id].clearance = "PENDING" /\ req[r].status = "CALCULATED"
    /\ SetStatus(req[r].id, "PENDING_CLEARANCE")
    /\ Answer(r)
    /\ UNCHANGED <<exiting, archived>>

LeaveStatus(r) ==
    /\ req[r].step = "cleared"
    /\ fnf[req[r].id].clearance = "PENDING" => req[r].status # "CALCULATED"
    /\ Answer(r)
    /\ UNCHANGED <<fnf, exiting, archived>>

\* Mutant: an approved settlement can be approved again, also after its
\* documents were generated.
ApproveAgain(r, i) ==
    /\ fnf[i].status \notin Over \cup {"INITIATED"}
    /\ Blocking => fnf[i].clearance = "CLEARED"
    /\ Take(r, [step |-> "approving", id |-> i])
    /\ UNCHANGED stray

\* NOT_APPLICABLE is not CLEARED here, though it is in allClearancesDone.
ReadForApprove(r, i) ==
    /\ fnf[i].status \in {"CALCULATED", "PENDING_CLEARANCE"}
    /\ Blocking => fnf[i].clearance = "CLEARED"
    /\ Take(r, [step |-> "approving", id |-> i])
    /\ UNCHANGED stray

WriteApproval(r) ==
    /\ req[r].step = "approving"
    /\ SetStatus(req[r].id, "APPROVED")
    /\ Answer(r)
    /\ UNCHANGED <<exiting, archived>>

-----------------------------------------------------------------------------
(* generateDocuments, complete                                             *)

\* No status is asked for.
ReadForDocuments(r, i) ==
    /\ Take(r, [step |-> "printing", id |-> i, amount |-> fnf[i].amount])
    /\ stray' = (stray \/ fnf[i].status \notin {"APPROVED", "DOCUMENTS_GENERATED"})

WriteDocuments(r) ==
    /\ req[r].step = "printing"
    /\ fnf' = [fnf EXCEPT ![req[r].id].status = "DOCUMENTS_GENERATED",
                          ![req[r].id].printed = req[r].amount]
    /\ Answer(r)
    /\ UNCHANGED <<exiting, archived>>

\* Mutant: a completion that was interrupted can be repeated.
CompleteAgain(r, i) ==
    /\ fnf[i].status \in {"DOCUMENTS_GENERATED", "COMPLETED"}
    /\ Take(r, [step |-> IF fnf[i].due THEN "paying" ELSE "completing", id |-> i])
    /\ UNCHANGED stray

ReadForComplete(r, i) ==
    /\ fnf[i].status = "DOCUMENTS_GENERATED"
    /\ Take(r, [step |-> IF fnf[i].due THEN "paying" ELSE "completing", id |-> i])
    /\ UNCHANGED stray

\* Mutant: a credit that fails is logged and the completion goes on.
CreditIfPossible(r) ==
    /\ req[r].step = "paying"
    /\ fnf[req[r].id].credits < MaxCredits
    /\ \/ fnf' = [fnf EXCEPT ![req[r].id].credits = @ + 1]
       \/ UNCHANGED fnf
    /\ Go(r, [step |-> "completing", id |-> req[r].id])
    /\ UNCHANGED <<exiting, archived>>

\* createSystemExpense commits; nothing asks whether there is one already.
CreditEncashment(r) ==
    /\ req[r].step = "paying"
    /\ fnf[req[r].id].credits < MaxCredits
    /\ fnf' = [fnf EXCEPT ![req[r].id].credits = @ + 1]
    /\ Go(r, [step |-> "completing", id |-> req[r].id])
    /\ UNCHANGED <<exiting, archived>>

WriteCompletion(r) ==
    /\ req[r].step = "completing"
    /\ fnf' = [fnf EXCEPT ![req[r].id].status = "COMPLETED", ![req[r].id].completed = TRUE]
    /\ Go(r, [step |-> "archiving", id |-> req[r].id])
    /\ UNCHANGED <<exiting, archived>>

Archive(r) ==
    /\ req[r].step = "archiving"
    /\ archived' = TRUE
    /\ Answer(r)
    /\ UNCHANGED <<fnf, exiting>>

-----------------------------------------------------------------------------
(* cancel                                                                  *)

ReadForCancel(r, i) ==
    /\ fnf[i].status \notin Over
    /\ Take(r, [step |-> "cancelling", id |-> i])
    /\ UNCHANGED stray

WriteCancel(r) ==
    /\ req[r].step = "cancelling"
    /\ SetStatus(req[r].id, "CANCELLED")
    /\ Go(r, [step |-> "leaving", id |-> req[r].id])
    /\ UNCHANGED <<exiting, archived>>

\* Mutant: the exit details stay.
KeepExitDate(r) ==
    /\ req[r].step = "leaving"
    /\ Answer(r)
    /\ UNCHANGED <<fnf, exiting, archived>>

ClearExitDate(r) ==
    /\ req[r].step = "leaving"
    /\ exiting' = FALSE
    /\ Answer(r)
    /\ UNCHANGED <<fnf, archived>>

-----------------------------------------------------------------------------
\* A statement fails or the server dies: what was committed stays, the rest is
\* not done.
Stop(r) ==
    /\ req[r] # Idle
    /\ faults < MaxFaults
    /\ faults' = faults + 1
    /\ req' = [req EXCEPT ![r] = Idle]
    /\ UNCHANGED <<fnf, exiting, archived, raced, stray>>

Read(r, i) ==
    \/ ReadForCalculate(r, i) \/ ReadForUpdate(r, i)
    \/ ReadForClearance(r, i) \/ ReadForApprove(r, i)
    \/ ReadForDocuments(r, i) \/ ReadForComplete(r, i) \/ ReadForCancel(r, i)

Write(r) ==
    \/ SetExitDate(r) \/ CommitInitiate(r)
    \/ \E amount \in Amounts :
         (\E due \in BOOLEAN : WriteCalculation(r, amount, due)) \/ WriteUpdate(r, amount)
    \/ (\E clearance \in Clearance : WriteClearance(r, clearance))
    \/ MarkPending(r) \/ LeaveStatus(r) \/ WriteApproval(r) \/ WriteDocuments(r)
    \/ CreditEncashment(r) \/ WriteCompletion(r) \/ Archive(r)
    \/ WriteCancel(r) \/ ClearExitDate(r)

Next ==
    \E r \in Requests :
      \/ \E clearance \in Clearance : ReadForInitiate(r, clearance)
      \/ \E i \in Rows : Read(r, i)
      \/ Write(r) \/ Stop(r)

Spec == Init /\ [][Next]_vars

-----------------------------------------------------------------------------
TypeOK ==
    /\ fnf \in Seq(Settlement) /\ Len(fnf) <= MaxSettlements
    /\ exiting \in BOOLEAN /\ archived \in BOOLEAN
    /\ req \in [Requests -> Initiating \cup Handling \cup Printing \cup Clearing
                            \cup Amending \cup {Idle}]
    /\ raced \in BOOLEAN /\ stray \in BOOLEAN
    /\ faults \in 0..MaxFaults

\* Requests one after the other, none interrupted.
Orderly == ~raced /\ faults = 0

\* An employee's encashment is credited once for a settlement, however often
\* its documents are generated again, when requests come one after the other,
\* none is interrupted and documents are not asked for before the approval:
\* completion reads the status, credits, and writes the status in three steps.
EncashedOnce ==
    Orderly /\ ~stray => \A i \in Rows : fnf[i].credits <= 1

\* Whoever is archived by a settlement has one that was completed and printed,
\* and was paid what was due unless requests overlapped: a completion that
\* stops in the middle, anywhere, leaves an employee who is not archived rather
\* than one who is not paid.
ArchivedWasPaid ==
    archived => \E i \in Rows :
        /\ fnf[i].completed /\ fnf[i].printed # -1
        /\ ~raced /\ fnf[i].due => fnf[i].credits >= 1

\* The statement of a settlement whose documents were generated prints its
\* amounts, also when they were generated out of turn, and to the end.
PrintedIsFinal ==
    ~raced => \A i \in Rows :
        fnf[i].status \in {"DOCUMENTS_GENERATED", "COMPLETED"} => fnf[i].printed = fnf[i].amount

\* Payroll counts the days up to the exit date.  It is set only for an employee
\* with a settlement that was not cancelled.
ExitHasReason ==
    Orderly /\ exiting /\ (\A r \in Requests : req[r] = Idle) =>
        \E i \in Rows : fnf[i].status # "CANCELLED"

Promised == ~raced /\ ~stray

Record == INSTANCE SettlementRecord WITH
    kept <- Promised,
    status <- IF Promised THEN [i \in Rows |-> fnf[i].status] ELSE <<>>

\* Seven handlers that each test the status in their own way, some not at all,
\* together move a settlement along VALID_STATUS_TRANSITIONS.
FollowsTable == Record!Spec
=============================================================================
