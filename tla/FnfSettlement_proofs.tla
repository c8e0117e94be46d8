--------------------------- MODULE FnfSettlement_proofs ---------------------------
(* An employee who leaves is paid before being archived, a settlement      *)
(* credits its encashment once, and the handlers follow the table of       *)
(* transitions, for any number of settlements and requests.                *)
EXTENDS FnfSettlement, SequenceTheorems, TLAPS

Calls == Initiating \cup Handling \cup Printing \cup Clearing \cup Amending \cup {Idle}

\* The steps of a request that names a settlement.
Naming == {"calculating", "approving", "paying", "completing", "archiving", "cancelling",
           "leaving", "printing", "clearing", "cleared", "amending"}

Typed == TypeOK /\ \A r \in Requests : req[r].step \in Naming => req[r].id \in Rows

-----------------------------------------------------------------------------
(* Types.                                                                  *)

LEMMA CallOfStep ==
    ASSUME TypeOK, NEW r \in Requests
    PROVE  /\ req[r].step \in {"initiating", "inserting"} => req[r] \in Initiating
           /\ req[r].step \in {"calculating", "approving", "paying", "completing",
                               "archiving", "cancelling", "leaving"} => req[r] \in Handling
           /\ req[r].step = "printing" => req[r] \in Printing
           /\ req[r].step \in {"clearing", "cleared"} => req[r] \in Clearing
           /\ req[r].step = "amending" => req[r] \in Amending
           /\ req[r].step \in Naming \cup {"initiating", "inserting"} \/ req[r] = Idle
BY DEF TypeOK, Idle, Initiating, Handling, Printing, Clearing, Amending, Naming

LEMMA RowsFacts ==
    ASSUME TypeOK
    PROVE  Rows = 1..Len(fnf) /\ Rows \subseteq Ids /\ \A i \in Rows : fnf[i] \in Settlement
BY FnfAssumption DEF TypeOK, Rows, Ids

LEMMA ReqAfter ==
    ASSUME TypeOK, NEW r \in Requests, NEW call, req' = [req EXCEPT ![r] = call]
    PROVE  req'[r] = call /\ \A s \in Requests : s # r => req'[s] = req[s]
BY DEF TypeOK

\* A row of a settlement is written.
Puts(i, e) == i \in Rows /\ e \in Settlement /\ fnf' = [fnf EXCEPT ![i] = e]

LEMMA PutFacts ==
    ASSUME TypeOK, NEW i, NEW e, Puts(i, e)
    PROVE  /\ fnf' \in Seq(Settlement) /\ Len(fnf') = Len(fnf) /\ Rows' = Rows
           /\ fnf'[i] = e /\ \A j \in Rows : j # i => fnf'[j] = fnf[j]
<1>1. fnf \in [1..Len(fnf) -> Settlement] /\ Len(fnf) \in Nat
  BY DEF TypeOK
<1>2. fnf' \in [1..Len(fnf) -> Settlement]
  BY <1>1 DEF Puts
<1>3. fnf' \in Seq(Settlement) /\ Len(fnf') = Len(fnf)
  BY <1>1, <1>2
<1>4. Rows' = Rows
  BY DEF Rows, Puts
<1>5. fnf'[i] = e /\ \A j \in Rows : j # i => fnf'[j] = fnf[j]
  BY DEF Puts, Rows
<1> QED
  BY <1>3, <1>4, <1>5

\* A settlement is entered.
LEMMA EnterFacts ==
    ASSUME TypeOK, NEW e \in Settlement, Len(fnf) < MaxSettlements, fnf' = Append(fnf, e)
    PROVE  /\ fnf' \in Seq(Settlement) /\ Len(fnf') <= MaxSettlements
           /\ Rows' = Rows \cup {Len(fnf) + 1} /\ Len(fnf) + 1 \notin Rows
           /\ fnf'[Len(fnf) + 1] = e /\ \A j \in Rows : fnf'[j] = fnf[j]
BY FnfAssumption DEF TypeOK, Rows

\* Rows stay.
Grows == fnf' \in Seq(Settlement) /\ Len(fnf') <= MaxSettlements /\ Rows \subseteq Rows'

LEMMA SameRows == ASSUME TypeOK, UNCHANGED fnf PROVE Grows
BY DEF TypeOK, Grows, Rows

LEMMA PutGrows == ASSUME TypeOK, NEW i, NEW e, Puts(i, e) PROVE Grows
<1>1. Len(fnf) <= MaxSettlements
  BY DEF TypeOK
<1> QED
  BY <1>1, PutFacts DEF Grows

LEMMA CallTyped ==
    ASSUME Typed, NEW r \in Requests, NEW call \in Calls,
           call.step \in Naming => call.id \in Rows',
           req' = [req EXCEPT ![r] = call], Grows,
           exiting' \in BOOLEAN, archived' \in BOOLEAN, raced' \in BOOLEAN,
           stray' \in BOOLEAN, faults' \in 0..MaxFaults
    PROVE  Typed'
<1>1. req' \in [Requests -> Calls]
  BY DEF Typed, TypeOK, Calls
<1>2. TypeOK'
  BY <1>1 DEF Typed, TypeOK, Calls, Grows
<1>3. \A s \in Requests : req'[s].step \in Naming => req'[s].id \in Rows'
  BY ReqAfter DEF Typed, Grows
<1> QED
  BY <1>2, <1>3 DEF Typed

\* A handler that takes up a settlement.
LEMMA TakeTyped ==
    ASSUME Typed, NEW r \in Requests, NEW call \in Calls, Take(r, call),
           call.step \in Naming => call.id \in Rows, stray' \in BOOLEAN
    PROVE  Typed'
<1>1. Grows /\ Rows' = Rows
  BY SameRows DEF Typed, Take, Rows
<1>2. raced' \in BOOLEAN
  BY DEF Typed, TypeOK, Take
<1>3. /\ exiting' \in BOOLEAN /\ archived' \in BOOLEAN /\ faults' \in 0..MaxFaults
      /\ req' = [req EXCEPT ![r] = call]
  BY DEF Typed, TypeOK, Take
<1> QED
  BY <1>1, <1>2, <1>3, CallTyped

LEMMA IdleCall == Idle \in Calls /\ Idle.step \notin Naming
BY DEF Idle, Calls, Naming

LEMMA InitiateTyped ==
    ASSUME Typed, NEW r \in Requests, NEW clearance \in Clearance,
           ReadForInitiate(r, clearance)
    PROVE  Typed'
<1> DEFINE call == [step |-> "initiating", clearance |-> clearance]
<1>1. call \in Calls /\ call.step \notin Naming
  BY DEF Calls, Initiating, Naming
<1>2. Take(r, call) /\ stray' \in BOOLEAN
  BY DEF ReadForInitiate, Typed, TypeOK
<1> HIDE DEF call
<1> QED
  BY <1>1, <1>2, TakeTyped

LEMMA ReadTyped ==
    ASSUME Typed, NEW r \in Requests, NEW i \in Rows, Read(r, i)
    PROVE  Typed'
<1>1. i \in Ids /\ fnf[i] \in Settlement
  BY RowsFacts DEF Typed
<1>2. PICK call : /\ call \in Calls /\ call.step \in Naming /\ call.id = i /\ Take(r, call)
  <2>1. CASE ReadForCalculate(r, i)
    BY <1>1, <2>1 DEF ReadForCalculate, Calls, Handling, Naming
  <2>2. CASE ReadForUpdate(r, i)
    BY <1>1, <2>2 DEF ReadForUpdate, Calls, Amending, Naming
  <2>3. CASE ReadForClearance(r, i)
    BY <1>1, <2>3 DEF ReadForClearance, Calls, Clearing, Settlement, Naming
  <2>4. CASE ReadForApprove(r, i)
    BY <1>1, <2>4 DEF ReadForApprove, Calls, Handling, Naming
  <2>5. CASE ReadForDocuments(r, i)
    BY <1>1, <2>5 DEF ReadForDocuments, Calls, Printing, Settlement, Naming
  <2>6. CASE ReadForComplete(r, i)
    <3> DEFINE call == [step |-> IF fnf[i].due THEN "paying" ELSE "completing", id |-> i]
    <3>1. call \in Calls /\ call.step \in Naming
      BY <1>1 DEF Calls, Handling, Naming
    <3>2. Take(r, call) /\ call.id = i
      BY <2>6 DEF ReadForComplete
    <3> HIDE DEF call
    <3> QED
      BY <3>1, <3>2
  <2>7. CASE ReadForCancel(r, i)
    BY <1>1, <2>7 DEF ReadForCancel, Calls, Handling, Naming
  <2> QED
    BY <2>1, <2>2, <2>3, <2>4, <2>5, <2>6, <2>7 DEF Read
<1>3. stray' \in BOOLEAN
  BY DEF Read, ReadForCalculate, ReadForUpdate, ReadForClearance, ReadForApprove,
         ReadForDocuments, ReadForComplete, ReadForCancel, Typed, TypeOK
<1> QED
  BY <1>2, <1>3, TakeTyped

-----------------------------------------------------------------------------
(* What each write makes of a settlement.                                  *)

LEMMA Writer ==
    ASSUME Typed, NEW r \in Requests, req[r].step \in Naming
    PROVE  req[r].id \in Rows /\ fnf[req[r].id] \in Settlement
BY RowsFacts DEF Typed

LEMMA CalculationPuts ==
    ASSUME Typed, NEW r \in Requests, NEW amount \in Amounts, NEW due \in BOOLEAN,
           WriteCalculation(r, amount, due)
    PROVE  Puts(req[r].id, [fnf[req[r].id] EXCEPT !.status = "CALCULATED", !.amount = amount,
                                                  !.due = due])
<1> PICK i : i = req[r].id
  OBVIOUS
<1>1. i \in Rows /\ fnf[i] \in Settlement
  BY Writer DEF WriteCalculation, Naming
<1>2. [fnf[i] EXCEPT !.status = "CALCULATED", !.amount = amount, !.due = due] \in Settlement
  BY <1>1 DEF Settlement, Status
<1>3. fnf' = [fnf EXCEPT ![i] = [fnf[i] EXCEPT !.status = "CALCULATED", !.amount = amount,
                                               !.due = due]]
  BY <1>1 DEF WriteCalculation, Rows
<1> QED
  BY <1>1, <1>2, <1>3 DEF Puts

LEMMA UpdatePuts ==
    ASSUME Typed, NEW r \in Requests, NEW amount \in Amounts, WriteUpdate(r, amount)
    PROVE  Puts(req[r].id, [fnf[req[r].id] EXCEPT !.amount = amount])
<1>1. req[r].id \in Rows /\ fnf[req[r].id] \in Settlement
  BY Writer DEF WriteUpdate, Naming
<1>2. [fnf[req[r].id] EXCEPT !.amount = amount] \in Settlement
  BY <1>1 DEF Settlement
<1> QED
  BY <1>1, <1>2 DEF Puts, WriteUpdate

LEMMA ClearancePuts ==
    ASSUME Typed, NEW r \in Requests, NEW clearance \in Clearance, WriteClearance(r, clearance)
    PROVE  Puts(req[r].id, [fnf[req[r].id] EXCEPT !.clearance = clearance])
<1>1. req[r].id \in Rows /\ fnf[req[r].id] \in Settlement
  BY Writer DEF WriteClearance, Naming
<1>2. [fnf[req[r].id] EXCEPT !.clearance = clearance] \in Settlement
  BY <1>1 DEF Settlement
<1> QED
  BY <1>1, <1>2 DEF Puts, WriteClearance

LEMMA StatusPuts ==
    ASSUME Typed, NEW i \in Rows, NEW status \in Status, SetStatus(i, status)
    PROVE  Puts(i, [fnf[i] EXCEPT !.status = status])
<1>1. fnf[i] \in Settlement
  BY RowsFacts DEF Typed
<1>2. [fnf[i] EXCEPT !.status = status] \in Settlement
  BY <1>1 DEF Settlement
<1> QED
  BY <1>2 DEF Puts, SetStatus

LEMMA DocumentsPuts ==
    ASSUME Typed, NEW r \in Requests, WriteDocuments(r)
    PROVE  Puts(req[r].id, [fnf[req[r].id] EXCEPT !.status = "DOCUMENTS_GENERATED",
                                                  !.printed = req[r].amount])
<1> PICK i, amount : i = req[r].id /\ amount = req[r].amount
  OBVIOUS
<1>1. i \in Rows /\ fnf[i] \in Settlement /\ amount \in Amounts
  BY Writer, CallOfStep DEF WriteDocuments, Naming, Printing, Typed
<1>2. [fnf[i] EXCEPT !.status = "DOCUMENTS_GENERATED", !.printed = amount] \in Settlement
  BY <1>1 DEF Settlement, Status
<1>3. fnf' = [fnf EXCEPT ![i] = [fnf[i] EXCEPT !.status = "DOCUMENTS_GENERATED",
                                               !.printed = amount]]
  BY <1>1 DEF WriteDocuments, Rows
<1> QED
  BY <1>1, <1>2, <1>3 DEF Puts

LEMMA CreditPuts ==
    ASSUME Typed, NEW r \in Requests, CreditEncashment(r)
    PROVE  Puts(req[r].id, [fnf[req[r].id] EXCEPT !.credits = @ + 1])
<1>1. /\ req[r].id \in Rows /\ fnf[req[r].id] \in Settlement
      /\ fnf[req[r].id].credits < MaxCredits
  BY Writer DEF CreditEncashment, Naming
<1>2. fnf[req[r].id].credits + 1 \in 0..MaxCredits
  BY <1>1, FnfAssumption DEF Settlement
<1>3. [fnf[req[r].id] EXCEPT !.credits = @ + 1] \in Settlement
  BY <1>1, <1>2 DEF Settlement
<1> QED
  BY <1>1, <1>3 DEF Puts, CreditEncashment

LEMMA CompletionPuts ==
    ASSUME Typed, NEW r \in Requests, WriteCompletion(r)
    PROVE  Puts(req[r].id, [fnf[req[r].id] EXCEPT !.status = "COMPLETED", !.completed = TRUE])
<1> PICK i : i = req[r].id
  OBVIOUS
<1>1. i \in Rows /\ fnf[i] \in Settlement
  BY Writer DEF WriteCompletion, Naming
<1>2. [fnf[i] EXCEPT !.status = "COMPLETED", !.completed = TRUE] \in Settlement
  BY <1>1 DEF Settlement, Status
<1>3. fnf' = [fnf EXCEPT ![i] = [fnf[i] EXCEPT !.status = "COMPLETED", !.completed = TRUE]]
  BY <1>1 DEF WriteCompletion, Rows
<1> QED
  BY <1>1, <1>2, <1>3 DEF Puts

\* The three writes of the status alone.
LEMMA StatusWrites ==
    ASSUME Typed, NEW r \in Requests
    PROVE  /\ MarkPending(r) =>
                Puts(req[r].id, [fnf[req[r].id] EXCEPT !.status = "PENDING_CLEARANCE"])
           /\ WriteApproval(r) => Puts(req[r].id, [fnf[req[r].id] EXCEPT !.status = "APPROVED"])
           /\ WriteCancel(r) => Puts(req[r].id, [fnf[req[r].id] EXCEPT !.status = "CANCELLED"])
<1>1. MarkPending(r) \/ WriteApproval(r) \/ WriteCancel(r) => req[r].id \in Rows
  BY Writer DEF MarkPending, WriteApproval, WriteCancel, Naming
<1>2. {"PENDING_CLEARANCE", "APPROVED", "CANCELLED"} \subseteq Status
  BY DEF Status
<1> QED
  BY <1>1, <1>2, StatusPuts DEF MarkPending, WriteApproval, WriteCancel

\* Every write leaves the rows or puts one, or enters one; and the request goes
\* on with the same settlement, or is answered.
LEMMA WriteTyped ==
    ASSUME Typed, NEW r \in Requests, Write(r)
    PROVE  Typed'
<1>1. /\ raced' \in BOOLEAN /\ stray' \in BOOLEAN /\ faults' \in 0..MaxFaults
      /\ exiting' \in BOOLEAN /\ archived' \in BOOLEAN
  BY DEF Write, SetExitDate, CommitInitiate, WriteCalculation, WriteUpdate, WriteClearance,
         MarkPending, LeaveStatus, WriteApproval, WriteDocuments, CreditEncashment,
         WriteCompletion, Archive, WriteCancel, ClearExitDate, Go, Answer, Typed, TypeOK
<1>2. ASSUME Grows, NEW call \in Calls, call.step \in Naming => call.id \in Rows',
             req' = [req EXCEPT ![r] = call]
      PROVE  Typed'
  BY <1>1, <1>2, CallTyped
<1>3. ASSUME Grows, Answer(r) PROVE Typed'
  BY <1>2, <1>3, IdleCall DEF Answer, Go
<1>4. ASSUME NEW e, Puts(req[r].id, e), Answer(r) PROVE Typed'
  BY <1>3, <1>4, PutGrows DEF Typed
<1>5. CASE SetExitDate(r)
  <2> PICK call : call = [step |-> "inserting", clearance |-> req[r].clearance]
    OBVIOUS
  <2>1. call \in Calls /\ call.step \notin Naming
    BY <1>5, CallOfStep DEF SetExitDate, Calls, Initiating, Naming, Typed
  <2> QED
    BY <1>2, <1>5, <2>1, SameRows DEF SetExitDate, Go, Typed
<1>6. CASE CommitInitiate(r)
  <2> PICK e : e = [status |-> "INITIATED", clearance |-> req[r].clearance, amount |-> 0,
                    due |-> FALSE, printed |-> -1, credits |-> 0, completed |-> FALSE]
    OBVIOUS
  <2>1. e \in Settlement
    BY <1>6, CallOfStep, FnfAssumption
    DEF CommitInitiate, Settlement, Status, Amounts, Initiating, Typed
  <2>2. fnf' = Append(fnf, e) /\ Answer(r)
    BY <1>6 DEF CommitInitiate
  <2>3. Len(fnf) < MaxSettlements
    BY <1>6, FnfAssumption DEF CommitInitiate, Typed, TypeOK
  <2>4. Grows
    BY <2>1, <2>2, <2>3, EnterFacts DEF Grows, Typed
  <2> QED
    BY <1>3, <2>2, <2>4
<1>7. CASE \E amount \in Amounts :
             (\E due \in BOOLEAN : WriteCalculation(r, amount, due)) \/ WriteUpdate(r, amount)
  <2>1. \E e : Puts(req[r].id, e)
    BY <1>7, CalculationPuts, UpdatePuts
  <2>2. Answer(r)
    BY <1>7 DEF WriteCalculation, WriteUpdate
  <2> QED
    BY <1>4, <2>1, <2>2
<1>8. CASE \E clearance \in Clearance : WriteClearance(r, clearance)
  <2> PICK call : call = [step |-> "cleared", id |-> req[r].id, status |-> req[r].status]
    OBVIOUS
  <2>1. call \in Calls /\ req[r].id \in Rows
    BY <1>8, CallOfStep, Writer DEF WriteClearance, Calls, Clearing, Naming, Typed
  <2>2. PICK e : Puts(req[r].id, e)
    BY <1>8, ClearancePuts
  <2>3. Grows /\ Rows' = Rows
    BY <2>2, PutGrows, PutFacts DEF Typed
  <2> QED
    BY <1>2, <1>8, <2>1, <2>3 DEF WriteClearance, Go
<1>9. CASE MarkPending(r) \/ WriteApproval(r)
  <2>1. \E e : Puts(req[r].id, e)
    BY <1>9, StatusWrites
  <2>2. Answer(r)
    BY <1>9 DEF MarkPending, WriteApproval
  <2> QED
    BY <1>4, <2>1, <2>2
<1>10. CASE WriteDocuments(r)
  BY <1>4, <1>10, DocumentsPuts DEF WriteDocuments
<1>11. CASE LeaveStatus(r) \/ Archive(r) \/ ClearExitDate(r)
  BY <1>3, <1>11, SameRows DEF LeaveStatus, Archive, ClearExitDate, Typed
<1>12. CASE CreditEncashment(r) \/ WriteCompletion(r) \/ WriteCancel(r)
  <2>1. PICK e : Puts(req[r].id, e)
    BY <1>12, CreditPuts, CompletionPuts, StatusWrites
  <2>2. Grows /\ Rows' = Rows
    BY <2>1, PutGrows, PutFacts DEF Typed
  <2>3. PICK step \in {"completing", "archiving", "leaving"} : Go(r, [step |-> step, id |-> req[r].id])
    BY <1>12 DEF CreditEncashment, WriteCompletion, WriteCancel
  <2>4. req[r].id \in Rows /\ req[r].id \in Ids
    BY <1>12, Writer, RowsFacts
    DEF CreditEncashment, WriteCompletion, WriteCancel, Naming, Typed
  <2> PICK call : call = [step |-> step, id |-> req[r].id]
    OBVIOUS
  <2>5. call \in Calls /\ call.id \in Rows'
    BY <2>2, <2>4 DEF Calls, Handling
  <2> QED
    BY <1>2, <2>2, <2>3, <2>5 DEF Go
<1> QED
  BY <1>5, <1>6, <1>7, <1>8, <1>9, <1>10, <1>11, <1>12 DEF Write

LEMMA StopTyped ==
    ASSUME Typed, NEW r \in Requests, Stop(r)
    PROVE  Typed'
<1>1. Grows
  BY SameRows DEF Stop, Typed
<1>2. faults' \in 0..MaxFaults
  BY FnfAssumption DEF Stop, Typed, TypeOK
<1>3. /\ exiting' \in BOOLEAN /\ archived' \in BOOLEAN /\ raced' \in BOOLEAN
      /\ stray' \in BOOLEAN /\ req' = [req EXCEPT ![r] = Idle]
  BY DEF Stop, Typed, TypeOK
<1> QED
  BY <1>1, <1>2, <1>3, IdleCall, CallTyped

LEMMA InitTyped == Init => Typed
<1> SUFFICES ASSUME Init PROVE Typed
  OBVIOUS
<1>1. fnf \in Seq(Settlement) /\ Len(fnf) <= MaxSettlements
  BY FnfAssumption DEF Init
<1>2. req \in [Requests -> Calls]
  BY DEF Init, Calls
<1>3. \A r \in Requests : req[r].step \notin Naming
  BY IdleCall DEF Init
<1>4. faults \in 0..MaxFaults
  BY FnfAssumption DEF Init
<1>5. /\ exiting \in BOOLEAN /\ archived \in BOOLEAN /\ raced \in BOOLEAN
      /\ stray \in BOOLEAN
  BY DEF Init
<1> QED
  BY <1>1, <1>2, <1>3, <1>4, <1>5 DEF Typed, TypeOK, Calls

LEMMA TypedStep == Typed /\ [Next]_vars => Typed'
<1> SUFFICES ASSUME Typed, [Next]_vars PROVE Typed'
  OBVIOUS
<1>1. CASE UNCHANGED vars
  BY <1>1 DEF vars, Typed, TypeOK, Rows
<1> QED
  BY <1>1, InitiateTyped, ReadTyped, WriteTyped, StopTyped DEF Next

LEMMA AlwaysTyped == Spec => []Typed
<1> QED
  BY InitTyped, TypedStep, PTL DEF Spec

\* Every variable keeps its type, and no request loses its settlement.
THEOREM TypeCorrect == Spec => []TypeOK
<1>1. Typed => TypeOK
  BY DEF Typed
<1> QED
  BY <1>1, AlwaysTyped, PTL

-----------------------------------------------------------------------------
(* What a request knows of its settlement while it waits.  alone: no two   *)
(* requests have overlapped; tidy: no documents were asked for too early.  *)

GoodRow(e, alone) ==
    /\ e.status = "DOCUMENTS_GENERATED" \/ e.completed => e.printed # -1
    /\ alone /\ e.status \in {"DOCUMENTS_GENERATED", "COMPLETED"} => e.printed = e.amount
    /\ alone /\ e.completed =>
          /\ e.status \in {"DOCUMENTS_GENERATED", "COMPLETED", "CANCELLED"}
          /\ e.due => e.credits >= 1

\* Whatever overlaps.
Holds(c, e) ==
    /\ c.step \in {"paying", "completing", "archiving"} => e.printed # -1
    /\ c.step = "archiving" => e.completed

\* As long as nothing overlaps.
Knows(c, e, tidy) ==
    /\ c.step = "calculating" => e.status = "INITIATED"
    /\ c.step \in {"amending", "approving"} => e.status \in {"CALCULATED", "PENDING_CLEARANCE"}
    /\ c.step \in {"clearing", "cleared"} => e.status = c.status /\ e.status \notin Over
    /\ c.step = "printing" =>
          e.amount = c.amount /\ (tidy => e.status \in {"APPROVED", "DOCUMENTS_GENERATED"})
    /\ c.step \in {"paying", "completing"} => e.status = "DOCUMENTS_GENERATED"
    /\ c.step = "completing" => (e.due => e.credits >= 1)
    /\ c.step = "cancelling" => e.status \notin Over
    /\ c.step = "leaving" => e.status = "CANCELLED"

Alone == ~raced => \A r, s \in Requests : req[r] # Idle /\ req[s] # Idle => r = s

Settled ==
    /\ \A i \in Rows : GoodRow(fnf[i], ~raced)
    /\ \A r \in Requests : req[r].step \in Naming =>
          /\ Holds(req[r], fnf[req[r].id])
          /\ ~raced => Knows(req[r], fnf[req[r].id], ~stray)

Kept == Alone /\ Settled

\* An encashment is credited once.
OnceRow(e, completing) ==
    e.credits <= 1 /\ (e.credits = 0 \/ e.status = "COMPLETED" \/ completing)

Completing(i) == \E r \in Requests : req[r].step = "completing" /\ req[r].id = i

Once == Orderly /\ ~stray => \A i \in Rows : OnceRow(fnf[i], Completing(i))

Completed == archived => \E i \in Rows : fnf[i].completed

Reason ==
    Orderly /\ exiting =>
        \/ \E i \in Rows : fnf[i].status # "CANCELLED"
        \/ \E r \in Requests : req[r].step \in {"inserting", "leaving"}

\* What becomes of a settlement d that call c has read: the row e, and the
\* request goes on with call f.
Effect(d, c, e, f, alone, tidy) ==
    /\ GoodRow(e, alone) /\ Holds(f, e) /\ (alone => Knows(f, e, tidy))
    /\ (d.printed # -1 => e.printed # -1) /\ (d.completed => e.completed)
    /\ alone /\ tidy => d.status = e.status \/ <<d.status, e.status>> \in Record!Table
    /\ alone /\ tidy /\ OnceRow(d, c.step = "completing") => OnceRow(e, f.step = "completing")
    /\ alone => e.status # "CANCELLED" \/ f.step = "leaving"

\* Request r writes its settlement and goes on with call f.
Moves(r, e, f) ==
    /\ req[r].step \in Naming /\ Puts(req[r].id, e) /\ Go(r, f)
    /\ f.step \in Naming => f.id = req[r].id
    /\ f.step # "inserting"
    /\ Effect(fnf[req[r].id], req[r], e, f, ~raced, ~stray)
    /\ UNCHANGED <<exiting, archived>>

LEMMA WriterKnows ==
    ASSUME Typed, Settled, NEW r \in Requests, req[r].step \in Naming
    PROVE  /\ req[r].id \in Rows /\ fnf[req[r].id] \in Settlement
           /\ GoodRow(fnf[req[r].id], ~raced) /\ Holds(req[r], fnf[req[r].id])
           /\ ~raced => Knows(req[r], fnf[req[r].id], ~stray)
BY Writer DEF Settled

\* d, e: the settlement before and after; c, f: the request before and after.
LEMMA CalculationEffect ==
    ASSUME NEW d \in Settlement, NEW c, NEW alone \in BOOLEAN, NEW tidy \in BOOLEAN,
           GoodRow(d, alone), Holds(c, d), alone => Knows(c, d, tidy),
           c.step = "calculating", NEW amount \in Amounts, NEW due \in BOOLEAN
    PROVE  Effect(d, c, [d EXCEPT !.status = "CALCULATED", !.amount = amount, !.due = due],
                  Idle, alone, tidy)
<1> PICK e, f : e = [d EXCEPT !.status = "CALCULATED", !.amount = amount, !.due = due]
             /\ f = Idle
  OBVIOUS
<1>1. /\ e.status = "CALCULATED" /\ e.printed = d.printed /\ e.completed = d.completed
      /\ e.credits = d.credits /\ f.step = "idle"
  BY DEF Settlement, Idle
<1>2. GoodRow(e, alone)
  BY <1>1 DEF GoodRow, Knows, Holds, Settlement, Amounts, Over
<1>3. Holds(f, e) /\ (alone => Knows(f, e, tidy))
  BY <1>1 DEF Knows, Holds, Settlement, Over
<1>4. alone /\ tidy /\ OnceRow(d, c.step = "completing") => OnceRow(e, f.step = "completing")
  BY <1>1 DEF Knows, OnceRow, Settlement, Over
<1>5. (d.printed # -1 => e.printed # -1) /\ (d.completed => e.completed)
  BY <1>1 DEF Amounts
<1>6. /\ alone /\ tidy => d.status = e.status \/ <<d.status, e.status>> \in Record!Table
      /\ alone => e.status # "CANCELLED" \/ f.step = "leaving"
  BY <1>1 DEF Knows, Over, Settlement, Status, Record!Table
<1> QED
  BY <1>2, <1>3, <1>4, <1>5, <1>6 DEF Effect

LEMMA UpdateEffect ==
    ASSUME NEW d \in Settlement, NEW c, NEW alone \in BOOLEAN, NEW tidy \in BOOLEAN,
           GoodRow(d, alone), Holds(c, d), alone => Knows(c, d, tidy),
           c.step = "amending", NEW amount \in Amounts
    PROVE  Effect(d, c, [d EXCEPT !.amount = amount],
                  Idle, alone, tidy)
<1> PICK e, f : e = [d EXCEPT !.amount = amount]
             /\ f = Idle
  OBVIOUS
<1>1. /\ e.status = d.status /\ e.printed = d.printed /\ e.completed = d.completed
      /\ e.due = d.due /\ e.credits = d.credits /\ f.step = "idle"
  BY DEF Settlement, Idle
<1>2. GoodRow(e, alone)
  BY <1>1 DEF GoodRow, Knows, Holds, Settlement, Amounts, Over
<1>3. Holds(f, e) /\ (alone => Knows(f, e, tidy))
  BY <1>1 DEF Knows, Holds, Settlement, Over
<1>4. alone /\ tidy /\ OnceRow(d, c.step = "completing") => OnceRow(e, f.step = "completing")
  BY <1>1 DEF Knows, OnceRow, Settlement, Over
<1>5. (d.printed # -1 => e.printed # -1) /\ (d.completed => e.completed)
  BY <1>1 DEF Amounts
<1>6. /\ alone /\ tidy => d.status = e.status \/ <<d.status, e.status>> \in Record!Table
      /\ alone => e.status # "CANCELLED" \/ f.step = "leaving"
  BY <1>1 DEF Knows, Over, Settlement, Status, Record!Table
<1> QED
  BY <1>2, <1>3, <1>4, <1>5, <1>6 DEF Effect

LEMMA ClearanceEffect ==
    ASSUME NEW d \in Settlement, NEW c, NEW alone \in BOOLEAN, NEW tidy \in BOOLEAN,
           GoodRow(d, alone), Holds(c, d), alone => Knows(c, d, tidy),
           c.step = "clearing", NEW i, NEW clearance \in Clearance
    PROVE  Effect(d, c, [d EXCEPT !.clearance = clearance],
                  [step |-> "cleared", id |-> i, status |-> c.status], alone, tidy)
<1> PICK e, f : e = [d EXCEPT !.clearance = clearance]
             /\ f = [step |-> "cleared", id |-> i, status |-> c.status]
  OBVIOUS
<1>1. /\ e.status = d.status /\ e.printed = d.printed /\ e.completed = d.completed
      /\ e.due = d.due /\ e.credits = d.credits /\ e.amount = d.amount
      /\ f.step = "cleared" /\ f.status = c.status
  BY DEF Settlement, Idle
<1>2. GoodRow(e, alone)
  BY <1>1 DEF GoodRow, Knows, Holds, Settlement, Amounts, Over
<1>3. Holds(f, e) /\ (alone => Knows(f, e, tidy))
  BY <1>1 DEF Knows, Holds, Settlement, Over
<1>4. alone /\ tidy /\ OnceRow(d, c.step = "completing") => OnceRow(e, f.step = "completing")
  BY <1>1 DEF Knows, OnceRow, Settlement, Over
<1>5. (d.printed # -1 => e.printed # -1) /\ (d.completed => e.completed)
  BY <1>1 DEF Amounts
<1>6. /\ alone /\ tidy => d.status = e.status \/ <<d.status, e.status>> \in Record!Table
      /\ alone => e.status # "CANCELLED" \/ f.step = "leaving"
  BY <1>1 DEF Knows, Over, Settlement, Status, Record!Table
<1> QED
  BY <1>2, <1>3, <1>4, <1>5, <1>6 DEF Effect

LEMMA PendingEffect ==
    ASSUME NEW d \in Settlement, NEW c, NEW alone \in BOOLEAN, NEW tidy \in BOOLEAN,
           GoodRow(d, alone), Holds(c, d), alone => Knows(c, d, tidy),
           c.step = "cleared", c.status = "CALCULATED"
    PROVE  Effect(d, c, [d EXCEPT !.status = "PENDING_CLEARANCE"],
                  Idle, alone, tidy)
<1> PICK e, f : e = [d EXCEPT !.status = "PENDING_CLEARANCE"]
             /\ f = Idle
  OBVIOUS
<1>1. /\ e.status = "PENDING_CLEARANCE" /\ e.printed = d.printed /\ e.completed = d.completed
      /\ e.due = d.due /\ e.credits = d.credits /\ e.amount = d.amount
      /\ f.step = "idle"
  BY DEF Settlement, Idle
<1>2. GoodRow(e, alone)
  BY <1>1 DEF GoodRow, Knows, Holds, Settlement, Amounts, Over
<1>3. Holds(f, e) /\ (alone => Knows(f, e, tidy))
  BY <1>1 DEF Knows, Holds, Settlement, Over
<1>4. alone /\ tidy /\ OnceRow(d, c.step = "completing") => OnceRow(e, f.step = "completing")
  BY <1>1 DEF Knows, OnceRow, Settlement, Over
<1>5. (d.printed # -1 => e.printed # -1) /\ (d.completed => e.completed)
  BY <1>1 DEF Amounts
<1>6. /\ alone /\ tidy => d.status = e.status \/ <<d.status, e.status>> \in Record!Table
      /\ alone => e.status # "CANCELLED" \/ f.step = "leaving"
  BY <1>1 DEF Knows, Over, Settlement, Status, Record!Table
<1> QED
  BY <1>2, <1>3, <1>4, <1>5, <1>6 DEF Effect

LEMMA ApprovalEffect ==
    ASSUME NEW d \in Settlement, NEW c, NEW alone \in BOOLEAN, NEW tidy \in BOOLEAN,
           GoodRow(d, alone), Holds(c, d), alone => Knows(c, d, tidy),
           c.step = "approving"
    PROVE  Effect(d, c, [d EXCEPT !.status = "APPROVED"],
                  Idle, alone, tidy)
<1> PICK e, f : e = [d EXCEPT !.status = "APPROVED"]
             /\ f = Idle
  OBVIOUS
<1>1. /\ e.status = "APPROVED" /\ e.printed = d.printed /\ e.completed = d.completed
      /\ e.due = d.due /\ e.credits = d.credits /\ e.amount = d.amount
      /\ f.step = "idle"
  BY DEF Settlement, Idle
<1>2. GoodRow(e, alone)
  BY <1>1 DEF GoodRow, Knows, Holds, Settlement, Amounts, Over
<1>3. Holds(f, e) /\ (alone => Knows(f, e, tidy))
  BY <1>1 DEF Knows, Holds, Settlement, Over
<1>4. alone /\ tidy /\ OnceRow(d, c.step = "completing") => OnceRow(e, f.step = "completing")
  BY <1>1 DEF Knows, OnceRow, Settlement, Over
<1>5. (d.printed # -1 => e.printed # -1) /\ (d.completed => e.completed)
  BY <1>1 DEF Amounts
<1>6. /\ alone /\ tidy => d.status = e.status \/ <<d.status, e.status>> \in Record!Table
      /\ alone => e.status # "CANCELLED" \/ f.step = "leaving"
  BY <1>1 DEF Knows, Over, Settlement, Status, Record!Table
<1> QED
  BY <1>2, <1>3, <1>4, <1>5, <1>6 DEF Effect

LEMMA CancelEffect ==
    ASSUME NEW d \in Settlement, NEW c, NEW alone \in BOOLEAN, NEW tidy \in BOOLEAN,
           GoodRow(d, alone), Holds(c, d), alone => Knows(c, d, tidy),
           c.step = "cancelling", NEW i
    PROVE  Effect(d, c, [d EXCEPT !.status = "CANCELLED"],
                  [step |-> "leaving", id |-> i], alone, tidy)
<1> PICK e, f : e = [d EXCEPT !.status = "CANCELLED"]
             /\ f = [step |-> "leaving", id |-> i]
  OBVIOUS
<1>1. /\ e.status = "CANCELLED" /\ e.printed = d.printed /\ e.completed = d.completed
      /\ e.due = d.due /\ e.credits = d.credits /\ e.amount = d.amount
      /\ f.step = "leaving"
  BY DEF Settlement, Idle
<1>2. GoodRow(e, alone)
  BY <1>1 DEF GoodRow, Knows, Holds, Settlement, Amounts, Over
<1>3. Holds(f, e) /\ (alone => Knows(f, e, tidy))
  BY <1>1 DEF Knows, Holds, Settlement, Over
<1>4. alone /\ tidy /\ OnceRow(d, c.step = "completing") => OnceRow(e, f.step = "completing")
  BY <1>1 DEF Knows, OnceRow, Settlement, Over
<1>5. (d.printed # -1 => e.printed # -1) /\ (d.completed => e.completed)
  BY <1>1 DEF Amounts
<1>6. /\ alone /\ tidy => d.status = e.status \/ <<d.status, e.status>> \in Record!Table
      /\ alone => e.status # "CANCELLED" \/ f.step = "leaving"
  BY <1>1 DEF Knows, Over, Settlement, Status, Record!Table
<1> QED
  BY <1>2, <1>3, <1>4, <1>5, <1>6 DEF Effect

LEMMA DocumentsEffect ==
    ASSUME NEW d \in Settlement, NEW c, NEW alone \in BOOLEAN, NEW tidy \in BOOLEAN,
           GoodRow(d, alone), Holds(c, d), alone => Knows(c, d, tidy),
           c.step = "printing", c.amount \in Amounts
    PROVE  Effect(d, c, [d EXCEPT !.status = "DOCUMENTS_GENERATED", !.printed = c.amount],
                  Idle, alone, tidy)
<1> PICK e, f : e = [d EXCEPT !.status = "DOCUMENTS_GENERATED", !.printed = c.amount]
             /\ f = Idle
  OBVIOUS
<1>1. /\ e.status = "DOCUMENTS_GENERATED" /\ e.printed = c.amount /\ e.completed = d.completed
      /\ e.due = d.due /\ e.credits = d.credits /\ e.amount = d.amount
      /\ f.step = "idle"
  BY DEF Settlement, Idle
<1>2. GoodRow(e, alone)
  BY <1>1 DEF GoodRow, Knows, Holds, Settlement, Amounts, Over
<1>3. Holds(f, e) /\ (alone => Knows(f, e, tidy))
  BY <1>1 DEF Knows, Holds, Settlement, Over
<1>4. alone /\ tidy /\ OnceRow(d, c.step = "completing") => OnceRow(e, f.step = "completing")
  BY <1>1 DEF Knows, OnceRow, Settlement, Over
<1>5. (d.printed # -1 => e.printed # -1) /\ (d.completed => e.completed)
  BY <1>1 DEF Amounts
<1>6. /\ alone /\ tidy => d.status = e.status \/ <<d.status, e.status>> \in Record!Table
      /\ alone => e.status # "CANCELLED" \/ f.step = "leaving"
  BY <1>1 DEF Knows, Over, Settlement, Status, Record!Table
<1> QED
  BY <1>2, <1>3, <1>4, <1>5, <1>6 DEF Effect

LEMMA CreditEffect ==
    ASSUME NEW d \in Settlement, NEW c, NEW alone \in BOOLEAN, NEW tidy \in BOOLEAN,
           GoodRow(d, alone), Holds(c, d), alone => Knows(c, d, tidy),
           c.step = "paying", NEW i
    PROVE  Effect(d, c, [d EXCEPT !.credits = @ + 1],
                  [step |-> "completing", id |-> i], alone, tidy)
<1> PICK e, f : e = [d EXCEPT !.credits = @ + 1]
             /\ f = [step |-> "completing", id |-> i]
  OBVIOUS
<1>1. /\ e.status = d.status /\ e.printed = d.printed /\ e.completed = d.completed
      /\ e.due = d.due /\ e.credits = d.credits + 1 /\ e.amount = d.amount
      /\ f.step = "completing"
  BY DEF Settlement, Idle
<1>2. GoodRow(e, alone)
  BY <1>1 DEF GoodRow, Knows, Holds, Settlement, Amounts, Over
<1>3. Holds(f, e) /\ (alone => Knows(f, e, tidy))
  BY <1>1 DEF Knows, Holds, Settlement, Over
<1>4. alone /\ tidy /\ OnceRow(d, c.step = "completing") => OnceRow(e, f.step = "completing")
  BY <1>1 DEF Knows, OnceRow, Settlement, Over
<1>5. (d.printed # -1 => e.printed # -1) /\ (d.completed => e.completed)
  BY <1>1 DEF Amounts
<1>6. /\ alone /\ tidy => d.status = e.status \/ <<d.status, e.status>> \in Record!Table
      /\ alone => e.status # "CANCELLED" \/ f.step = "leaving"
  BY <1>1 DEF Knows, Over, Settlement, Status, Record!Table
<1> QED
  BY <1>2, <1>3, <1>4, <1>5, <1>6 DEF Effect

LEMMA CompletionEffect ==
    ASSUME NEW d \in Settlement, NEW c, NEW alone \in BOOLEAN, NEW tidy \in BOOLEAN,
           GoodRow(d, alone), Holds(c, d), alone => Knows(c, d, tidy),
           c.step = "completing", NEW i
    PROVE  Effect(d, c, [d EXCEPT !.status = "COMPLETED", !.completed = TRUE],
                  [step |-> "archiving", id |-> i], alone, tidy)
<1> PICK e, f : e = [d EXCEPT !.status = "COMPLETED", !.completed = TRUE]
             /\ f = [step |-> "archiving", id |-> i]
  OBVIOUS
<1>1. /\ e.status = "COMPLETED" /\ e.printed = d.printed /\ e.completed
      /\ e.due = d.due /\ e.credits = d.credits /\ e.amount = d.amount
      /\ f.step = "archiving"
  BY DEF Settlement, Idle
<1>2. GoodRow(e, alone)
  BY <1>1 DEF GoodRow, Knows, Holds, Settlement, Amounts, Over
<1>3. Holds(f, e) /\ (alone => Knows(f, e, tidy))
  BY <1>1 DEF Knows, Holds, Settlement, Over
<1>4. alone /\ tidy /\ OnceRow(d, c.step = "completing") => OnceRow(e, f.step = "completing")
  BY <1>1 DEF Knows, OnceRow, Settlement, Over
<1>5. (d.printed # -1 => e.printed # -1) /\ (d.completed => e.completed)
  BY <1>1 DEF Amounts
<1>6. /\ alone /\ tidy => d.status = e.status \/ <<d.status, e.status>> \in Record!Table
      /\ alone => e.status # "CANCELLED" \/ f.step = "leaving"
  BY <1>1 DEF Knows, Over, Settlement, Status, Record!Table
<1> QED
  BY <1>2, <1>3, <1>4, <1>5, <1>6 DEF Effect

\* The writes of one settlement.
MovesWrite(r) ==
    \/ \E amount \in Amounts :
         (\E due \in BOOLEAN : WriteCalculation(r, amount, due)) \/ WriteUpdate(r, amount)
    \/ (\E clearance \in Clearance : WriteClearance(r, clearance))
    \/ MarkPending(r) \/ WriteApproval(r) \/ WriteDocuments(r)
    \/ CreditEncashment(r) \/ WriteCompletion(r) \/ WriteCancel(r)

LEMMA WritesMove ==
    ASSUME Typed, Settled, NEW r \in Requests, MovesWrite(r)
    PROVE  \E e, f : Moves(r, e, f)
<1> PICK d, c, i : c = req[r] /\ i = req[r].id /\ d = fnf[i]
  OBVIOUS
<1> PICK alone, tidy : alone = ~raced /\ tidy = ~stray
  OBVIOUS
<1>0. alone \in BOOLEAN /\ tidy \in BOOLEAN
  OBVIOUS
<1>1. /\ c.step \in Naming
      /\ MarkPending(r) => c.status = "CALCULATED"
      /\ WriteDocuments(r) => c.amount \in Amounts
  BY CallOfStep DEF MovesWrite, WriteCalculation, WriteUpdate, WriteClearance, MarkPending,
     WriteApproval, WriteDocuments, CreditEncashment, WriteCompletion, WriteCancel, Naming,
     Printing, Typed
<1>2. d \in Settlement /\ GoodRow(d, alone) /\ Holds(c, d) /\ (alone => Knows(c, d, tidy))
  BY <1>1, WriterKnows
<1>3. ASSUME NEW e, NEW f, Puts(i, e), Go(r, f), f.step \in Naming => f.id = i,
             f.step # "inserting", Effect(d, c, e, f, alone, tidy), UNCHANGED <<exiting, archived>>
      PROVE  \E x, y : Moves(r, x, y)
  BY <1>1, <1>3 DEF Moves
<1>4. Idle.step \notin Naming /\ Idle.step # "inserting"
  BY DEF Idle, Naming
<1>5. CASE \E amount \in Amounts, due \in BOOLEAN : WriteCalculation(r, amount, due)
  <2> PICK amount \in Amounts, due \in BOOLEAN : WriteCalculation(r, amount, due)
    BY <1>5
  <2>1. c.step = "calculating" /\ Go(r, Idle) /\ UNCHANGED <<exiting, archived>>
    BY DEF WriteCalculation, Answer
  <2> PICK e : e = [d EXCEPT !.status = "CALCULATED", !.amount = amount, !.due = due]
    OBVIOUS
  <2>2. Puts(i, e) /\ Effect(d, c, e, Idle, alone, tidy)
    BY <1>0, <1>2, <2>1, CalculationPuts, CalculationEffect
  <2> QED
    BY <1>3, <1>4, <2>1, <2>2
<1>6. CASE \E amount \in Amounts : WriteUpdate(r, amount)
  <2> PICK amount \in Amounts : WriteUpdate(r, amount)
    BY <1>6
  <2>1. c.step = "amending" /\ Go(r, Idle) /\ UNCHANGED <<exiting, archived>>
    BY DEF WriteUpdate, Answer
  <2> PICK e : e = [d EXCEPT !.amount = amount]
    OBVIOUS
  <2>2. Puts(i, e) /\ Effect(d, c, e, Idle, alone, tidy)
    BY <1>0, <1>2, <2>1, UpdatePuts, UpdateEffect
  <2> QED
    BY <1>3, <1>4, <2>1, <2>2
<1>7. CASE \E clearance \in Clearance : WriteClearance(r, clearance)
  <2> PICK clearance \in Clearance : WriteClearance(r, clearance)
    BY <1>7
  <2> PICK e, f : /\ e = [d EXCEPT !.clearance = clearance]
                  /\ f = [step |-> "cleared", id |-> i, status |-> c.status]
    OBVIOUS
  <2>1. c.step = "clearing" /\ Go(r, f) /\ UNCHANGED <<exiting, archived>>
    BY DEF WriteClearance
  <2>2. f.step # "inserting" /\ f.id = i
    OBVIOUS
  <2>3. Puts(i, e) /\ Effect(d, c, e, f, alone, tidy)
    BY <1>0, <1>2, <2>1, ClearancePuts, ClearanceEffect
  <2> QED
    BY <1>3, <2>1, <2>2, <2>3
<1>8. CASE MarkPending(r)
  <2> PICK e : e = [d EXCEPT !.status = "PENDING_CLEARANCE"]
    OBVIOUS
  <2>1. c.step = "cleared" /\ Go(r, Idle) /\ UNCHANGED <<exiting, archived>>
    BY <1>8 DEF MarkPending, Answer
  <2>2. Puts(i, e) /\ Effect(d, c, e, Idle, alone, tidy)
    BY <1>0, <1>1, <1>2, <1>8, <2>1, StatusWrites, PendingEffect
  <2> QED
    BY <1>3, <1>4, <2>1, <2>2
<1>9. CASE WriteApproval(r)
  <2> PICK e : e = [d EXCEPT !.status = "APPROVED"]
    OBVIOUS
  <2>1. c.step = "approving" /\ Go(r, Idle) /\ UNCHANGED <<exiting, archived>>
    BY <1>9 DEF WriteApproval, Answer
  <2>2. Puts(i, e) /\ Effect(d, c, e, Idle, alone, tidy)
    BY <1>0, <1>1, <1>2, <1>9, <2>1, StatusWrites, ApprovalEffect
  <2> QED
    BY <1>3, <1>4, <2>1, <2>2
<1>10. CASE WriteDocuments(r)
  <2> PICK e : e = [d EXCEPT !.status = "DOCUMENTS_GENERATED", !.printed = c.amount]
    OBVIOUS
  <2>1. c.step = "printing" /\ Go(r, Idle) /\ UNCHANGED <<exiting, archived>>
    BY <1>10 DEF WriteDocuments, Answer
  <2>2. Puts(i, e) /\ Effect(d, c, e, Idle, alone, tidy)
    BY <1>0, <1>1, <1>2, <1>10, <2>1, DocumentsPuts, DocumentsEffect
  <2> QED
    BY <1>3, <1>4, <2>1, <2>2
<1>11. CASE CreditEncashment(r)
  <2> PICK e, f : e = [d EXCEPT !.credits = @ + 1] /\ f = [step |-> "completing", id |-> i]
    OBVIOUS
  <2>1. c.step = "paying" /\ Go(r, f) /\ UNCHANGED <<exiting, archived>>
    BY <1>11 DEF CreditEncashment
  <2>2. f.step # "inserting" /\ f.id = i
    OBVIOUS
  <2>3. Puts(i, e) /\ Effect(d, c, e, f, alone, tidy)
    BY <1>0, <1>2, <1>11, <2>1, CreditPuts, CreditEffect
  <2> QED
    BY <1>3, <2>1, <2>2, <2>3
<1>12. CASE WriteCompletion(r)
  <2> PICK e, f : e = [d EXCEPT !.status = "COMPLETED", !.completed = TRUE] /\ f = [step |-> "archiving", id |-> i]
    OBVIOUS
  <2>1. c.step = "completing" /\ Go(r, f) /\ UNCHANGED <<exiting, archived>>
    BY <1>12 DEF WriteCompletion
  <2>2. f.step # "inserting" /\ f.id = i
    OBVIOUS
  <2>3. Puts(i, e) /\ Effect(d, c, e, f, alone, tidy)
    BY <1>0, <1>2, <1>12, <2>1, CompletionPuts, CompletionEffect
  <2> QED
    BY <1>3, <2>1, <2>2, <2>3
<1>13. CASE WriteCancel(r)
  <2> PICK e, f : e = [d EXCEPT !.status = "CANCELLED"] /\ f = [step |-> "leaving", id |-> i]
    OBVIOUS
  <2>1. c.step = "cancelling" /\ Go(r, f) /\ UNCHANGED <<exiting, archived>>
    BY <1>13 DEF WriteCancel
  <2>2. f.step # "inserting" /\ f.id = i
    OBVIOUS
  <2>3. Puts(i, e) /\ Effect(d, c, e, f, alone, tidy)
    BY <1>0, <1>2, <1>13, <2>1, StatusWrites, CancelEffect
  <2> QED
    BY <1>3, <2>1, <2>2, <2>3
<1> QED
  BY <1>5, <1>6, <1>7, <1>8, <1>9, <1>10, <1>11, <1>12, <1>13 DEF MovesWrite

\* What is where after such a write.
LEMMA Moved ==
    ASSUME Typed, NEW r \in Requests, NEW e, NEW f, NEW i, Puts(i, e), Go(r, f)
    PROVE  /\ Rows' = Rows /\ fnf'[i] = e /\ \A j \in Rows : j # i => fnf'[j] = fnf[j]
           /\ req'[r] = f /\ \A s \in Requests : s # r => req'[s] = req[s]
<1>1. Rows' = Rows /\ fnf'[i] = e /\ \A j \in Rows : j # i => fnf'[j] = fnf[j]
  BY PutFacts DEF Typed
<1>2. req'[r] = f /\ \A s \in Requests : s # r => req'[s] = req[s]
  BY ReqAfter DEF Typed, Go
<1> QED
  BY <1>1, <1>2

LEMMA MovesKept ==
    ASSUME Typed, Kept, NEW r \in Requests, NEW e, NEW f, Moves(r, e, f)
    PROVE  Kept'
<1> PICK i, alone, tidy : i = req[r].id /\ alone = ~raced /\ tidy = ~stray
  OBVIOUS
<1>1. /\ Puts(i, e) /\ req' = [req EXCEPT ![r] = f] /\ Go(r, f) /\ raced' = raced /\ stray' = stray
      /\ f.step \in Naming => f.id = i
      /\ Effect(fnf[i], req[r], e, f, alone, tidy) /\ req[r] # Idle
  BY IdleCall DEF Moves, Go
<1>2. /\ Rows' = Rows /\ fnf'[i] = e /\ \A j \in Rows : j # i => fnf'[j] = fnf[j]
      /\ req'[r] = f /\ \A s \in Requests : s # r => req'[s] = req[s]
  BY <1>1, Moved
<1>3. Alone'
  BY <1>1, <1>2 DEF Kept, Alone
<1>4. \A j \in Rows' : GoodRow(fnf'[j], alone)
  BY <1>1, <1>2 DEF Kept, Settled, Effect
<1>5. ASSUME NEW s \in Requests, req'[s].step \in Naming
      PROVE  Holds(req'[s], fnf'[req'[s].id]) /\ (alone => Knows(req'[s], fnf'[req'[s].id], tidy))
  <2>1. CASE s = r
    BY <1>1, <1>2, <1>5, <2>1 DEF Effect
  <2>2. CASE s # r
    <3>1. req'[s] = req[s] /\ req[s] # Idle /\ req[s].id \in Rows
      BY <1>2, <1>5, <2>2, IdleCall DEF Typed
    <3>2. ~alone
      BY <1>1, <2>2, <3>1 DEF Kept, Alone
    <3>3. Holds(req[s], fnf[req[s].id])
      BY <1>5, <3>1 DEF Kept, Settled
    <3>4. Holds(req[s], fnf'[req[s].id])
      BY <1>1, <1>2, <3>1, <3>3 DEF Holds, Effect
    <3> QED
      BY <3>1, <3>2, <3>4
  <2> QED
    BY <2>1, <2>2
<1>6. Settled'
  BY <1>1, <1>4, <1>5 DEF Settled
<1> QED
  BY <1>3, <1>6 DEF Kept

LEMMA MovesOnce ==
    ASSUME Typed, Kept, Once, NEW r \in Requests, NEW e, NEW f, Moves(r, e, f)
    PROVE  Once'
<1> PICK i : i = req[r].id
  OBVIOUS
<1>1. /\ Puts(i, e) /\ req' = [req EXCEPT ![r] = f] /\ Go(r, f) /\ raced' = raced /\ stray' = stray
      /\ faults' = faults /\ Effect(fnf[i], req[r], e, f, ~raced, ~stray) /\ req[r] # Idle
      /\ f.step \in Naming => f.id = i
  BY IdleCall DEF Moves, Go
<1>2. /\ Rows' = Rows /\ fnf'[i] = e /\ \A j \in Rows : j # i => fnf'[j] = fnf[j]
      /\ req'[r] = f /\ \A s \in Requests : s # r => req'[s] = req[s]
  BY <1>1, Moved
<1> SUFFICES ASSUME ~raced, faults = 0, ~stray, NEW j \in Rows
             PROVE  OnceRow(fnf'[j], Completing(j)')
  BY <1>1, <1>2 DEF Once, Orderly
<1>3. OnceRow(fnf[j], Completing(j))
  BY DEF Once, Orderly
<1>4. CASE j # i
  <2>1. Completing(j) => Completing(j)'
    BY <1>2, <1>4 DEF Completing
  <2> QED
    BY <1>2, <1>3, <1>4, <2>1 DEF OnceRow
<1>5. CASE j = i
  <2>1. Completing(i) => req[r].step = "completing"
    <3>1. \A s \in Requests : req[s].step = "completing" => req[s] # Idle
      BY DEF Idle
    <3> QED
      BY <1>1, <3>1 DEF Completing, Kept, Alone
  <2>2. OnceRow(fnf[i], req[r].step = "completing")
    BY <1>3, <1>5, <2>1 DEF OnceRow
  <2>3. OnceRow(e, f.step = "completing")
    BY <1>1, <2>2 DEF Effect
  <2>4. f.step = "completing" => Completing(i)'
    BY <1>1, <1>2 DEF Completing, Naming
  <2> QED
    BY <1>2, <1>5, <2>3, <2>4 DEF OnceRow
<1> QED
  BY <1>4, <1>5

LEMMA MovesRest ==
    ASSUME Typed, Kept, Completed, NEW r \in Requests, NEW e, NEW f, Moves(r, e, f)
    PROVE  Completed' /\ Reason'
<1> PICK i : i = req[r].id
  OBVIOUS
<1>1. /\ Puts(i, e) /\ i \in Rows /\ Go(r, f) /\ raced' = raced
      /\ faults' = faults /\ Effect(fnf[i], req[r], e, f, ~raced, ~stray)
      /\ exiting' = exiting /\ archived' = archived
  BY DEF Moves, Go, Puts
<1>2. /\ Rows' = Rows /\ fnf'[i] = e /\ \A j \in Rows : j # i => fnf'[j] = fnf[j]
      /\ req'[r] = f
  BY <1>1, Moved
<1>3. Completed'
  BY <1>1, <1>2 DEF Completed, Effect
<1>4. Reason'
  BY <1>1, <1>2 DEF Reason, Orderly, Effect
<1> QED
  BY <1>3, <1>4

Inv == Kept /\ Once /\ Completed /\ Reason

LEMMA TakeInv ==
    ASSUME Typed, Inv, NEW r \in Requests, NEW call, Take(r, call), stray => stray',
           call.step \in Naming =>
               /\ Holds(call, fnf[call.id])
               /\ ~raced => Knows(call, fnf[call.id], ~stray')
    PROVE  Inv'
<1>1. /\ req[r] = Idle /\ req' = [req EXCEPT ![r] = call] /\ UNCHANGED <<fnf, exiting, archived, faults>>
      /\ ~raced' => ~raced /\ \A s \in Requests : req[s] = Idle
  BY DEF Take
<1>2. req'[r] = call /\ \A s \in Requests : s # r => req'[s] = req[s]
  BY <1>1, ReqAfter DEF Typed
<1>3. Rows' = Rows
  BY <1>1 DEF Rows
<1>4. Alone'
  BY <1>1, <1>2 DEF Alone
<1>5. \A i \in Rows' : GoodRow(fnf'[i], ~raced')
  BY <1>1, <1>3 DEF Inv, Kept, Settled, GoodRow
<1>6. ASSUME NEW s \in Requests, req'[s].step \in Naming
      PROVE  /\ Holds(req'[s], fnf'[req'[s].id])
             /\ ~raced' => Knows(req'[s], fnf'[req'[s].id], ~stray')
  <2>1. CASE s = r
    BY <1>1, <1>2, <1>6, <2>1
  <2>2. CASE s # r
    BY <1>1, <1>2, <1>6, <2>2, IdleCall DEF Inv, Kept, Settled
  <2> QED
    BY <2>1, <2>2
<1>7. Settled'
  BY <1>5, <1>6 DEF Settled
<1>8. Once'
  <2> SUFFICES ASSUME Orderly', ~stray', NEW i \in Rows PROVE OnceRow(fnf[i], Completing(i)')
    BY <1>1, <1>3 DEF Once
  <2>1. Orderly /\ ~stray /\ \A s \in Requests : req[s] = Idle
    BY <1>1 DEF Orderly
  <2>2. OnceRow(fnf[i], Completing(i))
    BY <2>1 DEF Inv, Once
  <2>3. ~Completing(i)
    BY <2>1 DEF Completing, Idle
  <2> QED
    BY <2>2, <2>3 DEF OnceRow
<1>9. Completed'
  BY <1>1, <1>3 DEF Inv, Completed
<1>10. Reason'
  BY <1>1, <1>3 DEF Inv, Reason, Orderly, Idle
<1> QED
  BY <1>4, <1>7, <1>8, <1>9, <1>10 DEF Inv, Kept

LEMMA InitiateInv ==
    ASSUME Typed, Inv, NEW r \in Requests, NEW clearance, ReadForInitiate(r, clearance)
    PROVE  Inv'
<1> PICK call : call = [step |-> "initiating", clearance |-> clearance]
  OBVIOUS
<1>1. call.step \notin Naming /\ Take(r, call) /\ (stray => stray')
  BY DEF ReadForInitiate, Naming
<1> QED
  BY <1>1, TakeInv

\* What a handler has read holds of its settlement.
LEMMA ReadTakes ==
    ASSUME Typed, Inv, NEW r \in Requests, NEW i \in Rows, Read(r, i)
    PROVE  \E call : /\ Take(r, call) /\ call.id = i /\ (stray => stray')
                     /\ Holds(call, fnf[i]) /\ Knows(call, fnf[i], ~stray')
<1>1. fnf[i] \in Settlement /\ GoodRow(fnf[i], ~raced)
  BY RowsFacts DEF Typed, Inv, Kept, Settled
<1>2. stray => stray'
  BY DEF Read, ReadForCalculate, ReadForUpdate, ReadForClearance, ReadForApprove,
         ReadForDocuments, ReadForComplete, ReadForCancel
<1>3. \E call : /\ Take(r, call) /\ call.id = i
                /\ Holds(call, fnf[i]) /\ Knows(call, fnf[i], ~stray')
  <2>1. CASE ReadForCalculate(r, i)
    BY <2>1 DEF ReadForCalculate, Holds, Knows
  <2>2. CASE ReadForUpdate(r, i)
    BY <2>2 DEF ReadForUpdate, Holds, Knows
  <2>3. CASE ReadForClearance(r, i)
    BY <2>3 DEF ReadForClearance, Holds, Knows
  <2>4. CASE ReadForApprove(r, i)
    BY <2>4 DEF ReadForApprove, Holds, Knows
  <2>5. CASE ReadForDocuments(r, i)
    <3> PICK call : call = [step |-> "printing", id |-> i, amount |-> fnf[i].amount]
      OBVIOUS
    <3>1. /\ Take(r, call) /\ call.id = i /\ call.amount = fnf[i].amount
          /\ ~stray' => fnf[i].status \in {"APPROVED", "DOCUMENTS_GENERATED"}
      BY <2>5 DEF ReadForDocuments
    <3>2. Holds(call, fnf[i]) /\ Knows(call, fnf[i], ~stray')
      BY <3>1 DEF Holds, Knows
    <3> QED
      BY <3>1, <3>2
  <2>6. CASE ReadForComplete(r, i)
    <3> PICK call : call = [step |-> IF fnf[i].due THEN "paying" ELSE "completing", id |-> i]
      OBVIOUS
    <3>1. Take(r, call) /\ call.id = i /\ fnf[i].status = "DOCUMENTS_GENERATED"
      BY <2>6 DEF ReadForComplete
    <3>2. Holds(call, fnf[i]) /\ Knows(call, fnf[i], ~stray')
      BY <1>1, <3>1 DEF Holds, Knows, GoodRow
    <3> QED
      BY <3>1, <3>2
  <2>7. CASE ReadForCancel(r, i)
    BY <2>7 DEF ReadForCancel, Holds, Knows
  <2> QED
    BY <2>1, <2>2, <2>3, <2>4, <2>5, <2>6, <2>7 DEF Read
<1> QED
  BY <1>2, <1>3

LEMMA ReadInv ==
    ASSUME Typed, Inv, NEW r \in Requests, NEW i \in Rows, Read(r, i)
    PROVE  Inv'
BY ReadTakes, TakeInv

\* A request in flight does something that leaves its settlement alone.
LEMMA RestKept ==
    ASSUME Typed, Kept, NEW r \in Requests, NEW call, UNCHANGED <<fnf, raced, stray>>,
           req' = [req EXCEPT ![r] = call], call.step \notin Naming, req[r] # Idle
    PROVE  Kept'
<1>1. req'[r] = call /\ \A s \in Requests : s # r => req'[s] = req[s]
  BY ReqAfter DEF Typed
<1>2. Rows' = Rows
  BY DEF Rows
<1>3. Alone'
  BY <1>1 DEF Kept, Alone
<1>4. Settled'
  BY <1>1, <1>2 DEF Kept, Settled
<1> QED
  BY <1>3, <1>4 DEF Kept

LEMMA RestOnce ==
    ASSUME Typed, Once, NEW r \in Requests, NEW call, UNCHANGED <<fnf, raced, stray, faults>>,
           req' = [req EXCEPT ![r] = call], req[r].step # "completing"
    PROVE  Once'
<1>1. req'[r] = call /\ \A s \in Requests : s # r => req'[s] = req[s]
  BY ReqAfter DEF Typed
<1>2. \A i \in Rows : Completing(i) => Completing(i)'
  BY <1>1 DEF Completing
<1>3. Rows' = Rows
  BY DEF Rows
<1>4. ASSUME Orderly, ~stray, NEW i \in Rows PROVE OnceRow(fnf[i], Completing(i)')
  BY <1>2, <1>4 DEF Once, OnceRow
<1> QED
  BY <1>3, <1>4 DEF Once, Orderly

LEMMA SetExitDateInv ==
    ASSUME Typed, Inv, NEW r \in Requests, SetExitDate(r)
    PROVE  Inv'
<1> PICK call : call = [step |-> "inserting", clearance |-> req[r].clearance]
  OBVIOUS
<1>1. /\ req' = [req EXCEPT ![r] = call] /\ UNCHANGED <<fnf, archived, raced, stray, faults>>
      /\ req[r].step = "initiating" /\ call.step = "inserting"
  BY DEF SetExitDate, Go
<1>2. req[r] # Idle /\ call.step \notin Naming
  BY <1>1 DEF Idle, Naming
<1>3. Kept' /\ Once'
  BY <1>1, <1>2, RestKept, RestOnce DEF Inv
<1>4. Completed'
  BY <1>1 DEF Inv, Completed, Rows
<1>5. Reason'
  BY <1>1, ReqAfter DEF Reason, Typed
<1> QED
  BY <1>3, <1>4, <1>5 DEF Inv

LEMMA AnswerInv ==
    ASSUME Typed, Inv, NEW r \in Requests, LeaveStatus(r) \/ Archive(r) \/ ClearExitDate(r)
    PROVE  Inv'
<1>1. /\ req' = [req EXCEPT ![r] = Idle] /\ UNCHANGED <<fnf, raced, stray, faults>>
      /\ req[r].step \in {"cleared", "archiving", "leaving"}
  BY DEF LeaveStatus, Archive, ClearExitDate, Answer, Go
<1>2. req[r] # Idle /\ req[r].step \in Naming /\ req[r].step # "completing"
  BY <1>1 DEF Idle, Naming
<1>3. Kept' /\ Once'
  BY <1>1, <1>2, IdleCall, RestKept, RestOnce DEF Inv
<1>4. Completed'
  <2>1. CASE LeaveStatus(r) \/ ClearExitDate(r)
    BY <1>1, <2>1 DEF LeaveStatus, ClearExitDate, Inv, Completed, Rows
  <2>2. CASE Archive(r)
    <3>1. req[r].id \in Rows /\ fnf[req[r].id].completed
      BY <1>2, <2>2, WriterKnows DEF Archive, Inv, Kept, Holds
    <3> QED
      BY <1>1, <3>1 DEF Completed, Rows
  <2> QED
    BY <2>1, <2>2
<1>5. Reason'
  <2>1. CASE LeaveStatus(r) \/ Archive(r)
    <3>1. req[r].step \notin {"inserting", "leaving"} /\ exiting' = exiting
      BY <2>1 DEF LeaveStatus, Archive
    <3>2. \A s \in Requests : s # r => req'[s] = req[s]
      BY <1>1, ReqAfter DEF Typed
    <3> QED
      BY <1>1, <3>1, <3>2 DEF Inv, Reason, Orderly, Rows
  <2>2. CASE ClearExitDate(r)
    BY <2>2 DEF ClearExitDate, Reason
  <2> QED
    BY <2>1, <2>2
<1> QED
  BY <1>3, <1>4, <1>5 DEF Inv


LEMMA CommitInv ==
    ASSUME Typed, Inv, NEW r \in Requests, CommitInitiate(r)
    PROVE  Inv'
<1> PICK e, n : /\ e = [status |-> "INITIATED", clearance |-> req[r].clearance, amount |-> 0,
                        due |-> FALSE, printed |-> -1, credits |-> 0, completed |-> FALSE]
                /\ n = Len(fnf) + 1
  OBVIOUS
<1>1. /\ req[r].step = "inserting" /\ fnf' = Append(fnf, e)
      /\ req' = [req EXCEPT ![r] = Idle] /\ UNCHANGED <<raced, stray, faults, exiting, archived>>
  BY DEF CommitInitiate, Answer, Go
<1>2. e \in Settlement
  BY <1>1, CallOfStep, FnfAssumption DEF Settlement, Status, Amounts, Initiating, Typed
<1>3. Len(fnf) < MaxSettlements
  BY FnfAssumption DEF CommitInitiate, Typed, TypeOK
<1>4. /\ Rows' = Rows \cup {n} /\ n \notin Rows
      /\ fnf'[n] = e /\ \A i \in Rows : fnf'[i] = fnf[i]
  BY <1>1, <1>2, <1>3, EnterFacts DEF Typed
<1>5. /\ req[r] # Idle /\ req'[r] = Idle
      /\ \A s \in Requests : s # r => req'[s] = req[s]
  <2>1. req[r] # Idle
    BY <1>1 DEF Idle
  <2> QED
    BY <1>1, <2>1, ReqAfter DEF Typed
<1>6. Alone'
  BY <1>1, <1>5 DEF Inv, Kept, Alone
<1>7. Settled'
  <2>1. \A i \in Rows' : GoodRow(fnf'[i], ~raced)
    BY <1>4 DEF Inv, Kept, Settled, GoodRow
  <2>2. ASSUME NEW s \in Requests, req'[s].step \in Naming
        PROVE  req'[s] = req[s] /\ req[s].id \in Rows
    BY <1>5, <2>2, IdleCall DEF Typed
  <2> QED
    BY <1>1, <1>4, <2>1, <2>2 DEF Inv, Kept, Settled
<1>8. Once'
  <2> SUFFICES ASSUME Orderly, ~stray, NEW i \in Rows' PROVE OnceRow(fnf'[i], Completing(i)')
    BY <1>1 DEF Once, Orderly
  <2>1. CASE i = n
    BY <1>4, <2>1 DEF OnceRow
  <2>2. CASE i \in Rows
    <3>1. OnceRow(fnf[i], Completing(i))
      BY <2>2 DEF Inv, Once
    <3>2. Completing(i) => Completing(i)'
      BY <1>1, <1>5 DEF Completing
    <3> QED
      BY <1>4, <2>2, <3>1, <3>2 DEF OnceRow
  <2> QED
    BY <1>4, <2>1, <2>2
<1>9. Completed'
  BY <1>1, <1>4 DEF Inv, Completed
<1>10. Reason'
  BY <1>4 DEF Reason
<1> QED
  BY <1>6, <1>7, <1>8, <1>9, <1>10 DEF Inv, Kept

LEMMA StopInv ==
    ASSUME Typed, Inv, NEW r \in Requests, Stop(r)
    PROVE  Inv'
<1>1. /\ req' = [req EXCEPT ![r] = Idle] /\ UNCHANGED <<fnf, raced, stray, archived>>
      /\ req[r] # Idle
  BY DEF Stop
<1>2. ~Orderly'
  BY DEF Stop, Orderly, Typed, TypeOK
<1>3. Kept'
  BY <1>1, IdleCall, RestKept DEF Inv
<1>4. Completed'
  BY <1>1 DEF Inv, Completed, Rows
<1> QED
  BY <1>2, <1>3, <1>4 DEF Inv, Once, Reason

LEMMA WriteInv ==
    ASSUME Typed, Inv, NEW r \in Requests, Write(r)
    PROVE  Inv'
<1>1. CASE MovesWrite(r)
  <2> PICK e, f : Moves(r, e, f)
    BY <1>1, WritesMove DEF Inv, Kept
  <2> QED
    BY MovesKept, MovesOnce, MovesRest DEF Inv
<1> QED
  BY <1>1, SetExitDateInv, CommitInv, AnswerInv DEF Write, MovesWrite

LEMMA InitInv == Init => Inv
<1> SUFFICES ASSUME Init PROVE Inv
  OBVIOUS
<1>1. Rows = {} /\ ~archived /\ ~exiting /\ \A r \in Requests : req[r] = Idle
  BY DEF Init, Rows
<1> QED
  BY <1>1, IdleCall DEF Inv, Kept, Alone, Settled, Once, Completed, Reason

LEMMA StepInv == Typed /\ Inv /\ [Next]_vars => Inv'
<1> SUFFICES ASSUME Typed, Inv, [Next]_vars PROVE Inv'
  OBVIOUS
<1>1. CASE UNCHANGED vars
  <2>1. UNCHANGED <<Rows, Orderly>> /\ \A i : UNCHANGED Completing(i)
    BY <1>1 DEF vars, Rows, Orderly, Completing
  <2>2. Kept'
    BY <1>1, <2>1 DEF vars, Inv, Kept, Alone, Settled
  <2>3. Once' /\ Completed' /\ Reason'
    BY <1>1, <2>1 DEF vars, Inv, Once, Completed, Reason
  <2> QED
    BY <2>2, <2>3 DEF Inv
<1>2. CASE Next
  BY <1>2, InitiateInv, ReadInv, WriteInv, StopInv DEF Next
<1> QED
  BY <1>1, <1>2

LEMMA AlwaysInv == Spec => []Inv
<1> QED
  BY InitInv, StepInv, AlwaysTyped, PTL DEF Spec

\* The statement prints the amounts of the settlement.
THEOREM StatementIsRight == Spec => []PrintedIsFinal
<1>1. Inv => PrintedIsFinal
  BY DEF Inv, Kept, Settled, GoodRow, PrintedIsFinal
<1> QED
  BY <1>1, AlwaysInv, PTL

\* Whoever is archived was paid, also when completion was interrupted.
THEOREM PaidBeforeArchived == Spec => []ArchivedWasPaid
<1>1. Inv => ArchivedWasPaid
  BY DEF Inv, Kept, Settled, GoodRow, Completed, ArchivedWasPaid
<1> QED
  BY <1>1, AlwaysInv, PTL

\* Encashment is credited once for a settlement.
THEOREM CreditedOnce == Spec => []EncashedOnce
<1>1. Inv => EncashedOnce
  BY DEF Inv, Once, OnceRow, EncashedOnce
<1> QED
  BY <1>1, AlwaysInv, PTL

\* The exit date stands for a settlement that was not cancelled.
THEOREM LeavesForReason == Spec => []ExitHasReason
<1>1. Inv => ExitHasReason
  BY DEF Inv, Reason, ExitHasReason, Idle
<1> QED
  BY <1>1, AlwaysInv, PTL

-----------------------------------------------------------------------------
(* The refinement.                                                         *)

Shown == IF Promised THEN [i \in Rows |-> fnf[i].status] ELSE <<>>

LEMMA MoveRecord ==
    ASSUME Typed, NEW r \in Requests, NEW e, NEW f, Moves(r, e, f), Promised'
    PROVE  [Record!Next]_(Record!record)
<1> PICK i, d : i = req[r].id /\ d = fnf[i]
  OBVIOUS
<1>1. /\ Puts(i, e) /\ UNCHANGED <<raced, stray>> /\ i \in Rows
      /\ d.status = e.status \/ <<d.status, e.status>> \in Record!Table
  BY DEF Moves, Go, Effect, Puts, Promised
<1>2. Promised /\ (Promised <=> Promised') /\ Promised' = Promised
  BY <1>1 DEF Promised
<1>3. Rows' = Rows /\ fnf'[i] = e /\ \A j \in Rows : j # i => fnf'[j] = fnf[j]
  BY <1>1, PutFacts DEF Typed
<1>4. Shown = [j \in Rows |-> fnf[j].status] /\ Shown' = [j \in Rows |-> fnf'[j].status]
  BY <1>2, <1>3 DEF Shown
<1>5. Shown' = [Shown EXCEPT ![i] = e.status] /\ Shown[i] = d.status /\ DOMAIN Shown = Rows
  BY <1>1, <1>3, <1>4
<1>6. CASE d.status = e.status
  <2>1. Shown' = Shown
    BY <1>4, <1>5, <1>6
  <2> QED
    BY <1>2, <2>1 DEF Record!record, Shown
<1>7. CASE <<d.status, e.status>> \in Record!Table
  <2>1. Record!Move
    <3> PICK edge \in Record!Table : edge = <<d.status, e.status>>
      BY <1>7
    <3>1. edge[1] = d.status /\ edge[2] = e.status
      OBVIOUS
    <3>2. i \in DOMAIN Shown /\ Shown[i] = edge[1] /\ Shown' = [Shown EXCEPT ![i] = edge[2]]
      BY <1>1, <1>5, <3>1
    <3> QED
      BY <1>2, <3>2 DEF Record!Move, Shown
  <2> QED
    BY <2>1 DEF Record!Next
<1> QED
  BY <1>1, <1>6, <1>7

LEMMA AppendAsFunction ==
    ASSUME NEW S, NEW s \in Seq(S), NEW x \in S, NEW n, n = Len(s)
    PROVE  Append(s, x) = [i \in 1..(n + 1) |-> IF i = n + 1 THEN x ELSE s[i]]
<1>1. n \in Nat /\ Append(s, x) \in Seq(S) /\ Len(Append(s, x)) = n + 1
  BY AppendProperties
<1>2. Append(s, x)[n + 1] = x /\ \A i \in 1..n : Append(s, x)[i] = s[i]
  BY <1>1, AppendProperties
<1>3. Append(s, x) \in [1..(n + 1) -> S]
  BY <1>1, LenProperties, Zenon
<1>4. \A i \in 1..(n + 1) : Append(s, x)[i] = IF i = n + 1 THEN x ELSE s[i]
  BY <1>1, <1>2
<1> QED
  BY <1>3, <1>4

LEMMA EnterRecord ==
    ASSUME Typed, NEW r \in Requests, CommitInitiate(r), Promised'
    PROVE  Record!Enter
<1> PICK e, n : /\ e = [status |-> "INITIATED", clearance |-> req[r].clearance, amount |-> 0,
                        due |-> FALSE, printed |-> -1, credits |-> 0, completed |-> FALSE]
                /\ n = Len(fnf)
  OBVIOUS
<1>1. fnf' = Append(fnf, e) /\ UNCHANGED <<raced, stray>> /\ e.status = "INITIATED"
  BY DEF CommitInitiate, Answer, Go
<1>2. Promised /\ Promised' = Promised
  BY <1>1 DEF Promised
<1>3. n \in Nat /\ Rows = 1..n /\ Rows' = 1..(n + 1)
  BY <1>1 DEF Typed, TypeOK, Rows
<1>4. fnf'[n + 1] = e /\ \A i \in 1..n : fnf'[i] = fnf[i]
  BY <1>1 DEF Typed, TypeOK
<1>5. Shown = [i \in 1..n |-> fnf[i].status] /\ Shown' = [i \in 1..(n + 1) |-> fnf'[i].status]
  BY <1>2, <1>3 DEF Shown
<1>6. Shown' = Append(Shown, "INITIATED")
  <2> PICK s, t : s = Shown /\ t = Shown'
    OBVIOUS
  <2>1. t = [i \in 1..(n + 1) |-> IF i = n + 1 THEN "INITIATED" ELSE s[i]]
    BY <1>1, <1>3, <1>4, <1>5
  <2>2. s \in Seq(Status) /\ Len(s) = n
    <3>1. \A i \in 1..n : fnf[i].status \in Status
      BY <1>3, RowsFacts DEF Typed, Settlement
    <3> QED
      BY <1>3, <1>5, <3>1
  <2>3. "INITIATED" \in Status
    BY DEF Status
  <2>4. Append(s, "INITIATED") = [i \in 1..(n + 1) |-> IF i = n + 1 THEN "INITIATED" ELSE s[i]]
    BY <2>2, <2>3, AppendAsFunction
  <2> QED
    BY <2>1, <2>4
<1> QED
  BY <1>2, <1>6 DEF Record!Enter, Shown

LEMMA StepRecord ==
    ASSUME Typed, Inv, [Next]_vars
    PROVE  [Record!Next]_(Record!record)
<1>1. CASE ~Promised'
  <2>1. Promised' = FALSE /\ Shown' = <<>>
    BY <1>1 DEF Promised, Shown
  <2>2. Record!Void
    BY <2>1 DEF Record!Void, Shown
  <2> QED
    BY <2>2 DEF Record!Next
<1>2. CASE UNCHANGED <<fnf, raced, stray>>
  BY <1>2 DEF Record!record, Promised, Rows
<1>3. ASSUME NEW r \in Requests, NEW call, Take(r, call), stray => stray', Promised'
      PROVE  [Record!Next]_(Record!record)
  <2>1. fnf' = fnf /\ Promised' = TRUE /\ Promised = TRUE
    BY <1>3 DEF Take, Promised
  <2> QED
    BY <2>1 DEF Record!record, Rows
<1>4. ASSUME NEW r \in Requests, Promised',
             \/ \E clearance \in Clearance : ReadForInitiate(r, clearance)
             \/ \E i \in Rows : Read(r, i)
      PROVE  [Record!Next]_(Record!record)
  <2>1. \E call : Take(r, call) /\ (stray => stray')
    <3>1. CASE \E clearance \in Clearance : ReadForInitiate(r, clearance)
      BY <3>1 DEF ReadForInitiate
    <3>2. CASE \E i \in Rows : Read(r, i)
      BY <3>2, ReadTakes
    <3> QED
      BY <1>4, <3>1, <3>2
  <2> QED
    BY <1>3, <1>4, <2>1
<1>5. ASSUME NEW r \in Requests, Promised', Write(r)
      PROVE  [Record!Next]_(Record!record)
  <2>1. CASE MovesWrite(r)
    BY <1>5, <2>1, WritesMove, MoveRecord DEF Inv, Kept
  <2>2. CASE CommitInitiate(r)
    BY <1>5, <2>2, EnterRecord DEF Record!Next
  <2>3. CASE SetExitDate(r) \/ LeaveStatus(r) \/ Archive(r) \/ ClearExitDate(r)
    BY <1>2, <2>3 DEF SetExitDate, LeaveStatus, Archive, ClearExitDate, Answer, Go
  <2> QED
    BY <1>5, <2>1, <2>2, <2>3 DEF Write, MovesWrite
<1>6. CASE \E r \in Requests : Stop(r)
  BY <1>2, <1>6 DEF Stop
<1> QED
  BY <1>1, <1>2, <1>4, <1>5, <1>6 DEF Next, vars

LEMMA InitRecord == Init => Record!Init
<1> SUFFICES ASSUME Init PROVE Record!Init
  OBVIOUS
<1>1. Promised = TRUE /\ fnf = <<>>
  BY DEF Init, Promised
<1>2. [i \in Rows |-> fnf[i].status] = <<>>
  BY <1>1 DEF Rows
<1> QED
  BY <1>1, <1>2 DEF Record!Init

\* Together the handlers move settlements along VALID_STATUS_TRANSITIONS.
THEOREM TableFollowed == Spec => FollowsTable
<1>1. Typed /\ Inv /\ [Next]_vars => [Record!Next]_(Record!record)
  BY StepRecord
<1> QED
  BY <1>1, InitRecord, AlwaysTyped, AlwaysInv, PTL DEF Spec, FollowsTable, Record!Spec
=============================================================================
