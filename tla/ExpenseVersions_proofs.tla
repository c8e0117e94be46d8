------------------------ MODULE ExpenseVersions_proofs ------------------------
(***************************************************************************)
(* An expense is never lost, and the versions of a fuel expense are in     *)
(* line, for every number of requests and versions.                        *)
(***************************************************************************)
EXTENDS ExpenseVersions, TLAPS

\* Requests name rows that exist.
NamesInv == \A r \in Requests : req[r] # Idle => req[r].id \in Rows

\* A request has read the version it is to change in a status it may change.
Fits(call) ==
    /\ call.step = "editing" => version[call.id].status = "pending" /\ call.to = "pending"
    /\ call.step = "deciding" => <<version[call.id].status, call.to>> \in Transitions

\* What holds of a fuel expense no two requests worked on together.  One
\* request at most is in flight, it names the last version and fits it, and
\* nothing follows a deletion.
LineInv ==
    Promised =>
        /\ LastOnly
        /\ \A i \in Rows : version[i].parent = i - 1
        /\ \A r \in Requests : req[r] # Idle => req[r].id = Len(version) /\ Fits(req[r])
        /\ \A r, s \in Requests : req[r] # Idle /\ req[s] # Idle => r = s
        /\ Deleted # {} => Active = {} /\ \A r \in Requests : req[r] = Idle

IInv == TypeOK /\ NamesInv /\ NeverLost /\ LineInv

-----------------------------------------------------------------------------
\* The step of a request tells which record it is.
LEMMA CallOfStep ==
    ASSUME TypeOK, NEW r \in Requests
    PROVE  /\ req[r].step \in {"editing", "deciding"} => req[r] \in Changing /\ req[r] # Idle
           /\ req[r].step = "deleting" => req[r] \in Deleting /\ req[r] # Idle
BY DEF TypeOK, Changing, Deleting, Idle

\* Replacing version i: one row more, the others as they were but for i, which
\* is off.
LEMMA ReplaceRow ==
    ASSUME version \in Seq(Version), Len(version) < MaxVersions,
           NEW i \in Rows, NEW status \in Status,
           NEW s, s = Replace(i, status)
    PROVE  /\ s \in Seq(Version) /\ Len(s) = Len(version) + 1
           /\ s[Len(s)] = New(status, i)
           /\ \A j \in Rows : j # i => s[j] = version[j]
           /\ s[i] = Off(version[i])
<1> DEFINE t == [version EXCEPT ![i] = Off(@)]
<1>1. version[i] \in Version
  BY DEF Rows
<1>2. Off(version[i]) \in Version
  BY <1>1 DEF Version, Off
<1>3. t \in Seq(Version) /\ Len(t) = Len(version)
      /\ \A j \in Rows : t[j] = IF j = i THEN Off(version[j]) ELSE version[j]
  BY <1>2 DEF Rows
<1>4. New(status, i) \in Version
  BY ExpenseAssumption DEF New, Version, Rows
<1>5. s = Append(t, New(status, i))
  BY DEF Replace
<1> HIDE DEF t
<1> QED
  BY <1>3, <1>4, <1>5 DEF Rows

\* Initially there is no version and no request.
LEMMA InitIInv == Init => IInv
<1> SUFFICES ASSUME Init PROVE IInv
  OBVIOUS
<1>1. TypeOK
  <2>1. version \in Seq(Version) /\ Len(version) = 0
    BY DEF Init
  <2>2. Len(version) <= MaxVersions
    BY <2>1, ExpenseAssumption
  <2>3. req \in [Requests -> Changing \cup Deleting \cup {Idle}]
    BY DEF Init
  <2>4. kind \in Kinds /\ raced \in BOOLEAN
    BY DEF Init
  <2> QED
    BY <2>1, <2>2, <2>3, <2>4 DEF TypeOK
<1>2. NamesInv /\ NeverLost
  BY DEF Init, NamesInv, NeverLost
<1>3. Rows = {}
  BY DEF Init, Rows
<1>4. LineInv
  BY <1>3 DEF Init, LineInv, LastOnly, Active, Deleted
<1> QED
  BY <1>1, <1>2, <1>4 DEF IInv

-----------------------------------------------------------------------------
(* Reading.                                                                *)

\* A request that has read a row it may name and fits.
LEMMA TakeStep ==
    ASSUME IInv, NEW r \in Requests, NEW call \in Changing \cup Deleting,
           Take(r, call), call.id \in Rows, Fits(call),
           kind = "fuel" => version[call.id].active
    PROVE  IInv'
<1> USE DEF Take
<1>1. call # Idle
  BY DEF Changing, Deleting, Idle
<1>2. TypeOK'
  BY DEF IInv, TypeOK
<1>3. /\ req'[r] = call
      /\ \A s \in Requests : s # r => req'[s] = req[s]
  BY DEF IInv, TypeOK
<1>4. NamesInv'
  BY <1>3 DEF IInv, NamesInv, Rows
<1>5. NeverLost'
  BY DEF IInv, NeverLost, Deleted, Active, Rows
<1>6. LineInv'
  <2> SUFFICES ASSUME Promised' PROVE LineInv'
    BY DEF LineInv
  <2>1. Promised /\ \A s \in Requests : req[s] = Idle
    BY DEF IInv, TypeOK, Promised
  <2>2. Active # {} /\ call.id = Len(version)
    BY <2>1 DEF IInv, LineInv, LastOnly, Active, Promised
  <2>3. Rows' = Rows /\ Active' = Active /\ Deleted' = Deleted
    BY DEF Rows, Active, Deleted
  <2>4. \A s \in Requests : req'[s] # Idle => s = r
    BY <1>3, <2>1
  <2>5. Deleted = {}
    BY <2>1, <2>2 DEF IInv, LineInv
  <2>6. req'[r].id = Len(version') /\ Fits(req[r])'
    BY <1>3, <2>2 DEF Fits
  <2> QED
    BY <2>1, <2>3, <2>4, <2>5, <2>6 DEF IInv, LineInv, LastOnly
<1> QED
  BY <1>2, <1>4, <1>5, <1>6 DEF IInv

\* What edit, decision and deletion name is such a row.
LEMMA ReadStep ==
    ASSUME IInv, NEW r \in Requests, NEW i \in Rows, Read(r, i)
    PROVE  IInv'
<1>1. i \in 1..MaxVersions
  BY ExpenseAssumption DEF IInv, TypeOK, Rows
<1>2. CASE ReadForEdit(r, i)
  <2> DEFINE call == [step |-> "editing", id |-> i, to |-> "pending"]
  <2>1. call \in Changing
    BY <1>1 DEF Changing, Status
  <2>2. Fits(call) /\ version[i].active
    BY <1>2 DEF ReadForEdit, Fits
  <2> QED
    BY <1>2, <2>1, <2>2, TakeStep DEF ReadForEdit
<1>3. ASSUME NEW to \in Status, ReadForDecision(r, i, to) PROVE IInv'
  <2> DEFINE call == [step |-> "deciding", id |-> i, to |-> to]
  <2>1. call \in Changing
    BY <1>1 DEF Changing
  <2>2. Fits(call)
    BY <1>3 DEF ReadForDecision, Fits
  <2> QED
    BY <1>3, <2>1, <2>2, TakeStep DEF ReadForDecision, Nameable
<1>4. CASE ReadForDelete(r, i)
  <2> DEFINE call == [step |-> "deleting", id |-> i]
  <2>1. call \in Deleting
    BY <1>1 DEF Deleting
  <2>2. Fits(call)
    BY DEF Fits
  <2> QED
    BY <1>4, <2>1, <2>2, TakeStep DEF ReadForDelete, Nameable
<1> QED
  BY <1>2, <1>3, <1>4 DEF Read

-----------------------------------------------------------------------------
(* Writing.                                                                *)

\* A request in flight answers and its version is replaced.
LEMMA ReplaceStep ==
    ASSUME IInv, NEW r \in Requests, req[r].step \in {"editing", "deciding"},
           Len(version) < MaxVersions,
           version' = Replace(req[r].id, req[r].to), Answer(r)
    PROVE  IInv'
<1> DEFINE i == req[r].id
           status == req[r].to
<1>1. req[r] \in Changing /\ req[r] # Idle
  BY CallOfStep DEF IInv
<1>2. i \in Rows /\ status \in Status
  BY <1>1 DEF IInv, NamesInv, Changing
<1>3. version \in Seq(Version) /\ version' = Replace(i, status)
  BY DEF IInv, TypeOK
<1> HIDE DEF i, status
<1>4. /\ version' \in Seq(Version) /\ Len(version') = Len(version) + 1
      /\ version'[Len(version')] = New(status, i)
      /\ \A j \in Rows : j # i => version'[j] = version[j]
      /\ version'[i] = Off(version[i])
  BY <1>2, <1>3, ReplaceRow
<1>5. /\ req'[r] = Idle
      /\ \A s \in Requests : s # r => req'[s] = req[s]
      /\ UNCHANGED <<kind, raced>>
  BY DEF IInv, TypeOK, Answer
<1>6. TypeOK'
  BY <1>4, ExpenseAssumption DEF IInv, TypeOK, Answer
<1>7. Rows' = Rows \cup {Len(version) + 1} /\ Len(version) + 1 \notin Rows
  BY <1>3, <1>4 DEF Rows
<1>8. NamesInv'
  BY <1>5, <1>7 DEF IInv, NamesInv
<1>9. version'[Len(version) + 1] = New(status, i) /\ Len(version) \in Nat
  BY <1>3, <1>4
<1>10. NeverLost'
  BY <1>7, <1>9 DEF NeverLost, Active, New
<1>11. LineInv'
  <2> SUFFICES ASSUME Promised' PROVE LineInv'
    BY DEF LineInv
  <2>1. Promised
    BY <1>5 DEF Promised
  <2>2. i = Len(version)
    BY <1>1, <2>1 DEF i, IInv, LineInv
  <2>3. Deleted = {}
    BY <1>1, <2>1 DEF IInv, LineInv
  <2>5. version[i] \in Version
    BY <1>2, <1>3 DEF Rows
  <2>6. \A j \in Rows : /\ version'[j].parent = version[j].parent
                        /\ version'[j].deleted = version[j].deleted
                        /\ j # i => version'[j].active = version[j].active
    BY <1>4, <2>5 DEF Off, Version
  <2>7. version'[i].active = FALSE
    BY <1>4, <2>5 DEF Off, Version
  <2>8. LastOnly'
    BY <1>4, <1>7, <2>1, <2>2, <2>6, <2>7 DEF IInv, LineInv, LastOnly, Active
  <2>9. \A j \in Rows' : version'[j].parent = j - 1
    <3>1. version'[Len(version) + 1].parent = Len(version)
      BY <1>9, <2>2 DEF New
    <3> QED
      BY <3>1, <1>7, <1>9, <2>1, <2>6 DEF IInv, LineInv
  <2>10. \A s \in Requests : req'[s] = Idle
    BY <1>1, <1>5, <2>1 DEF IInv, LineInv
  <2>11. Deleted' = {}
    BY <1>7, <1>9, <2>3, <2>6 DEF Deleted, New
  <2> QED
    BY <2>8, <2>9, <2>10, <2>11 DEF LineInv
<1> QED
  BY <1>6, <1>8, <1>10, <1>11 DEF IInv

\* A refused decision leaves the versions alone.
LEMMA RefuseStep ==
    ASSUME IInv, NEW r \in Requests, RefuseDecision(r)
    PROVE  IInv'
<1> USE DEF RefuseDecision, Answer
<1>1. TypeOK'
  BY DEF IInv, TypeOK
<1>2. /\ req'[r] = Idle
      /\ \A s \in Requests : s # r => req'[s] = req[s]
  BY DEF IInv, TypeOK
<1>3. Rows' = Rows /\ Active' = Active /\ Deleted' = Deleted
  BY DEF Rows, Active, Deleted
<1>4. NamesInv' /\ NeverLost'
  BY <1>2, <1>3 DEF IInv, NamesInv, NeverLost
<1>5. LineInv'
  BY <1>2, <1>3 DEF IInv, LineInv, LastOnly, Promised, Fits
<1> QED
  BY <1>1, <1>4, <1>5 DEF IInv

\* A deletion of the last version leaves none active.
LEMMA DeleteStep ==
    ASSUME IInv, NEW r \in Requests, CommitDelete(r)
    PROVE  IInv'
<1> DEFINE i == req[r].id
<1>1. req[r] \in Deleting /\ req[r] # Idle
  BY CallOfStep DEF IInv, CommitDelete
<1>2. i \in Rows
  BY <1>1 DEF IInv, NamesInv
<1>3. version \in Seq(Version) /\ version' = [version EXCEPT ![i] = Gone(@)]
  BY DEF IInv, TypeOK, CommitDelete
<1>4. /\ req'[r] = Idle
      /\ \A s \in Requests : s # r => req'[s] = req[s]
      /\ UNCHANGED <<kind, raced>>
  BY DEF IInv, TypeOK, CommitDelete, Answer
<1>5. Promised => i = Len(version)
  BY <1>1 DEF IInv, LineInv
<1> HIDE DEF i
<1>6. version[i] \in Version
  BY <1>2, <1>3 DEF Rows
<1>7. Gone(version[i]) \in Version
  BY <1>6 DEF Gone, Version
<1>8. /\ version' \in Seq(Version) /\ Len(version') = Len(version) /\ Rows' = Rows
      /\ version'[i] = Gone(version[i])
      /\ \A j \in Rows : j # i => version'[j] = version[j]
  BY <1>2, <1>3, <1>7 DEF Rows
<1>9. TypeOK'
  BY <1>8 DEF IInv, TypeOK, CommitDelete, Answer
<1>10. NamesInv'
  BY <1>4, <1>8 DEF IInv, NamesInv
<1>11. i \in Deleted'
  BY <1>2, <1>8 DEF Deleted, Gone
<1>12. NeverLost'
  BY <1>11 DEF NeverLost
<1>13. LineInv'
  <2> SUFFICES ASSUME Promised' PROVE LineInv'
    BY DEF LineInv
  <2>1. Promised /\ i = Len(version)
    BY <1>4, <1>5 DEF Promised
  <2>2. Active' = {}
    BY <1>8, <2>1 DEF IInv, LineInv, LastOnly, Active, Gone
  <2>3. \A s \in Requests : req'[s] = Idle
    BY <1>1, <1>4, <2>1 DEF IInv, LineInv
  <2>4. \A j \in Rows : version'[j].parent = version[j].parent
    BY <1>8 DEF Gone
  <2> QED
    BY <1>8, <2>1, <2>2, <2>3, <2>4 DEF IInv, LineInv, LastOnly
<1> QED
  BY <1>9, <1>10, <1>12, <1>13 DEF IInv

\* The first version.
LEMMA CreateStep ==
    ASSUME IInv, NEW status \in Status, Create(status)
    PROVE  IInv'
<1> USE DEF Create
<1>1. New(status, 0) \in Version
  BY ExpenseAssumption DEF New, Version
<1>2. /\ version' \in Seq(Version) /\ Len(version') = 1
      /\ version'[1] = New(status, 0) /\ Rows' = {1} /\ Rows = {}
  BY <1>1 DEF Rows
<1>3. TypeOK'
  BY <1>2, ExpenseAssumption DEF IInv, TypeOK
<1>4. \A r \in Requests : req[r] = Idle
  BY <1>2 DEF IInv, NamesInv
<1>5. NamesInv'
  BY <1>4 DEF NamesInv
<1>6. Active' = {1} /\ Deleted' = {}
  BY <1>2 DEF Active, Deleted, New
<1>7. NeverLost'
  BY <1>6 DEF NeverLost
<1>8. version'[1].status # "cancelled" /\ version'[1].parent = 0
  BY <1>2 DEF New
<1>9. LineInv'
  BY <1>2, <1>4, <1>6, <1>8 DEF LineInv, LastOnly
<1> QED
  BY <1>3, <1>5, <1>7, <1>9 DEF IInv

-----------------------------------------------------------------------------
\* Every step keeps the invariant.
LEMMA StepIInv == IInv /\ [Next]_vars => IInv'
<1> SUFFICES ASSUME IInv, [Next]_vars PROVE IInv'
  OBVIOUS
<1>1. ASSUME NEW status \in Status, Create(status) PROVE IInv'
  BY <1>1, CreateStep
<1>2. ASSUME NEW r \in Requests, NEW i \in Rows, Read(r, i) PROVE IInv'
  BY <1>2, ReadStep
<1>3. ASSUME NEW r \in Requests, Write(r) PROVE IInv'
  BY <1>3, ReplaceStep, RefuseStep, DeleteStep DEF Write, CommitEdit, CommitDecision
<1>4. CASE UNCHANGED vars
  BY <1>4 DEF vars, IInv, TypeOK, NamesInv, NeverLost, LineInv, Promised, Fits, LastOnly,
                Active, Deleted, Rows
<1> QED
  BY <1>1, <1>2, <1>3, <1>4 DEF Next

\* So it holds in every state.
LEMMA InvariantIInv == Spec => []IInv
<1> QED
  BY InitIInv, StepIInv, PTL DEF Spec

\* The type invariant.
THEOREM TypeCorrect == Spec => []TypeOK
<1>1. IInv => TypeOK
  BY DEF IInv
<1> QED
  BY <1>1, InvariantIInv, PTL

\* No expense is lost (editExpense, validateAndUpdateExpenseApproval): a version
\* of it is active unless it was deleted, whatever requests overlap on it.
THEOREM NotLost == Spec => []NeverLost
<1>1. IInv => NeverLost
  BY DEF IInv
<1> QED
  BY <1>1, InvariantIInv, PTL

\* The versions of a fuel expense are in line while requests do not overlap on
\* it, although they may name any old id (isActive: true in fuel-expense).
THEOREM InLine == Spec => []FuelInLine
<1>1. IInv => FuelInLine
  BY DEF IInv, LineInv, FuelInLine
<1> QED
  BY <1>1, InvariantIInv, PTL

-----------------------------------------------------------------------------
(* The versions implement one record.                                      *)

LEMMA InitRecord == Init => Record!Init
<1> SUFFICES ASSUME Init PROVE Record!Init
  OBVIOUS
<1>1. Rows = {}
  BY DEF Init, Rows
<1>2. Active = {} /\ Deleted = {}
  BY <1>1 DEF Active, Deleted
<1>3. Stage \in {"new", "open"}
  BY <1>2 DEF Init, Stage
<1>4. Seen = {}
  BY <1>2 DEF Seen
<1> QED
  BY <1>3, <1>4 DEF Record!Init

\* While a request works on a fuel expense alone, its readers see the status of
\* the version the request names.
LEMMA WorkSees ==
    ASSUME IInv, Promised, NEW r \in Requests, req[r] # Idle
    PROVE  /\ req[r].id = Len(version) /\ Fits(req[r])
           /\ Active = {req[r].id} /\ Deleted = {}
           /\ Stage = "kept" /\ Seen = {version[req[r].id].status}
<1>1. req[r].id = Len(version) /\ Fits(req[r]) /\ req[r].id \in Rows /\ Deleted = {}
  BY DEF IInv, LineInv, NamesInv
<1>2. version # <<>>
  BY <1>1 DEF Rows
<1>3. Active = {req[r].id}
  BY <1>1, <1>2 DEF IInv, NeverLost, LineInv, LastOnly
<1>4. Stage = "kept"
  BY <1>1, <1>2 DEF Stage
<1>5. Seen = {version[req[r].id].status}
  BY <1>3 DEF Seen
<1> QED
  BY <1>1, <1>3, <1>4, <1>5

\* A replaced version is a decision, or an edit, which the readers do not see.
LEMMA ReplaceRecord ==
    ASSUME IInv, IInv', Promised, Promised', NEW r \in Requests,
           req[r].step \in {"editing", "deciding"}, Len(version) < MaxVersions,
           version' = Replace(req[r].id, req[r].to)
    PROVE  [Record!Next]_<<Stage, Seen>>
<1> DEFINE i == req[r].id
           to == req[r].to
<1>1. req[r] \in Changing /\ req[r] # Idle
  BY CallOfStep DEF IInv
<1>2. i \in Rows /\ to \in Status
  BY <1>1 DEF IInv, NamesInv, Changing
<1>3. Fits(req[r]) /\ Deleted = {} /\ Stage = "kept" /\ Seen = {version[i].status}
  BY <1>1, WorkSees
<1>4. version \in Seq(Version) /\ version' = Replace(i, to)
  BY DEF IInv, TypeOK
<1> HIDE DEF i, to
<1>5. /\ version' \in Seq(Version) /\ Len(version') = Len(version) + 1
      /\ version'[Len(version')] = New(to, i)
      /\ \A j \in Rows : j # i => version'[j] = version[j]
      /\ version'[i] = Off(version[i])
  BY <1>2, <1>4, ReplaceRow
<1>6. Rows' = Rows \cup {Len(version')} /\ Len(version') \in Rows' /\ version' # <<>>
  BY <1>4, <1>5 DEF Rows
<1>7. version'[Len(version')].active /\ ~version'[Len(version')].deleted
      /\ version'[Len(version')].status = to
  BY <1>5 DEF New
<1>8. Active' = {Len(version')}
  <2>1. LastOnly'
    BY DEF IInv, LineInv
  <2>2. Len(version') \in Active'
    BY <1>6, <1>7 DEF Active
  <2> QED
    BY <2>1, <2>2 DEF LastOnly
<1>9. Deleted' = {}
  BY <1>8 DEF IInv, LineInv
<1>10. Stage' = "kept"
  BY <1>6, <1>9 DEF Stage
<1>11. Seen' = {to}
  BY <1>7, <1>8 DEF Seen
<1>12. \/ version[i].status = "pending" /\ to \in {"pending", "approved", "rejected", "cancelled"}
       \/ version[i].status = "approved" /\ to = "rejected"
       \/ version[i].status = "rejected" /\ to = "approved"
  BY <1>3 DEF i, to, Fits, Transitions
<1>13. CASE to = version[i].status
  BY <1>3, <1>10, <1>11, <1>13
<1>14. CASE to # version[i].status
  <2>1. Record!Decide
    BY <1>3, <1>10, <1>11, <1>12, <1>14 DEF Record!Decide
  <2> QED
    BY <2>1 DEF Record!Next
<1> QED
  BY <1>13, <1>14

\* Every step of the services is a step of the record or none.
LEMMA StepRecord ==
    ASSUME IInv, IInv', [Next]_vars
    PROVE  [Record!Next]_<<Stage, Seen>>
<1>1. CASE ~Promised'
  <2>1. Record!Overlap
    BY <1>1 DEF Record!Overlap, Stage, Seen
  <2> QED
    BY <2>1 DEF Record!Next
<1>2. CASE UNCHANGED <<kind, version, raced>>
  BY <1>2 DEF Stage, Seen, Promised, Active, Deleted, Rows
<1>3. ASSUME NEW status \in Status, Create(status), Promised'
      PROVE  [Record!Next]_<<Stage, Seen>>
  <2> USE <1>3 DEF Create
  <2>1. Promised /\ Rows = {} /\ Rows' = {1} /\ version'[1] = New(status, 0) /\ version' # <<>>
    BY DEF Promised, Rows
  <2>2. Active = {} /\ Deleted = {} /\ Active' = {1} /\ Deleted' = {}
    BY <2>1 DEF Active, Deleted, New
  <2>3. Stage = "new" /\ Stage' = "kept"
    BY <2>1, <2>2 DEF Stage
  <2>4. Seen' = {status}
    BY <2>1, <2>2 DEF Seen, New
  <2>5. Record!Enter
    BY <2>3, <2>4 DEF Record!Enter
  <2> QED
    BY <2>5 DEF Record!Next
<1>4. ASSUME NEW r \in Requests, Write(r), Promised'
      PROVE  [Record!Next]_<<Stage, Seen>>
  <2>1. Promised
    BY <1>4 DEF Promised, Write, CommitEdit, RefuseDecision, CommitDecision, CommitDelete, Answer
  <2>2. CASE CommitEdit(r) \/ CommitDecision(r)
    BY <1>4, <2>1, <2>2, ReplaceRecord DEF CommitEdit, CommitDecision
  <2>3. CASE RefuseDecision(r)
    BY <1>2, <2>3 DEF RefuseDecision, Answer
  <2>4. CASE CommitDelete(r)
    <3>1. req[r] # Idle /\ req[r].step = "deleting"
      BY <2>4, CallOfStep DEF CommitDelete, IInv
    <3>2. Stage = "kept"
      BY <2>1, <3>1, WorkSees
    <3>3. req[r].id \in Rows /\ version \in Seq(Version)
      BY <3>1 DEF IInv, NamesInv, TypeOK
    <3>4. version' = [version EXCEPT ![req[r].id] = Gone(@)]
      BY <2>4 DEF CommitDelete
    <3>5. Rows' = Rows /\ version'[req[r].id] = Gone(version[req[r].id]) /\ version' # <<>>
      BY <3>3, <3>4 DEF Rows
    <3>6. Deleted' # {}
      BY <3>3, <3>5 DEF Deleted, Gone
    <3>7. Active' = {}
      BY <1>4, <3>6 DEF IInv, LineInv
    <3>8. Stage' = "removed" /\ Seen' = {}
      BY <1>4, <3>5, <3>6, <3>7 DEF Stage, Seen
    <3>9. Record!Remove
      BY <3>2, <3>8 DEF Record!Remove
    <3> QED
      BY <3>9 DEF Record!Next
  <2> QED
    BY <1>4, <2>2, <2>3, <2>4 DEF Write
<1>5. ASSUME NEW r \in Requests, NEW i \in Rows, Read(r, i), Promised'
      PROVE  [Record!Next]_<<Stage, Seen>>
  <2>1. UNCHANGED <<kind, version>> /\ (raced => raced')
    BY <1>5 DEF Read, ReadForEdit, ReadForDecision, ReadForDelete, Take
  <2>2. ~raced /\ ~raced' /\ raced \in BOOLEAN /\ raced' \in BOOLEAN
    BY <1>5, <2>1 DEF Promised, IInv, TypeOK
  <2> QED
    BY <1>2, <2>1, <2>2
<1>6. CASE UNCHANGED vars
  BY <1>2, <1>6 DEF vars
<1> QED
  BY <1>1, <1>3, <1>4, <1>5, <1>6 DEF Next

\* A fuel expense is one record to its readers while requests do not overlap on
\* it (handleSingleFuelExpenseApproval, editFuelExpense, delete).
THEOREM OneRecord == Spec => FuelIsOneRecord
<1>1. Spec => Record!Init
  BY InitRecord DEF Spec
<1>2. IInv /\ IInv' /\ [Next]_vars => [Record!Next]_<<Stage, Seen>>
  BY StepRecord
<1> QED
  BY <1>1, <1>2, InvariantIInv, PTL DEF Spec, FuelIsOneRecord, Record!Spec, Record!record
=============================================================================
