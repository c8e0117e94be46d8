----------------------- MODULE SalaryStructures_proofs -----------------------
(***************************************************************************)
(* The nightly job never leaves an employee without a salary, for every    *)
(* number of days, structures, overlapping requests and failures.          *)
(***************************************************************************)
EXTENDS SalaryStructures, TLAPS

\* Requests and the job name rows that exist; what the job has listed for
\* activation, and what it has in hand, has begun.
NamesInv ==
    /\ \A r \in Requests : req[r].step = "raising" => req[r].id \in Rows
    /\ night.step \in {"started", "deactivating", "reading"} => night.todo \subseteq Rows
    /\ night.step \in {"activating", "superseding", "switching"} =>
         night.todo \subseteq Begun(night.date)
    /\ night.step \in {"superseding", "switching"} => night.id \in Begun(night.date)
    /\ night.step = "superseding" => night.current \in Rows

IInv == TypeOK /\ NamesInv /\ NightEndsCovered

-----------------------------------------------------------------------------
\* The step of the job tells which record it is.
LEMMA NightOfStep ==
    ASSUME TypeOK
    PROVE  /\ night.step \in {"started", "deactivating", "reading", "activating"}
                => night \in NightList
           /\ night.step \in {"superseding", "switching"} => night \in NightTurn
           /\ night.step \in {"started", "deactivating", "reading", "activating",
                              "superseding", "switching"} => night # Idle
BY DEF TypeOK, NightList, NightTurn, Idle

\* The same for a request.
LEMMA CallOfStep ==
    ASSUME TypeOK, NEW r \in Requests
    PROVE  /\ req[r].step = "creating" => req[r] \in CreateCall
           /\ req[r].step = "raising" => req[r] \in RaiseCall
BY DEF TypeOK, CreateCall, RaiseCall, Idle

\* Ending a row keeps the rows what they are, and their beginnings.
LEMMA EndRow ==
    ASSUME row \in Seq(Row), NEW i \in Rows, NEW from \in Starts,
           NEW s, s = [row EXCEPT ![i] = Ended(@, from)]
    PROVE  /\ s \in Seq(Row) /\ Len(s) = Len(row) /\ DOMAIN s = Rows
           /\ \A j \in Rows : s[j].from = row[j].from /\ (j # i => s[j] = row[j])
<1>1. row[i] \in Row
  BY DEF Rows
<1>2. Ended(row[i], from) \in Row /\ Ended(row[i], from).from = row[i].from
  BY <1>1, SalaryAssumption DEF Row, Ended, DayBefore, Starts, NoEnd
<1> QED
  BY <1>2 DEF Rows

\* Initially nothing runs.
LEMMA InitIInv == Init => IInv
<1> SUFFICES ASSUME Init PROVE IInv
  OBVIOUS
<1>1. TypeOK
  BY SalaryAssumption DEF Init, TypeOK, Days, Idle
<1>2. NamesInv
  BY DEF Init, NamesInv, Idle
<1>3. NightEndsCovered
  BY DEF Init, NightEndsCovered, Over, Idle
<1> QED
  BY <1>1, <1>2, <1>3 DEF IInv

-----------------------------------------------------------------------------
(* Requests.                                                               *)

\* A request that reads changes nothing else.
LEMMA ReadStep ==
    ASSUME IInv, NEW r \in Requests, NEW c \in CreateCall \cup RaiseCall \cup {Idle},
           c.step = "raising" => c.id \in Rows,
           req' = [req EXCEPT ![r] = c],
           UNCHANGED <<today, row, night, clean, failures>>
    PROVE  IInv'
<1>1. TypeOK'
  BY DEF IInv, TypeOK
<1>2. NamesInv'
  BY DEF IInv, NamesInv, TypeOK, Rows, Begun
<1>3. NightEndsCovered'
  BY DEF IInv, NightEndsCovered, Over, Begun, InForce, Active, Rows
<1> QED
  BY <1>1, <1>2, <1>3 DEF IInv

LEMMA ReadForCreateStep ==
    ASSUME IInv, NEW r \in Requests, NEW from \in Starts, ReadForCreate(r, from)
    PROVE  IInv'
<1> DEFINE c == [step |-> "creating", from |-> from]
<1>1. c \in CreateCall /\ c.step # "raising"
  BY DEF CreateCall
<1> QED
  BY <1>1, ReadStep DEF ReadForCreate

LEMMA ReadForIncrementStep ==
    ASSUME IInv, NEW r \in Requests, NEW from \in Starts, ReadForIncrement(r, from)
    PROVE  IInv'
<1>1. PICK i \in Current :
        req' = [req EXCEPT ![r] = [step |-> "raising", from |-> from, id |-> i]]
  BY DEF ReadForIncrement
<1>2. i \in Rows
  BY DEF Current, Latest, Active
<1>3. i \in Ids
  BY <1>2, SalaryAssumption DEF IInv, TypeOK, Rows, Ids
<1> DEFINE c == [step |-> "raising", from |-> from, id |-> i]
<1>4. c \in RaiseCall /\ c.id \in Rows
  BY <1>2, <1>3 DEF RaiseCall
<1> QED
  BY <1>1, <1>4, ReadStep DEF ReadForIncrement

\* A row more, the others with the same beginning: the names stay good.
LEMMA CommitStep ==
    ASSUME IInv, NEW r \in Requests, row' \in Seq(Row), Len(row') <= MaxRows,
           Rows \subseteq Rows', \A i \in Rows : row'[i].from = row[i].from,
           req' = [req EXCEPT ![r] = Idle], clean' = FALSE,
           UNCHANGED <<today, night, failures>>
    PROVE  IInv'
<1>1. TypeOK'
  BY DEF IInv, TypeOK
<1>2. Begun(night.date) \subseteq Begun(night.date)'
  BY DEF Begun
<1>3. NamesInv'
  BY <1>2 DEF IInv, NamesInv, TypeOK, Idle
<1>4. NightEndsCovered'
  BY DEF NightEndsCovered
<1> QED
  BY <1>1, <1>3, <1>4 DEF IInv

LEMMA CommitCreateStep ==
    ASSUME IInv, NEW r \in Requests, CommitCreate(r)
    PROVE  IInv'
<1> DEFINE new == [from |-> req[r].from, to |-> NoEnd, active |-> TRUE]
<1>1. req[r] \in CreateCall
  BY CallOfStep DEF IInv, CommitCreate
<1>2. new \in Row
  BY <1>1, SalaryAssumption DEF CreateCall, Row, NoEnd
<1>3. row \in Seq(Row) /\ row' = Append(row, new) /\ Len(row) < MaxRows
  BY DEF IInv, TypeOK, CommitCreate
<1>4. row' \in Seq(Row) /\ Len(row') = Len(row) + 1
      /\ \A i \in 1..Len(row) : row'[i] = row[i]
  BY <1>2, <1>3
<1>5. Len(row') <= MaxRows /\ Rows \subseteq Rows' /\ \A i \in Rows : row'[i].from = row[i].from
  BY <1>3, <1>4, SalaryAssumption DEF Rows
<1> QED
  BY <1>4, <1>5, CommitStep DEF CommitCreate

LEMMA CommitIncrementStep ==
    ASSUME IInv, NEW r \in Requests, CommitIncrement(r)
    PROVE  IInv'
<1> DEFINE new == [from |-> req[r].from, to |-> NoEnd, active |-> TRUE]
           ended == [row EXCEPT ![req[r].id] = Ended(@, req[r].from)]
<1>1. req[r] \in RaiseCall /\ req[r].id \in Rows
  BY CallOfStep DEF IInv, CommitIncrement, NamesInv
<1>2. new \in Row
  BY <1>1, SalaryAssumption DEF RaiseCall, Row, NoEnd
<1>3. row \in Seq(Row) /\ row' = Append(ended, new) /\ Len(row) < MaxRows
  BY DEF IInv, TypeOK, CommitIncrement
<1>4. req[r].from \in Starts
  BY <1>1 DEF RaiseCall
<1>5. /\ ended \in Seq(Row) /\ Len(ended) = Len(row)
      /\ \A i \in Rows : ended[i].from = row[i].from
  <2> DEFINE id == req[r].id  from == req[r].from
  <2>1. row \in Seq(Row) /\ id \in Rows /\ from \in Starts
    BY <1>1, <1>3, <1>4
  <2>2. ended = [row EXCEPT ![id] = Ended(@, from)]
    OBVIOUS
  <2> HIDE DEF id, from, ended
  <2> QED
    BY <2>1, <2>2, EndRow
<1>6. row' \in Seq(Row) /\ Len(row') = Len(row) + 1
      /\ \A i \in 1..Len(row) : row'[i] = ended[i]
  BY <1>2, <1>3, <1>5
<1>7. Len(row') <= MaxRows /\ Rows \subseteq Rows' /\ \A i \in Rows : row'[i].from = row[i].from
  BY <1>3, <1>5, <1>6, SalaryAssumption DEF Rows
<1> QED
  BY <1>6, <1>7, CommitStep DEF CommitIncrement

-----------------------------------------------------------------------------
(* The job.  A step of it writes rows, or none, and moves on.              *)

\* What a step of the job keeps of the rows.
KeepsRows ==
    /\ row' \in Seq(Row) /\ Len(row') = Len(row) /\ DOMAIN row' = Rows
    /\ \A i \in Rows : row'[i].from = row[i].from

LEMMA SwitchOff ==
    ASSUME IInv, NEW i \in Rows, row' = [row EXCEPT ![i].active = FALSE]
    PROVE  KeepsRows
<1>1. row \in Seq(Row) /\ row[i] \in Row
  BY DEF IInv, TypeOK, Rows
<1>2. [row[i] EXCEPT !.active = FALSE] \in Row
  BY <1>1 DEF Row
<1> QED
  BY <1>1, <1>2 DEF KeepsRows, Rows, Row

LEMMA SwitchOn ==
    ASSUME IInv, NEW i \in Rows, row' = [row EXCEPT ![i].active = TRUE]
    PROVE  KeepsRows /\ row'[i].active
<1>1. row \in Seq(Row) /\ row[i] \in Row
  BY DEF IInv, TypeOK, Rows
<1>2. [row[i] EXCEPT !.active = TRUE] \in Row
  BY <1>1 DEF Row
<1> QED
  BY <1>1, <1>2 DEF KeepsRows, Rows, Row

LEMMA SameRows == ASSUME IInv, UNCHANGED row PROVE KeepsRows
BY DEF IInv, TypeOK, KeepsRows, Rows

\* What has begun stays what has begun.
LEMMA SameBegun ==
    ASSUME KeepsRows, NEW d
    PROVE  Begun(d)' = Begun(d)
BY DEF KeepsRows, Begun, Rows

LEMMA FailStep ==
    ASSUME IInv, Fail
    PROVE  failures' \in 0..MaxFailures /\ clean' = FALSE
BY SalaryAssumption DEF IInv, TypeOK, Fail

\* A step of the job preserves the invariant if its new record fits the rows,
\* and if it ends the list covered or unclean.
LEMMA JobStep ==
    ASSUME IInv, KeepsRows, UNCHANGED <<today, req>>,
           clean' \in BOOLEAN, failures' \in 0..MaxFailures,
           night' \in NightList \cup NightTurn \cup {Idle},
           night'.step \in {"started", "deactivating", "reading"} => night'.todo \subseteq Rows,
           night'.step \in {"activating", "superseding", "switching"} =>
               night'.todo \subseteq Begun(night'.date),
           night'.step \in {"superseding", "switching"} => night'.id \in Begun(night'.date),
           night'.step = "superseding" => night'.current \in Rows,
           NightEndsCovered'
    PROVE  IInv'
<1>1. TypeOK'
  BY DEF IInv, TypeOK, KeepsRows
<1>2. Rows' = Rows
  BY DEF KeepsRows, Rows
<1>3. Begun(night.date)' = Begun(night'.date)
  BY <1>2 DEF KeepsRows, Begun
<1>4. NamesInv'
  BY <1>2, <1>3 DEF IInv, NamesInv
<1> QED
  BY <1>1, <1>4 DEF IInv
LEMMA StartStep ==
    ASSUME IInv, NEW date \in 0..LastDay, Start(date)
    PROVE  IInv'
<1>1. night' \in NightList /\ night'.step = "started" /\ night'.todo = {}
  BY DEF Start, NightList
<1>2. KeepsRows /\ clean' \in BOOLEAN /\ failures' \in 0..MaxFailures
  BY SameRows DEF Start, IInv, TypeOK
<1>3. NightEndsCovered'
  BY <1>1 DEF NightEndsCovered, Over
<1> QED
  BY <1>1, <1>2, <1>3, JobStep DEF Start

LEMMA ReadExpiredStep ==
    ASSUME IInv, ReadExpired
    PROVE  IInv'
<1>1. night \in NightList /\ night.todo \subseteq Rows /\ Rows \subseteq Ids
  BY NightOfStep, SalaryAssumption DEF IInv, ReadExpired, NamesInv, TypeOK, Rows, Ids
<1>2. /\ night' \in NightList /\ night'.step \in {"deactivating", "reading"}
      /\ night'.todo \subseteq Rows
  <2>1. CASE night' = [night EXCEPT !.step = "deactivating",
                                    !.todo = {i \in Active : row[i].to < night.date}]
    BY <1>1, <2>1 DEF NightList, Active
  <2>2. CASE night' = [night EXCEPT !.step = "reading"]
    BY <1>1, <2>2 DEF NightList
  <2> QED
    BY <2>1, <2>2 DEF ReadExpired
<1>3. clean' \in BOOLEAN /\ failures' \in 0..MaxFailures
  BY FailStep DEF ReadExpired, IInv, TypeOK
<1>4. KeepsRows /\ NightEndsCovered'
  BY <1>2, SameRows DEF ReadExpired, NightEndsCovered, Over
<1> QED
  BY <1>2, <1>3, <1>4, JobStep DEF ReadExpired

LEMMA DeactivateStep ==
    ASSUME IInv, Deactivate
    PROVE  IInv'
<1>1. night \in NightList /\ night.todo \subseteq Rows
  BY NightOfStep DEF IInv, Deactivate, NamesInv
<1>2. PICK i \in night.todo :
        /\ night' = [night EXCEPT !.todo = @ \ {i}]
        /\ \/ row' = [row EXCEPT ![i].active = FALSE] /\ UNCHANGED <<clean, failures>>
           \/ Fail /\ UNCHANGED row
  BY DEF Deactivate
<1>3. night' \in NightList /\ night'.step = "deactivating" /\ night'.todo \subseteq Rows
  BY <1>1, <1>2 DEF NightList, Deactivate
<1>4. clean' \in BOOLEAN /\ failures' \in 0..MaxFailures
  BY <1>2, FailStep DEF IInv, TypeOK
<1>5. KeepsRows
  <2>1. CASE row' = [row EXCEPT ![i].active = FALSE]
    BY <1>1, <2>1, SwitchOff
  <2>2. CASE UNCHANGED row
    BY <2>2, SameRows
  <2> QED
    BY <1>2, <2>1, <2>2
<1>6. NightEndsCovered'
  BY <1>3 DEF NightEndsCovered, Over
<1> QED
  BY <1>3, <1>4, <1>5, <1>6, JobStep DEF Deactivate

\* If nothing is pending, all that has begun is in force.
LEMMA ReadPendingStep ==
    ASSUME IInv, ReadPending
    PROVE  IInv'
<1>1. night \in NightList /\ Rows \subseteq Ids
  BY NightOfStep, SalaryAssumption DEF IInv, ReadPending, TypeOK, Rows, Ids
<1>2. CASE night' = [night EXCEPT !.step = "activating", !.todo = Pending(night.date)]
           /\ UNCHANGED <<clean, failures>>
  <2>1. /\ night' \in NightList /\ night'.step = "activating"
        /\ night'.todo = Pending(night.date) /\ night'.date = night.date
    BY <1>1, <1>2 DEF NightList, Pending, Begun
  <2>2. KeepsRows
    BY SameRows DEF ReadPending
  <2>3. NightEndsCovered'
    BY <2>1 DEF ReadPending, NightEndsCovered, Over, Pending, InForce, Active, Begun, Rows
  <2>4. clean' \in BOOLEAN /\ failures' \in 0..MaxFailures
    BY <1>2 DEF IInv, TypeOK
  <2> QED
    BY <2>1, <2>2, <2>3, <2>4, JobStep DEF ReadPending, Pending
<1>3. CASE Fail /\ night' = [night EXCEPT !.step = "activating", !.todo = {}]
  <2>1. night' \in NightList /\ night'.step = "activating" /\ night'.todo = {}
    BY <1>1, <1>3 DEF NightList
  <2>2. KeepsRows
    BY SameRows DEF ReadPending
  <2>3. clean' = FALSE /\ failures' \in 0..MaxFailures
    BY <1>3, FailStep
  <2>4. NightEndsCovered'
    BY <2>3 DEF NightEndsCovered
  <2> QED
    BY <2>1, <2>2, <2>3, <2>4, JobStep DEF ReadPending
<1> QED
  BY <1>2, <1>3 DEF ReadPending

LEMMA ReadCurrentStep ==
    ASSUME IInv, ReadCurrent
    PROVE  IInv'
<1>1. night \in NightList /\ night.todo \subseteq Begun(night.date) /\ Rows \subseteq Ids
  BY NightOfStep, SalaryAssumption DEF IInv, ReadCurrent, NamesInv, TypeOK, Rows, Ids
<1>2. KeepsRows
  BY SameRows DEF ReadCurrent
<1>3. PICK i \in First(night.todo) :
        \/ \E c \in IF Active = {} THEN {0} ELSE Active :
             /\ night' = [step |-> IF c \in {0, i} THEN "switching" ELSE "superseding",
                          date |-> night.date, todo |-> night.todo, id |-> i, current |-> c]
             /\ UNCHANGED <<clean, failures>>
        \/ Fail /\ night' = [night EXCEPT !.todo = @ \ {i}]
  BY DEF ReadCurrent
<1>4. i \in night.todo /\ i \in Begun(night.date) /\ i \in Ids
  BY <1>1 DEF First, Begun
<1>5. ASSUME NEW c \in IF Active = {} THEN {0} ELSE Active,
             night' = [step |-> IF c \in {0, i} THEN "switching" ELSE "superseding",
                       date |-> night.date, todo |-> night.todo, id |-> i, current |-> c],
             UNCHANGED <<clean, failures>>
      PROVE  IInv'
  <2>1. c \in Rows \cup {0}
    BY DEF Active
  <2>2. c \in 0..MaxRows
    BY <1>1, <2>1, SalaryAssumption DEF Ids
  <2>3. /\ night' \in NightTurn /\ night'.step \in {"switching", "superseding"}
        /\ night'.todo = night.todo /\ night'.date = night.date /\ night'.id = i
        /\ night'.step = "superseding" => night'.current \in Rows
    BY <1>1, <1>4, <1>5, <2>1, <2>2 DEF NightTurn, NightList
  <2>4. NightEndsCovered'
    BY <2>3 DEF NightEndsCovered, Over
  <2>5. clean' \in BOOLEAN /\ failures' \in 0..MaxFailures
    BY <1>5 DEF IInv, TypeOK
  <2> QED
    BY <1>1, <1>2, <1>4, <2>3, <2>4, <2>5, JobStep DEF ReadCurrent
<1>6. CASE Fail /\ night' = [night EXCEPT !.todo = @ \ {i}]
  <2>1. /\ night' \in NightList /\ night'.step = "activating"
        /\ night'.todo \subseteq night.todo /\ night'.date = night.date
    BY <1>1, <1>6 DEF NightList, ReadCurrent
  <2>2. clean' = FALSE /\ failures' \in 0..MaxFailures
    BY <1>6, FailStep
  <2>3. NightEndsCovered'
    BY <2>2 DEF NightEndsCovered
  <2> QED
    BY <1>1, <1>2, <2>1, <2>2, <2>3, JobStep DEF ReadCurrent
<1> QED
  BY <1>3, <1>5, <1>6

\* The next turn, after a step that failed or an activation.
LEMMA TurnRecord ==
    ASSUME IInv, night.step \in {"superseding", "switching"}, NextTurn
    PROVE  /\ night' \in NightList /\ night'.step = "activating"
           /\ night'.todo \subseteq Begun(night'.date) /\ night'.date = night.date
<1>1. night \in NightTurn /\ night.todo \subseteq Begun(night.date)
  BY NightOfStep DEF IInv, NamesInv
<1> QED
  BY <1>1 DEF NextTurn, NightTurn, NightList

LEMMA SupersedeStep ==
    ASSUME IInv, Supersede
    PROVE  IInv'
<1>1. /\ night \in NightTurn /\ night.todo \subseteq Begun(night.date)
      /\ night.id \in Begun(night.date) /\ night.current \in Rows
  BY NightOfStep DEF IInv, Supersede, NamesInv
<1>2. CASE /\ row' = [row EXCEPT ![night.current] = Ended(@, row[night.id].from)]
           /\ night' = [night EXCEPT !.step = "switching"]
           /\ UNCHANGED <<clean, failures>>
  <2>1. row \in Seq(Row) /\ night.id \in Rows
    BY <1>1 DEF IInv, TypeOK, Begun
  <2>2. row[night.id] \in Row
    BY <2>1 DEF Rows
  <2>3. row[night.id].from \in Starts
    BY <2>2 DEF Row
  <2>4. KeepsRows
    BY <1>1, <1>2, <2>1, <2>3, EndRow DEF KeepsRows
  <2>5. /\ night' \in NightTurn /\ night'.step = "switching" /\ night'.todo = night.todo
        /\ night'.date = night.date /\ night'.id = night.id
    BY <1>1, <1>2 DEF NightTurn
  <2>6. NightEndsCovered'
    BY <2>5 DEF NightEndsCovered, Over
  <2>7. clean' \in BOOLEAN /\ failures' \in 0..MaxFailures
    BY <1>2 DEF IInv, TypeOK
  <2> QED
    BY <1>1, <2>4, <2>5, <2>6, <2>7, JobStep DEF Supersede
<1>3. CASE Fail /\ NextTurn /\ UNCHANGED row
  <2>1. clean' = FALSE /\ failures' \in 0..MaxFailures
    BY <1>3, FailStep
  <2>2. KeepsRows /\ NightEndsCovered'
    BY <1>3, <2>1, SameRows DEF NightEndsCovered
  <2> QED
    BY <1>3, <2>1, <2>2, TurnRecord, JobStep DEF Supersede
<1> QED
  BY <1>2, <1>3 DEF Supersede

\* The structure that is switched on has begun: the employee is covered.
LEMMA ActivateStep ==
    ASSUME IInv, Activate
    PROVE  IInv'
<1>1. night.id \in Begun(night.date) /\ night.id \in Rows
  BY DEF IInv, Activate, NamesInv, Begun
<1>2. CASE row' = [row EXCEPT ![night.id].active = TRUE] /\ UNCHANGED <<clean, failures>>
  <2>1. KeepsRows /\ row'[night.id].active
    BY <1>1, <1>2, SwitchOn
  <2>2. night'.date = night.date
    BY TurnRecord DEF Activate
  <2>3. night.id \in InForce(night.date)'
    BY <1>1, <2>1, <2>2 DEF InForce, Active, Begun, KeepsRows, Rows
  <2>4. NightEndsCovered'
    BY <2>3 DEF NightEndsCovered
  <2>5. clean' \in BOOLEAN /\ failures' \in 0..MaxFailures
    BY <1>2 DEF IInv, TypeOK
  <2> QED
    BY <2>1, <2>4, <2>5, TurnRecord, JobStep DEF Activate
<1>3. CASE Fail /\ UNCHANGED row
  <2>1. clean' = FALSE /\ failures' \in 0..MaxFailures
    BY <1>3, FailStep
  <2>2. KeepsRows /\ NightEndsCovered'
    BY <1>3, <2>1, SameRows DEF NightEndsCovered
  <2> QED
    BY <2>1, <2>2, TurnRecord, JobStep DEF Activate
<1> QED
  BY <1>2, <1>3 DEF Activate

LEMMA StopStep ==
    ASSUME IInv, EndNight \/ Crash
    PROVE  IInv'
<1>1. KeepsRows /\ night' = Idle /\ UNCHANGED <<today, req>>
  BY SameRows DEF EndNight, Crash
<1>2. clean' \in BOOLEAN /\ failures' \in 0..MaxFailures
  BY FailStep DEF EndNight, Crash, IInv, TypeOK
<1>3. NightEndsCovered'
  BY <1>1 DEF NightEndsCovered, Over, Idle
<1> QED
  BY <1>1, <1>2, <1>3, JobStep DEF Idle

LEMMA NextDayStep ==
    ASSUME IInv, NextDay
    PROVE  IInv'
<1>1. TypeOK'
  BY SalaryAssumption DEF IInv, TypeOK, NextDay, Days
<1>2. NamesInv'
  BY DEF IInv, NamesInv, NextDay, Rows, Begun
<1>3. NightEndsCovered'
  BY DEF NightEndsCovered, NextDay, Over, Idle
<1> QED
  BY <1>1, <1>2, <1>3 DEF IInv

LEMMA StutterStep ==
    ASSUME IInv, UNCHANGED vars
    PROVE  IInv'
BY DEF IInv, TypeOK, NamesInv, NightEndsCovered, Over, Begun, InForce, Active, Rows, vars

-----------------------------------------------------------------------------
\* Every step preserves the invariant.
LEMMA NextIInv == IInv /\ [Next]_vars => IInv'
<1> SUFFICES ASSUME IInv, [Next]_vars PROVE IInv'
  OBVIOUS
<1>1. ASSUME NEW r \in Requests, Call(r) PROVE IInv'
  BY <1>1, ReadForCreateStep, ReadForIncrementStep, CommitCreateStep, CommitIncrementStep
     DEF Call
<1>2. CASE StartNight \/ StartByHand
  <2>1. today \in 0..LastDay /\ today - 1 \in 0..LastDay
    BY SalaryAssumption DEF IInv, TypeOK, Days
  <2> QED
    BY <1>2, <2>1, StartStep DEF StartNight, StartByHand
<1>3. CASE Work
  BY <1>3, ReadExpiredStep, DeactivateStep, ReadPendingStep, ReadCurrentStep,
     SupersedeStep, ActivateStep, StopStep DEF Work
<1>4. CASE Crash
  BY <1>4, StopStep
<1>5. CASE NextDay
  BY <1>5, NextDayStep
<1>6. CASE UNCHANGED vars
  BY <1>6, StutterStep
<1> QED
  BY <1>1, <1>2, <1>3, <1>4, <1>5, <1>6 DEF Next

\* The types of the variables, for every number of days, rows and requests.
THEOREM TypeCorrect == Spec => []TypeOK
<1>1. IInv => TypeOK
  BY DEF IInv
<1> QED
  BY InitIInv, NextIInv, <1>1, PTL DEF Spec

\* An undisturbed night never ends with an employee whose structure has begun
\* and who has none in force, wherever the nights before it were cut short
\* (salary-structure.cron.service.ts).
THEOREM NightsCover == Spec => []NightEndsCovered
<1>1. IInv => NightEndsCovered
  BY DEF IInv
<1> QED
  BY InitIInv, NextIInv, <1>1, PTL DEF Spec
=============================================================================
