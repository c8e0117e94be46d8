---------------------------- MODULE LeaveYear_proofs ----------------------------
(* One active setting per year, one balance per employee and year, and no  *)
(* balance below what was there before the accruals and payrolls that are  *)
(* in flight, for any number of settings, employees and runs.              *)
EXTENDS LeaveYear, TLAPS

AnyRun == {Idle} \cup Listing \cup Switching \cup Copying \cup Joining
            \cup Accruing \cup Crediting \cup Paying

-----------------------------------------------------------------------------
(* The calendar.                                                           *)

LEMMA Division ==
    ASSUME NEW a \in Nat, NEW b \in Nat \ {0}
    PROVE  a \div b \in Nat
OBVIOUS

LEMMA Product ==
    ASSUME NEW a \in Nat, NEW b \in Nat
    PROVE  a * b \in Nat
OBVIOUS

LEMMA Calendar ==
    /\ YearLength \in Nat \ {0}
    /\ \A y \in Years : FirstOf(y) \in Starts /\ LastOf(y) \in Ends
    /\ \A day \in Days : FirstOf(YearOf(day)) <= day /\ YearOf(day) \in Years
    /\ FormStarts \subseteq Starts /\ FormEnds \subseteq Ends
<1>1. YearLength \in Nat \ {0}
  BY LeaveYearAssumption DEF YearLength
<1>2. /\ NewYear <= YearLength + 1 /\ LastDay < NewYear + YearLength
      /\ FormEnds \subseteq 1..(NewYear + YearLength)
  BY LeaveYearAssumption DEF YearLength
<1>3. /\ \A y \in Years : FirstOf(y) \in Starts /\ LastOf(y) \in Ends
      /\ \A day \in Days : FirstOf(YearOf(day)) <= day /\ YearOf(day) \in Years
  BY <1>1, <1>2, LeaveYearAssumption DEF FirstOf, LastOf, YearOf, Starts, Ends, Years, Days
<1>4. FormStarts \subseteq Starts /\ FormEnds \subseteq Ends
  BY <1>1, <1>2, LeaveYearAssumption DEF Starts, Ends, Days
<1> QED
  BY <1>1, <1>3, <1>4

LEMMA AmountsAreNumbers ==
    ASSUME NEW day \in Days
    PROVE  Scheduled(MonthOf(day)) \in Totals /\ ByHand(MonthOf(day)) \in Totals
<1> DEFINE m == MonthOf(day)
<1>1. m \in Nat
  <2>1. day - FirstOf(YearOf(day)) \in Nat
    BY Calendar, LeaveYearAssumption DEF Days, Years, Starts
  <2> QED
    BY <2>1, Division, LeaveYearAssumption DEF MonthOf
<1> HIDE DEF m
<1>2. Quota * m \in Nat /\ Precision * Quota * m \in Nat
  BY <1>1, Product, LeaveYearAssumption
<1>3. (Quota * m) \div Months \in Nat /\ (Precision * Quota * m) \div Months \in Nat
  BY <1>2, Division, LeaveYearAssumption
<1>4. Precision * ((Quota * m) \div Months) \in Nat
  BY <1>3, Product, LeaveYearAssumption
<1> QED
  BY <1>3, <1>4 DEF Scheduled, ByHand, Totals, m

-----------------------------------------------------------------------------
(* Types.                                                                  *)

\* Of all that a step reads: it does not read the floor.
StateOK ==
    /\ today \in Days
    /\ setting \in Seq(Setting)
    /\ Len(setting) <= MaxSettings
    /\ staff \subseteq Users
    /\ balance \in [Users -> [Years -> Seq(Totals)]]
    /\ run \in [Runs -> AnyRun]
    /\ overlap \subseteq {"activation", "accrual"}
    /\ early \in BOOLEAN /\ disturbed \in BOOLEAN
    /\ faults \in 0..MaxFaults

FloorOK == floor \in [Users -> [Years -> Seq(Totals)]]

LEMMA InitTyped == Init => StateOK
<1> SUFFICES ASSUME Init PROVE StateOK
  OBVIOUS
<1>1. setting \in Seq(Setting) /\ Len(setting) <= MaxSettings
  <2>1. [year |-> 1, from |-> FirstOf(1), to |-> LastOf(1), active |-> TRUE] \in Setting
    BY Calendar DEF Setting, Years
  <2> QED
    BY <2>1, LeaveYearAssumption DEF Init
<1>2. balance \in [Users -> [Years -> Seq(Totals)]]
  <2>1. <<>> \in Seq(Totals)
    OBVIOUS
  <2> QED
    BY <2>1 DEF Init
<1>3. run \in [Runs -> AnyRun]
  BY DEF Init, AnyRun
<1>4. today \in Days /\ faults \in 0..MaxFaults
  BY LeaveYearAssumption DEF Init, Days
<1>5. /\ staff \subseteq Users /\ overlap \subseteq {"activation", "accrual"}
      /\ early \in BOOLEAN /\ disturbed \in BOOLEAN
  BY LeaveYearAssumption DEF Init
<1> QED
  BY <1>1, <1>2, <1>3, <1>4, <1>5 DEF StateOK

\* Every record of the activation lists rows that exist.
Named(x) ==
    /\ x.step \in ActivationSteps => x.todo \subseteq Rows
    /\ x.step \in {"superseding", "switching"} => x.id \in x.todo
    /\ x.step = "superseding" => /\ x.current \in Rows
                               /\ setting[x.current].year = setting[x.id].year

Names == \A r \in Runs : Named(run[r])

Typed == StateOK /\ Names

LEMMA RowsFacts ==
    ASSUME StateOK
    PROVE  /\ Rows = 1..Len(setting) /\ Rows \subseteq Ids
           /\ \A i \in Rows : setting[i] \in Setting
           /\ \A y : Active(y) \subseteq Rows
           /\ \A date : Begun(date) \subseteq Rows /\ Pending(date) \subseteq Rows
BY LeaveYearAssumption DEF StateOK, Rows, Ids, Active, Begun, Pending

\* The step tells which record it is.
LEMMA RecordOfStep ==
    ASSUME NEW x \in AnyRun
    PROVE  /\ x.step \in {"expiring", "deactivating", "reading", "activating"} => x \in Listing
           /\ x.step \in {"superseding", "switching"} => x \in Switching
           /\ x.step = "copying" => x \in Copying
           /\ x.step = "joining" => x \in Joining
           /\ x.step \in {"identifying", "listing"} => x \in Accruing
           /\ x.step = "crediting" => x \in Crediting
           /\ x.step = "paying" => x \in Paying
BY DEF AnyRun, Idle, Listing, Switching, Copying, Joining, Accruing, Crediting, Paying

LEMMA RunOfStep ==
    ASSUME StateOK, NEW r \in Runs
    PROVE  /\ run[r].step \in {"expiring", "deactivating", "reading", "activating"}
                => run[r] \in Listing
           /\ run[r].step \in {"superseding", "switching"} => run[r] \in Switching
           /\ run[r].step = "copying" => run[r] \in Copying
           /\ run[r].step = "joining" => run[r] \in Joining
           /\ run[r].step \in {"identifying", "listing"} => run[r] \in Accruing
           /\ run[r].step = "crediting" => run[r] \in Crediting
           /\ run[r].step = "paying" => run[r] \in Paying
<1>1. run[r] \in AnyRun
  BY DEF StateOK
<1> QED
  BY <1>1, RecordOfStep

\* Rows stay, with their years.
Grows == /\ setting' \in Seq(Setting) /\ Len(setting') <= MaxSettings
         /\ Len(setting) <= Len(setting')
         /\ \A i \in Rows : setting'[i].year = setting[i].year

\* A step of a run keeps the types if what it writes has them.
LEMMA StepTyped ==
    ASSUME Typed, NEW r \in Runs, NEW x \in AnyRun, Go(r, x), Grows, Named(x)',
           today' \in Days, staff' \subseteq Users,
           balance' \in [Users -> [Years -> Seq(Totals)]],
           overlap' \subseteq {"activation", "accrual"},
           early' \in BOOLEAN, disturbed' \in BOOLEAN, faults' \in 0..MaxFaults
    PROVE  Typed'
<1>1. run' \in [Runs -> AnyRun]
  BY DEF Typed, StateOK, Go, AnyRun
<1>2. StateOK'
  BY <1>1 DEF StateOK, Grows, AnyRun
<1>3. Names'
  <2> SUFFICES ASSUME NEW s \in Runs PROVE Named(run[s])'
    BY DEF Names
  <2>1. CASE s = r
    BY <2>1, <1>1 DEF Typed, StateOK, Go
  <2>2. CASE s # r
    <3>1. run'[s] = run[s] /\ Named(run[s])
      BY <2>2 DEF Typed, StateOK, Go, Names
    <3>2. Rows \subseteq Rows'
      BY DEF Typed, StateOK, Rows, Grows
    <3> QED
      BY <3>1, <3>2 DEF Named, Grows, ActivationSteps
  <2> QED
    BY <2>1, <2>2
<1> QED
  BY <1>2, <1>3 DEF Typed

\* One that leaves the rows alone.
LEMMA QuietTyped ==
    ASSUME Typed, NEW r \in Runs, NEW x \in AnyRun, Go(r, x), Named(x),
           UNCHANGED <<today, setting, staff, balance, early>>,
           overlap' \subseteq {"activation", "accrual"},
           disturbed' \in BOOLEAN, faults' \in 0..MaxFaults
    PROVE  Typed'
<1>1. Grows
  BY DEF Typed, StateOK, Grows
<1>2. Named(x)'
  BY DEF Named, Rows
<1>3. /\ today' \in Days /\ staff' \subseteq Users
      /\ balance' \in [Users -> [Years -> Seq(Totals)]] /\ early' \in BOOLEAN
  BY DEF Typed, StateOK
<1> QED
  BY <1>1, <1>2, <1>3, StepTyped

LEMMA CountTyped ==
    ASSUME Typed, Went \/ Failed
    PROVE  disturbed' \in BOOLEAN /\ faults' \in 0..MaxFaults
<1>1. faults' \in 0..MaxFaults
  BY LeaveYearAssumption DEF Typed, StateOK, Went, Failed, Fault
<1>2. disturbed' \in BOOLEAN
  BY DEF Typed, StateOK, Went, Failed
<1> QED
  BY <1>1, <1>2

\* One that is about no run.
LEMMA AsideTyped ==
    ASSUME Typed, UNCHANGED <<run, staff, balance, overlap, faults>>, Grows,
           today' \in Days, early' \in BOOLEAN, disturbed' \in BOOLEAN
    PROVE  Typed'
<1>1. StateOK'
  BY DEF Typed, StateOK, Grows
<1>2. Rows \subseteq Rows'
  BY DEF Typed, StateOK, Rows, Grows
<1>3. Names'
  BY <1>2 DEF Typed, Names, Named, Grows, ActivationSteps
<1> QED
  BY <1>1, <1>3 DEF Typed

LEMMA RowAdded ==
    ASSUME StateOK, NEW e \in Setting, Len(setting) < MaxSettings,
           setting' = Append(setting, e)
    PROVE  Grows
BY LeaveYearAssumption DEF StateOK, Grows, Rows

LEMMA RowChanged ==
    ASSUME StateOK, NEW i \in Rows, NEW e \in Setting, e.year = setting[i].year,
           setting' = [setting EXCEPT ![i] = e]
    PROVE  Grows
<1>1. setting \in [1..Len(setting) -> Setting] /\ Len(setting) \in Nat
  BY DEF StateOK
<1>2. setting' \in [1..Len(setting) -> Setting]
  BY <1>1
<1>3. setting' \in Seq(Setting) /\ Len(setting') = Len(setting)
  BY <1>1, <1>2
<1>4. \A j \in Rows : setting'[j].year = setting[j].year
  BY DEF Rows
<1>5. Len(setting') <= MaxSettings /\ Len(setting) <= Len(setting')
  <2>1. Len(setting) <= MaxSettings
    BY DEF StateOK
  <2> QED
    BY <1>1, <1>3, <2>1
<1> QED
  BY <1>3, <1>4, <1>5 DEF Grows

-----------------------------------------------------------------------------
\* Settings.
LEMMA CreateTyped ==
    ASSUME Typed, NEW y \in Years, NEW from \in FormStarts, NEW to \in FormEnds,
           NEW active \in BOOLEAN, NEW isSystemOperation \in BOOLEAN,
           CreateSetting(y, from, to, active, isSystemOperation)
    PROVE  Typed'
<1> DEFINE e == [year |-> y, from |-> from, to |-> to, active |-> active]
<1>1. from \in Starts /\ to \in Ends
  BY Calendar
<1>2. e \in Setting
  BY <1>1 DEF Setting
<1>3. Grows
  <2> HIDE DEF e
  <2>1. Len(setting) < MaxSettings /\ setting' = Append(setting, e)
    BY DEF CreateSetting, e
  <2> QED
    BY <1>2, <2>1, RowAdded DEF Typed
<1>4. early' \in BOOLEAN /\ disturbed' \in BOOLEAN /\ today' \in Days
  BY DEF CreateSetting, Typed, StateOK
<1>5. UNCHANGED <<run, staff, balance, overlap, faults>>
  BY DEF CreateSetting
<1> QED
  BY <1>3, <1>4, <1>5, AsideTyped

LEMMA CopyTyped ==
    ASSUME Typed, NEW r \in Runs,
           CommitCopy(r) \/ \E y \in Years : ReadForCopy(r, y)
    PROVE  Typed'
<1>1. ASSUME NEW y \in Years, ReadForCopy(r, y) PROVE Typed'
  <2> DEFINE x == [step |-> "copying", year |-> y]
  <2>1. x \in AnyRun /\ Named(x)
    BY DEF AnyRun, Copying, Named, ActivationSteps
  <2>2. Go(r, x)
    BY <1>1 DEF ReadForCopy
  <2>3. /\ UNCHANGED <<today, setting, staff, balance, early>>
        /\ overlap' \subseteq {"activation", "accrual"}
        /\ disturbed' \in BOOLEAN /\ faults' \in 0..MaxFaults
    BY <1>1 DEF ReadForCopy, Typed, StateOK
  <2> HIDE DEF x
  <2> QED
    BY <2>1, <2>2, <2>3, QuietTyped
<1>2. CASE CommitCopy(r)
  <2>1. run[r] \in Copying
    BY <1>2, RunOfStep DEF CommitCopy, Typed
  <2> DEFINE y == run[r].year
             e == [year |-> y, from |-> FirstOf(y), to |-> LastOf(y), active |-> FALSE]
  <2>2. e \in Setting
    BY <2>1, Calendar DEF Setting, Copying
  <2>3. Grows
    <3>1. CASE setting' = setting
      BY <3>1 DEF Typed, StateOK, Grows
    <3>2. CASE Len(setting) < MaxSettings /\ setting' = Append(setting, e)
      <4> HIDE DEF e
      <4> QED
        BY <2>2, <3>2, RowAdded DEF Typed
    <3> QED
      BY <1>2, <3>1, <3>2 DEF CommitCopy
  <2>4. Idle \in AnyRun /\ Named(Idle)' /\ Go(r, Idle)
    BY <1>2 DEF AnyRun, Named, Idle, ActivationSteps, CommitCopy
  <2>5. /\ today' \in Days /\ staff' \subseteq Users
        /\ balance' \in [Users -> [Years -> Seq(Totals)]]
        /\ overlap' \subseteq {"activation", "accrual"}
        /\ early' \in BOOLEAN /\ disturbed' \in BOOLEAN /\ faults' \in 0..MaxFaults
    BY <1>2 DEF CommitCopy, Typed, StateOK
  <2> QED
    BY <2>3, <2>4, <2>5, StepTyped
<1> QED
  BY <1>1, <1>2

-----------------------------------------------------------------------------
\* The activation.
LEMMA BeginTyped ==
    ASSUME Typed, NEW r \in Runs, NEW name \in {"activation", "accrual"}, NEW steps,
           NEW x \in AnyRun, Begin(r, name, steps, x)
    PROVE  Go(r, x) /\ overlap' \subseteq {"activation", "accrual"}
BY DEF Begin, Typed, StateOK

\* The first half of an activation, which lists rows.
LEMMA ListingTyped ==
    ASSUME Typed, NEW r \in Runs, NEW x \in Listing, Go(r, x), x.todo \subseteq Rows,
           UNCHANGED <<today, staff, balance, overlap, early>>, Grows, Went \/ Failed
    PROVE  Typed'
<1>1. x \in AnyRun
  BY DEF AnyRun
<1>2. Rows \subseteq Rows'
  BY DEF Typed, StateOK, Rows, Grows
<1>3. Named(x)'
  BY <1>2 DEF Named, Listing
<1>4. /\ today' \in Days /\ staff' \subseteq Users
      /\ balance' \in [Users -> [Years -> Seq(Totals)]]
      /\ overlap' \subseteq {"activation", "accrual"} /\ early' \in BOOLEAN
  BY DEF Typed, StateOK
<1> QED
  BY <1>1, <1>3, <1>4, CountTyped, StepTyped

LEMMA StepOnTyped ==
    ASSUME Typed, NEW r \in Runs, NEW todo, todo \subseteq Rows, run[r].date \in 0..LastDay,
           NEW step \in {"expiring", "deactivating", "reading", "activating"},
           StepOn(r, step, todo),
           UNCHANGED <<today, staff, balance, overlap, early>>, Grows, Went \/ Failed
    PROVE  Typed'
<1> DEFINE x == [step |-> step, date |-> run[r].date, todo |-> todo]
<1>1. todo \subseteq Ids
  BY RowsFacts DEF Typed
<1>2. x \in Listing /\ x.todo \subseteq Rows
  BY <1>1 DEF Listing
<1>3. Go(r, x)
  BY DEF StepOn
<1> HIDE DEF x
<1> QED
  BY <1>2, <1>3, ListingTyped

LEMMA SameRows == ASSUME StateOK, UNCHANGED setting PROVE Grows
BY DEF StateOK, Grows

\* What a step of the activation finds.
LEMMA DateOfStep ==
    ASSUME Typed, NEW r \in Runs, run[r].step \in ActivationSteps
    PROVE  run[r].date \in 0..LastDay /\ run[r].todo \subseteq Rows
<1>1. run[r] \in Listing \/ run[r] \in Switching
  BY RunOfStep DEF ActivationSteps, Typed
<1>2. run[r].date \in 0..LastDay
  BY <1>1 DEF Listing, Switching
<1> QED
  BY <1>2 DEF Typed, Names, Named

LEMMA StartActivationTyped ==
    ASSUME Typed, NEW r \in Runs,
           \E date \in {today - 1, today} : StartActivation(r, date)
    PROVE  Typed'
<1> PICK date \in {today - 1, today} : StartActivation(r, date)
  OBVIOUS
<1> DEFINE x == [step |-> "expiring", date |-> date, todo |-> {}]
<1>1. date \in 0..LastDay
  BY LeaveYearAssumption DEF Typed, StateOK, Days
<1>2. x \in AnyRun /\ Named(x)
  BY <1>1 DEF AnyRun, Listing, Named
<1>3. Begin(r, "activation", ActivationSteps, x)
  BY DEF StartActivation
<1>4. /\ UNCHANGED <<today, setting, staff, balance, early>>
      /\ disturbed' \in BOOLEAN /\ faults' \in 0..MaxFaults
  BY DEF StartActivation, Typed, StateOK
<1> HIDE DEF x
<1> QED
  BY <1>2, <1>3, <1>4, BeginTyped, QuietTyped

LEMMA ReadExpiredTyped ==
    ASSUME Typed, NEW r \in Runs, ReadExpired(r)
    PROVE  Typed'
<1>1. run[r].date \in 0..LastDay
  BY DateOfStep DEF ReadExpired, ActivationSteps
<1>2. Grows /\ UNCHANGED <<today, staff, balance, overlap, early>> /\ (Went \/ Failed)
  BY SameRows DEF ReadExpired, Typed
<1>3. CASE StepOn(r, "deactivating",
                  {i \in Rows : setting[i].active /\ setting[i].to < run[r].date})
  BY <1>1, <1>2, <1>3, StepOnTyped
<1>4. CASE StepOn(r, "reading", {})
  BY <1>1, <1>2, <1>4, StepOnTyped
<1> QED
  BY <1>3, <1>4 DEF ReadExpired

LEMMA DeactivateTyped ==
    ASSUME Typed, NEW r \in Runs, Deactivate(r)
    PROVE  Typed'
<1>1. run[r].date \in 0..LastDay /\ run[r].todo \subseteq Rows
  BY DateOfStep DEF Deactivate, ActivationSteps
<1> PICK i \in run[r].todo :
      /\ StepOn(r, "deactivating", run[r].todo \ {i})
      /\ \/ setting' = [setting EXCEPT ![i].active = FALSE] /\ Went
         \/ UNCHANGED setting /\ Failed
  BY DEF Deactivate
<1>2. Grows
  <2>1. CASE UNCHANGED setting
    BY <2>1, SameRows DEF Typed
  <2>2. CASE setting' = [setting EXCEPT ![i].active = FALSE]
    <3> DEFINE e == [setting[i] EXCEPT !.active = FALSE]
    <3>1. i \in Rows /\ setting[i] \in Setting
      BY <1>1, RowsFacts DEF Typed
    <3>2. e \in Setting /\ e.year = setting[i].year
      BY <3>1 DEF Setting
    <3>3. setting' = [setting EXCEPT ![i] = e]
      BY <2>2
    <3> HIDE DEF e
    <3> QED
      BY <3>1, <3>2, <3>3, RowChanged DEF Typed
  <2> QED
    BY <2>1, <2>2
<1>3. UNCHANGED <<today, staff, balance, overlap, early>> /\ (Went \/ Failed)
  BY DEF Deactivate
<1> QED
  BY <1>1, <1>2, <1>3, StepOnTyped

LEMMA ReadPendingTyped ==
    ASSUME Typed, NEW r \in Runs, ReadPending(r)
    PROVE  Typed'
<1>1. run[r].date \in 0..LastDay
  BY DateOfStep DEF ReadPending, ActivationSteps
<1>2. Grows /\ UNCHANGED <<today, staff, balance, overlap, early>> /\ (Went \/ Failed)
  BY SameRows DEF ReadPending, Typed
<1>3. CASE StepOn(r, "activating", Pending(run[r].date))
  BY <1>1, <1>2, <1>3, StepOnTyped, RowsFacts DEF Typed
<1>4. CASE StepOn(r, "activating", {})
  BY <1>1, <1>2, <1>4, StepOnTyped
<1> QED
  BY <1>3, <1>4 DEF ReadPending

LEMMA ReadCurrentTyped ==
    ASSUME Typed, NEW r \in Runs, ReadCurrent(r)
    PROVE  Typed'
<1>1. run[r].date \in 0..LastDay /\ run[r].todo \subseteq Rows
  BY DateOfStep DEF ReadCurrent, ActivationSteps
<1>2. /\ UNCHANGED <<today, staff, balance, overlap, early>> /\ (Went \/ Failed)
      /\ UNCHANGED setting
  BY DEF ReadCurrent
<1> PICK i \in First(run[r].todo) :
      LET active == Active(setting[i].year) IN
      \/ \E c \in IF active = {} THEN {0} ELSE active :
           Go(r, [step |-> IF c \in {0, i} THEN "switching" ELSE "superseding",
                  date |-> run[r].date, todo |-> run[r].todo, id |-> i, current |-> c])
      \/ StepOn(r, "activating", run[r].todo \ {i})
  BY DEF ReadCurrent
<1>3. i \in run[r].todo
  BY DEF First
<1>4. CASE StepOn(r, "activating", run[r].todo \ {i})
  BY <1>1, <1>2, <1>4, SameRows, StepOnTyped DEF Typed
<1>5. ASSUME NEW c \in IF Active(setting[i].year) = {} THEN {0} ELSE Active(setting[i].year),
             Go(r, [step |-> IF c \in {0, i} THEN "switching" ELSE "superseding",
                    date |-> run[r].date, todo |-> run[r].todo, id |-> i, current |-> c])
      PROVE  Typed'
  <2> DEFINE x == [step |-> IF c \in {0, i} THEN "switching" ELSE "superseding",
                   date |-> run[r].date, todo |-> run[r].todo, id |-> i, current |-> c]
  <2>1. c = 0 \/ (c \in Rows /\ setting[c].year = setting[i].year)
    BY DEF Active
  <2>2. c \in 0..MaxSettings /\ i \in Ids /\ run[r].todo \subseteq Ids
    BY <1>1, <1>3, <2>1, RowsFacts, LeaveYearAssumption DEF Typed, Ids
  <2>3. x \in AnyRun
    BY <1>1, <2>2 DEF AnyRun, Switching
  <2>4. Named(x)
    BY <1>1, <1>3, <2>1 DEF Named
  <2>5. disturbed' \in BOOLEAN /\ faults' \in 0..MaxFaults
    BY <1>2, CountTyped
  <2>6. Go(r, x) /\ overlap' \subseteq {"activation", "accrual"}
    BY <1>2, <1>5 DEF Typed, StateOK
  <2> HIDE DEF x
  <2> QED
    BY <1>2, <2>3, <2>4, <2>5, <2>6, QuietTyped
<1> QED
  BY <1>4, <1>5

LEMMA NextTurnTyped ==
    ASSUME Typed, NEW r \in Runs, run[r].step \in ActivationSteps, NextTurn(r),
           UNCHANGED <<today, staff, balance, overlap, early>>, Grows, Went \/ Failed
    PROVE  Typed'
<1>1. run[r].date \in 0..LastDay /\ run[r].todo \subseteq Rows
  BY DateOfStep
<1> QED
  BY <1>1, StepOnTyped DEF NextTurn

\* The rows that the second half of an activation writes.
LEMMA Superseded ==
    ASSUME Typed, NEW r \in Runs, run[r].step = "superseding",
           setting' = [setting EXCEPT ![run[r].current] =
                         [@ EXCEPT !.active = FALSE, !.to = setting[run[r].id].from - 1]]
    PROVE  Grows
<1> DEFINE c == run[r].current
           e == [setting[c] EXCEPT !.active = FALSE, !.to = setting[run[r].id].from - 1]
<1>1. c \in Rows /\ run[r].id \in Rows
  BY DEF Typed, Names, Named, ActivationSteps
<1>2. setting[c] \in Setting /\ setting[run[r].id] \in Setting
  BY <1>1, RowsFacts DEF Typed
<1>3. setting[run[r].id].from - 1 \in Ends
  BY <1>2, Calendar, LeaveYearAssumption DEF Setting, Starts, Ends
<1>4. e \in Setting /\ e.year = setting[c].year
  BY <1>2, <1>3 DEF Setting
<1>5. setting' = [setting EXCEPT ![c] = e]
  OBVIOUS
<1> HIDE DEF e
<1> QED
  BY <1>1, <1>4, <1>5, RowChanged DEF Typed

LEMMA Activated ==
    ASSUME Typed, NEW i \in Rows, setting' = [setting EXCEPT ![i].active = TRUE]
    PROVE  Grows
<1> DEFINE e == [setting[i] EXCEPT !.active = TRUE]
<1>1. setting[i] \in Setting
  BY RowsFacts DEF Typed
<1>2. e \in Setting /\ e.year = setting[i].year
  BY <1>1 DEF Setting
<1>3. setting' = [setting EXCEPT ![i] = e]
  OBVIOUS
<1> HIDE DEF e
<1> QED
  BY <1>2, <1>3, RowChanged DEF Typed

LEMMA SupersedeTyped ==
    ASSUME Typed, NEW r \in Runs, Supersede(r)
    PROVE  Typed'
<1>1. run[r].step = "superseding" /\ run[r] \in Switching
  BY RunOfStep DEF Supersede, Typed
<1>2. UNCHANGED <<today, staff, balance, overlap, early>> /\ (Went \/ Failed)
  BY DEF Supersede
<1>3. CASE UNCHANGED setting /\ NextTurn(r)
  BY <1>1, <1>2, <1>3, SameRows, NextTurnTyped DEF Typed, ActivationSteps
<1>4. CASE /\ setting' = [setting EXCEPT ![run[r].current] =
                           [@ EXCEPT !.active = FALSE, !.to = setting[run[r].id].from - 1]]
           /\ run' = [run EXCEPT ![r].step = "switching"]
  <2>1. Grows
    BY <1>1, <1>4, Superseded
  <2> PICK x : x = [run[r] EXCEPT !.step = "switching"]
    OBVIOUS
  <2>2. x \in AnyRun /\ x.step = "switching" /\ x.todo = run[r].todo /\ x.id = run[r].id
    BY <1>1 DEF AnyRun, Switching
  <2>3. run[r].todo \subseteq Rows' /\ run[r].id \in run[r].todo
    BY <1>1, <2>1 DEF Typed, StateOK, Names, Named, ActivationSteps, Rows, Grows
  <2>4. Named(x)'
    BY <2>2, <2>3 DEF Named
  <2>5. Go(r, x)
    BY <1>4 DEF Go
  <2>6. /\ today' \in Days /\ staff' \subseteq Users
        /\ balance' \in [Users -> [Years -> Seq(Totals)]]
        /\ overlap' \subseteq {"activation", "accrual"} /\ early' \in BOOLEAN
    BY <1>2 DEF Typed, StateOK
  <2> QED
    BY <1>2, <2>1, <2>2, <2>4, <2>5, <2>6, CountTyped, StepTyped
<1> QED
  BY <1>3, <1>4 DEF Supersede

LEMMA ActivateTyped ==
    ASSUME Typed, NEW r \in Runs, Activate(r)
    PROVE  Typed'
<1>1. run[r].step \in ActivationSteps /\ run[r].id \in Rows
  BY DEF Activate, Typed, Names, Named, ActivationSteps
<1>2. /\ UNCHANGED <<today, staff, balance, overlap, early>> /\ (Went \/ Failed)
      /\ NextTurn(r)
  BY DEF Activate
<1>3. Grows
  BY <1>1, Activated, SameRows DEF Activate, Typed
<1> QED
  BY <1>1, <1>2, <1>3, NextTurnTyped

\* A run that is over, or that stops.
LEMMA IdleTyped ==
    ASSUME Typed, NEW r \in Runs, EndActivation(r) \/ Stop(r)
    PROVE  Typed'
<1>1. Idle \in AnyRun /\ Named(Idle)
  BY DEF AnyRun, Idle, Named, ActivationSteps
<1>2. /\ Go(r, Idle) /\ UNCHANGED <<today, setting, staff, balance, early>>
      /\ overlap' \subseteq {"activation", "accrual"}
  BY DEF EndActivation, Stop, Typed, StateOK
<1>3. disturbed' \in BOOLEAN /\ faults' \in 0..MaxFaults
  <2>1. CASE EndActivation(r)
    BY <2>1 DEF EndActivation, Typed, StateOK
  <2>2. CASE Stop(r)
    BY <2>2, CountTyped DEF Stop
  <2> QED
    BY <2>1, <2>2
<1> QED
  BY <1>1, <1>2, <1>3, QuietTyped

-----------------------------------------------------------------------------
\* The accrual.
LEMMA StartAccrualTyped ==
    ASSUME Typed, NEW r \in Runs, NEW y \in Years, NEW total \in Totals,
           StartAccrual(r, y, total)
    PROVE  Typed'
<1> DEFINE x == [step |-> "identifying", year |-> y, total |-> total, known |-> FALSE]
<1>1. x \in AnyRun /\ Named(x)
  BY DEF AnyRun, Accruing, Named, ActivationSteps
<1>2. Begin(r, "accrual", AccrualSteps, x)
  BY DEF StartAccrual
<1>3. /\ UNCHANGED <<today, setting, staff, balance, early>>
      /\ disturbed' \in BOOLEAN /\ faults' \in 0..MaxFaults
  BY DEF StartAccrual, Typed, StateOK
<1> HIDE DEF x
<1> QED
  BY <1>1, <1>2, <1>3, BeginTyped, QuietTyped

LEMMA AccrueTyped ==
    ASSUME Typed, NEW r \in Runs, Accrue(r)
    PROVE  Typed'
<1>1. today \in Days /\ \A day \in 1..today : day \in Days
  BY LeaveYearAssumption DEF Typed, StateOK, Days
<1>2. CASE StartAccrual(r, YearOf(today), Scheduled(MonthOf(today)))
  BY <1>1, <1>2, Calendar, AmountsAreNumbers, StartAccrualTyped
<1>3. ASSUME NEW day \in 1..today, StartAccrual(r, YearOf(day), ByHand(MonthOf(day)))
      PROVE  Typed'
  BY <1>1, <1>3, Calendar, AmountsAreNumbers, StartAccrualTyped
<1> QED
  BY <1>2, <1>3 DEF Accrue

\* A step of the accrual before its commit writes what it has read.
LEMMA ReadTyped ==
    ASSUME Typed, NEW r \in Runs, NEW x \in Accruing \cup Crediting, Go(r, x),
           UNCHANGED <<today, setting, staff, balance, overlap, early, disturbed, faults>>
    PROVE  Typed'
<1>1. x \in AnyRun /\ Named(x)
  BY DEF AnyRun, Named, Accruing, Crediting, ActivationSteps
<1>2. /\ overlap' \subseteq {"activation", "accrual"}
      /\ disturbed' \in BOOLEAN /\ faults' \in 0..MaxFaults
  BY DEF Typed, StateOK
<1> QED
  BY <1>1, <1>2, QuietTyped

LEMMA FoundFacts ==
    ASSUME StateOK, NEW u \in Users, NEW y \in Years, NEW now \in Found(u, y)
    PROVE  /\ now.row \in Nat /\ now.total \in Totals
           /\ now.row = 0 => balance[u][y] = <<>>
           /\ now.row # 0 => now.row \in DOMAIN balance[u][y]
                             /\ now.total = balance[u][y][now.row]
<1>1. balance[u][y] \in Seq(Totals)
  BY DEF StateOK
<1>2. CASE balance[u][y] = <<>>
  BY <1>2 DEF Found, Allocated, Totals
<1>3. CASE balance[u][y] # <<>>
  <2>1. PICK j \in DOMAIN balance[u][y] : now = [row |-> j, total |-> balance[u][y][j]]
    BY <1>3 DEF Found, Allocated
  <2>2. j \in Nat \ {0} /\ balance[u][y][j] \in Totals
    BY <1>1
  <2> QED
    BY <2>1, <2>2
<1> QED
  BY <1>2, <1>3

LEMMA CreditUserTyped ==
    ASSUME Typed, NEW r \in Runs, CreditUser(r)
    PROVE  Typed'
<1>1. run[r] \in Crediting
  BY RunOfStep DEF CreditUser, Typed
<1> PICK u \in run[r].todo : \E now \in Found(u, run[r].year) : Go(r, [run[r] EXCEPT
             !.todo = @ \ {u},
             !.writes = IF ToCredit(run[r].total, now.total)
                          THEN @ \cup {[user |-> u, row |-> now.row, total |-> run[r].total]}
                          ELSE @])
  BY DEF CreditUser
<1> PICK now \in Found(u, run[r].year) : Go(r, [run[r] EXCEPT
             !.todo = @ \ {u},
             !.writes = IF ToCredit(run[r].total, now.total)
                          THEN @ \cup {[user |-> u, row |-> now.row, total |-> run[r].total]}
                          ELSE @])
  OBVIOUS
<1> PICK x : x = [run[r] EXCEPT
             !.todo = @ \ {u},
             !.writes = IF ToCredit(run[r].total, now.total)
                          THEN @ \cup {[user |-> u, row |-> now.row, total |-> run[r].total]}
                          ELSE @]
  OBVIOUS
<1>2. Go(r, x)
  OBVIOUS
<1>3. [user |-> u, row |-> now.row, total |-> run[r].total] \in Credit
  <2>1. u \in Users /\ run[r].year \in Years /\ run[r].total \in Totals
    BY <1>1 DEF Crediting
  <2> QED
    BY <2>1, FoundFacts DEF Typed, Credit
<1>4. x \in Crediting
  BY <1>1, <1>3 DEF Crediting
<1>5. UNCHANGED <<today, setting, staff, balance, overlap, early, disturbed, faults>>
  BY DEF CreditUser
<1> QED
  BY <1>2, <1>4, <1>5, ReadTyped

LEMMA WrittenTyped ==
    ASSUME StateOK, NEW writes \in SUBSET Credit, NEW u \in Users, NEW y \in Years, NEW year
    PROVE  Written(writes, u, y, year) \in Seq(Totals)
<1> DEFINE rows == balance[u][y]
           Of(i) == {w \in writes : w.user = u /\ w.row = i}
<1>1. rows \in Seq(Totals)
  BY DEF StateOK
<1>2. \A i : Of(i) # {} => (CHOOSE w \in Of(i) : TRUE).total \in Totals
  BY DEF Credit
<1>3. CASE y # year \/ \A w \in writes : w.user # u
  BY <1>1, <1>3 DEF Written
<1>4. CASE ~(y # year \/ \A w \in writes : w.user # u)
  <2>1. CASE Of(0) # {}
    <3>1. Written(writes, u, y, year) = Append(rows, (CHOOSE w \in Of(0) : TRUE).total)
      BY <1>4, <2>1 DEF Written
    <3> HIDE DEF Of, rows
    <3> QED
      BY <1>1, <1>2, <2>1, <3>1
  <2>2. CASE Of(0) = {}
    <3> DEFINE f == [i \in DOMAIN rows |->
                       IF Of(i) # {} THEN (CHOOSE w \in Of(i) : TRUE).total ELSE rows[i]]
    <3>1. Written(writes, u, y, year) = f
      BY <1>4, <2>2 DEF Written
    <3> HIDE DEF Of, rows
    <3>2. DOMAIN rows = 1..Len(rows) /\ Len(rows) \in Nat /\ \A i \in 1..Len(rows) : rows[i] \in Totals
      BY <1>1
    <3>3. f \in [1..Len(rows) -> Totals]
      BY <1>2, <3>2
    <3> QED
      BY <3>1, <3>2, <3>3
  <2> QED
    BY <2>1, <2>2
<1> QED
  BY <1>3, <1>4

LEMMA CommitAccrualTyped ==
    ASSUME Typed, NEW r \in Runs, CommitAccrual(r)
    PROVE  Typed'
<1>1. run[r] \in Crediting
  BY RunOfStep DEF CommitAccrual, Typed
<1>2. run[r].writes \in SUBSET Credit
  BY <1>1 DEF Crediting
<1>3. balance' \in [Users -> [Years -> Seq(Totals)]]
  BY <1>2, WrittenTyped DEF CommitAccrual, Typed, StateOK
<1>4. Idle \in AnyRun /\ Named(Idle)' /\ Go(r, Idle)
  BY DEF AnyRun, Named, Idle, ActivationSteps, CommitAccrual
<1>5. Grows
  BY SameRows DEF CommitAccrual, Typed
<1>6. /\ today' \in Days /\ staff' \subseteq Users
      /\ overlap' \subseteq {"activation", "accrual"}
      /\ early' \in BOOLEAN /\ disturbed' \in BOOLEAN /\ faults' \in 0..MaxFaults
  BY DEF CommitAccrual, Typed, StateOK
<1> QED
  BY <1>3, <1>4, <1>5, <1>6, StepTyped

LEMMA AccrualTyped ==
    ASSUME Typed, NEW r \in Runs, Accrual(r)
    PROVE  Typed'
<1>1. CASE ReadSettingId(r)
  <2>1. run[r] \in Accruing
    BY <1>1, RunOfStep DEF ReadSettingId, Typed
  <2> PICK x : x = [run[r] EXCEPT !.step = "listing", !.known = Active(run[r].year) # {}]
    OBVIOUS
  <2>2. x \in Accruing
    BY <2>1 DEF Accruing
  <2>3. Go(r, x) /\ UNCHANGED <<today, setting, staff, balance, overlap, early, disturbed, faults>>
    BY <1>1 DEF Go, ReadSettingId
  <2> QED
    BY <2>2, <2>3, ReadTyped
<1>2. CASE ListStaff(r)
  <2>1. run[r] \in Accruing
    BY <1>2, RunOfStep DEF ListStaff, Typed
  <2> PICK x : x = [step |-> "crediting", year |-> run[r].year, total |-> run[r].total,
                    known |-> run[r].known, todo |-> staff, writes |-> {}]
    OBVIOUS
  <2>2. staff \in SUBSET Users
    BY DEF Typed, StateOK
  <2>3. x \in Crediting
    BY <2>1, <2>2 DEF Accruing, Crediting
  <2>4. Go(r, x) /\ UNCHANGED <<today, setting, staff, balance, overlap, early, disturbed, faults>>
    BY <1>2 DEF ListStaff
  <2> QED
    BY <2>3, <2>4, ReadTyped
<1> QED
  BY <1>1, <1>2, AccrueTyped, CreditUserTyped, CommitAccrualTyped DEF Accrual

-----------------------------------------------------------------------------
\* Joining, and the steps that are about nobody.
LEMMA JoinTyped ==
    ASSUME Typed, NEW r \in Runs,
           \/ \E u \in Users, y \in Years, share \in 0..MaxShare : ReadForJoin(r, u, y, share)
           \/ CommitJoin(r)
    PROVE  Typed'
<1>1. ASSUME NEW u \in Users, NEW y \in Years, NEW share \in 0..MaxShare,
             ReadForJoin(r, u, y, share)
      PROVE  Typed'
  <2> DEFINE x == [step |-> "joining", user |-> u, year |-> y, share |-> share]
  <2>1. x \in AnyRun /\ Named(x)
    BY DEF AnyRun, Joining, Named, ActivationSteps
  <2>2. Go(r, x) /\ UNCHANGED <<today, setting, staff, balance, early>>
    BY <1>1 DEF ReadForJoin
  <2>3. /\ overlap' \subseteq {"activation", "accrual"}
        /\ disturbed' \in BOOLEAN /\ faults' \in 0..MaxFaults
    BY <1>1 DEF ReadForJoin, Typed, StateOK
  <2> HIDE DEF x
  <2> QED
    BY <2>1, <2>2, <2>3, QuietTyped
<1>2. CASE CommitJoin(r)
  <2>1. run[r] \in Joining
    BY <1>2, RunOfStep DEF CommitJoin, Typed
  <2>2. run[r].user \in Users /\ run[r].year \in Years /\ run[r].share \in Totals
    BY <2>1, LeaveYearAssumption DEF Joining, Totals
  <2>3. staff' \subseteq Users
    BY <1>2, <2>2 DEF CommitJoin, Typed, StateOK
  <2>4. balance' \in [Users -> [Years -> Seq(Totals)]]
    <3> DEFINE u == run[r].user  y == run[r].year
    <3>1. balance \in [Users -> [Years -> Seq(Totals)]]
      BY DEF Typed, StateOK
    <3>2. Append(balance[u][y], run[r].share) \in Seq(Totals)
      BY <2>2, <3>1
    <3>3. CASE balance' = balance
      BY <3>1, <3>3
    <3>4. CASE balance' = [balance EXCEPT ![u][y] = Append(@, run[r].share)]
      BY <2>2, <3>1, <3>2, <3>4
    <3> QED
      BY <1>2, <3>3, <3>4 DEF CommitJoin
  <2>5. Idle \in AnyRun /\ Named(Idle)' /\ Go(r, Idle)
    BY <1>2 DEF AnyRun, Named, Idle, ActivationSteps, CommitJoin
  <2>6. Grows
    BY <1>2, SameRows DEF CommitJoin, Typed
  <2>7. /\ today' \in Days /\ overlap' \subseteq {"activation", "accrual"}
        /\ early' \in BOOLEAN /\ disturbed' \in BOOLEAN /\ faults' \in 0..MaxFaults
    BY <1>2 DEF CommitJoin, Typed, StateOK
  <2> QED
    BY <2>3, <2>4, <2>5, <2>6, <2>7, StepTyped
<1> QED
  BY <1>1, <1>2

LEMMA SameLength ==
    ASSUME NEW rows \in Seq(Totals), NEW new \in [1..Len(rows) -> Totals]
    PROVE  new \in Seq(Totals) /\ Len(new) = Len(rows) /\ DOMAIN new = DOMAIN rows
<1>1. Len(rows) \in Nat /\ DOMAIN rows = 1..Len(rows)
  OBVIOUS
<1>2. new \in Seq(Totals)
  BY <1>1
<1>3. Len(new) = Len(rows)
  BY <1>1, <1>2
<1> QED
  BY <1>1, <1>2, <1>3

\* Payroll's commit is one total of one row, whichever row it is.
LEMMA PayrollWrites ==
    ASSUME Typed, NEW r \in Runs, CommitPayroll(r)
    PROVE  /\ balance' \in [Users -> [Years -> Seq(Totals)]]
           /\ \A u \in Users, y \in Years :
                /\ Len(balance'[u][y]) = Len(balance[u][y])
                /\ DOMAIN balance'[u][y] = DOMAIN balance[u][y]
                /\ \A i \in DOMAIN balance[u][y] :
                     balance'[u][y][i] = IF u = run[r].user /\ y = run[r].year /\ i = run[r].row
                                           THEN run[r].total ELSE balance[u][y][i]
<1> PICK p, q, j, z : p = run[r].user /\ q = run[r].year /\ j = run[r].row /\ z = run[r].total
  OBVIOUS
<1>1. p \in Users /\ q \in Years /\ z \in Totals
  BY RunOfStep DEF CommitPayroll, Typed, Paying
<1>2. balance \in [Users -> [Years -> Seq(Totals)]]
  BY DEF Typed, StateOK
<1> PICK rows : rows = balance[p][q]
  OBVIOUS
<1> PICK new : new = [rows EXCEPT ![j] = z]
  OBVIOUS
<1>3. balance' = [balance EXCEPT ![p] = [balance[p] EXCEPT ![q] = new]]
  BY DEF CommitPayroll
<1>4. rows \in Seq(Totals)
  BY <1>1, <1>2
<1>5. /\ DOMAIN rows = 1..Len(rows) /\ Len(rows) \in Nat
      /\ \A i \in 1..Len(rows) : rows[i] \in Totals
  BY <1>4
<1>6. new \in [1..Len(rows) -> Totals]
  BY <1>1, <1>5
<1>7. new \in Seq(Totals) /\ Len(new) = Len(rows) /\ DOMAIN new = DOMAIN rows
  BY <1>4, <1>6, SameLength, Zenon
<1>8. \A i \in DOMAIN rows : new[i] = IF i = j THEN z ELSE rows[i]
  BY <1>5
<1>9. balance[p] \in [Years -> Seq(Totals)]
  BY <1>1, <1>2
<1>10. [balance[p] EXCEPT ![q] = new] \in [Years -> Seq(Totals)]
  BY <1>7, <1>9
<1>11. balance' \in [Users -> [Years -> Seq(Totals)]]
  BY <1>2, <1>3, <1>10
<1>12. ASSUME NEW u \in Users, NEW y \in Years
       PROVE  balance'[u][y] = IF u = p /\ y = q THEN new ELSE balance[u][y]
  <2>1. balance'[u] = IF u = p THEN [balance[p] EXCEPT ![q] = new] ELSE balance[u]
    BY <1>2, <1>3
  <2> QED
    BY <1>9, <2>1
<1>13. ASSUME NEW u \in Users, NEW y \in Years
       PROVE  /\ Len(balance'[u][y]) = Len(balance[u][y])
              /\ DOMAIN balance'[u][y] = DOMAIN balance[u][y]
              /\ \A i \in DOMAIN balance[u][y] :
                   balance'[u][y][i] = IF u = p /\ y = q /\ i = j THEN z ELSE balance[u][y][i]
  <2>1. CASE u = p /\ y = q
    BY <1>7, <1>8, <1>12, <2>1
  <2>2. CASE ~(u = p /\ y = q)
    <3>1. balance'[u][y] = balance[u][y]
      BY <1>12, <2>2
    <3> QED
      BY <2>2, <3>1
  <2> QED
    BY <2>1, <2>2
<1> QED
  BY <1>11, <1>13

LEMMA PayTyped ==
    ASSUME Typed, NEW r \in Runs,
           \/ \E u \in Users, y \in Years, leaves \in 1..MaxCredit : ReadForPayroll(r, u, y, leaves)
           \/ CommitPayroll(r)
    PROVE  Typed'
<1>1. ASSUME NEW u \in Users, NEW y \in Years, NEW leaves \in 1..MaxCredit,
             ReadForPayroll(r, u, y, leaves)
      PROVE  Typed'
  <2> PICK now \in Allocated(u, y) :
        Go(r, [step |-> "paying", user |-> u, year |-> y, row |-> now.row,
               total |-> now.total + Precision * leaves])
    BY <1>1 DEF ReadForPayroll
  <2> DEFINE x == [step |-> "paying", user |-> u, year |-> y, row |-> now.row,
                   total |-> now.total + Precision * leaves]
  <2>1. now.row \in Nat /\ now.total + Precision * leaves \in Totals
    <3>1. now.row \in Nat /\ now.total \in Nat
      BY FoundFacts DEF Typed, Found, Totals
    <3>2. Precision * leaves \in Nat
      BY Product, LeaveYearAssumption
    <3> QED
      BY <3>1, <3>2 DEF Totals
  <2>2. x \in AnyRun /\ Named(x)
    BY <2>1 DEF AnyRun, Paying, Named, ActivationSteps
  <2>3. Go(r, x) /\ UNCHANGED <<today, setting, staff, balance, early>>
    BY <1>1 DEF ReadForPayroll
  <2>4. /\ overlap' \subseteq {"activation", "accrual"}
        /\ disturbed' \in BOOLEAN /\ faults' \in 0..MaxFaults
    BY <1>1 DEF ReadForPayroll, Typed, StateOK
  <2> HIDE DEF x
  <2> QED
    BY <2>2, <2>3, <2>4, QuietTyped
<1>2. CASE CommitPayroll(r)
  <2>2. balance' \in [Users -> [Years -> Seq(Totals)]]
    BY <1>2, PayrollWrites
  <2>3. Idle \in AnyRun /\ Named(Idle)' /\ Go(r, Idle)
    BY <1>2 DEF AnyRun, Named, Idle, ActivationSteps, CommitPayroll
  <2>4. Grows
    BY <1>2, SameRows DEF CommitPayroll, Typed
  <2>5. /\ today' \in Days /\ staff' \subseteq Users
        /\ overlap' \subseteq {"activation", "accrual"}
        /\ early' \in BOOLEAN /\ disturbed' \in BOOLEAN /\ faults' \in 0..MaxFaults
    BY <1>2 DEF CommitPayroll, Typed, StateOK
  <2> QED
    BY <2>2, <2>3, <2>4, <2>5, StepTyped
<1> QED
  BY <1>1, <1>2

LEMMA NextDayTyped == Typed /\ NextDay => Typed'
<1> SUFFICES ASSUME Typed, NextDay PROVE Typed'
  OBVIOUS
<1>1. today' \in Days
  BY LeaveYearAssumption DEF NextDay, Typed, StateOK, Days
<1>2. /\ early' \in BOOLEAN /\ disturbed' \in BOOLEAN
      /\ UNCHANGED <<run, staff, balance, overlap, faults>>
  BY DEF NextDay, Typed, StateOK
<1>3. Grows
  BY SameRows DEF NextDay, Typed
<1> QED
  BY <1>1, <1>2, <1>3, AsideTyped

LEMMA TypedStep == Typed /\ [Next]_vars => Typed'
<1> SUFFICES ASSUME Typed, [Next]_vars PROVE Typed'
  OBVIOUS
<1>1. CASE UNCHANGED vars
  BY <1>1 DEF vars, Typed, StateOK, Names, Named, Rows
<1>2. ASSUME NEW r \in Runs, Activation(r) \/ Stop(r) PROVE Typed'
  BY <1>2, StartActivationTyped, ReadExpiredTyped, DeactivateTyped, ReadPendingTyped,
     ReadCurrentTyped, SupersedeTyped, ActivateTyped, IdleTyped DEF Activation
<1>3. ASSUME NEW r \in Runs, Accrual(r) \/ Request(r) PROVE Typed'
  BY <1>3, AccrualTyped, CopyTyped, JoinTyped, PayTyped DEF Request
<1> QED
  BY <1>1, <1>2, <1>3, CreateTyped, NextDayTyped DEF Next, Step

LEMMA InitNames == Init => Names
BY DEF Init, Names, Named, Idle, ActivationSteps

\* The types, of which every row of an activation exists.
LEMMA AlwaysTyped == Spec => []Typed
<1>1. Init => Typed
  BY InitTyped, InitNames DEF Typed
<1> QED
  BY <1>1, TypedStep, PTL DEF Spec

LEMMA FloorStep == Typed' /\ FloorOK /\ [Next]_vars => FloorOK'
<1> SUFFICES ASSUME Typed', FloorOK, [Next]_vars PROVE FloorOK'
  OBVIOUS
<1>1. CASE UNCHANGED vars
  BY <1>1 DEF vars, FloorOK
<1>2. CASE Next
  <2>1. balance' \in [Users -> [Years -> Seq(Totals)]]
    BY DEF Typed, StateOK
  <2> QED
    BY <1>2, <2>1 DEF Next, FloorOK
<1> QED
  BY <1>1, <1>2

LEMMA AlwaysFloor == Spec => []FloorOK
<1>1. Init => FloorOK
  BY InitTyped DEF Init, FloorOK, StateOK
<1> QED
  BY <1>1, FloorStep, AlwaysTyped, PTL DEF Spec

\* Every variable keeps its type, whatever runs.
THEOREM TypeCorrect == Spec => []TypeOK
<1>1. Typed /\ FloorOK => TypeOK
  BY DEF Typed, StateOK, FloorOK, TypeOK, AnyRun
<1> QED
  BY <1>1, AlwaysTyped, AlwaysFloor, PTL

-----------------------------------------------------------------------------
(* Balances.  Who had none when an accrual looked has none: no other       *)
(* accrual is in flight, an employee who joins is not in its list, and     *)
(* payroll changes a total and inserts nothing.                            *)

\* Who has not joined has no balance.
NoneBefore == \A u \in Users \ staff, y \in Years : balance[u][y] = <<>>

StaffOnly ==
    \A r \in Runs : run[r].step = "crediting" =>
        run[r].todo \subseteq staff /\ \A w \in run[r].writes : w.user \in staff

OneAccrual ==
    \A r, s \in Runs :
        run[r].step \in AccrualSteps /\ run[s].step \in AccrualSteps => r = s

\* A row that a write inserts in year y is the first.
Fits(w, y) == w.row = 0 => balance[w.user][y] = <<>>

WritesFit ==
    \A r \in Runs : run[r].step = "crediting" =>
        \A w \in run[r].writes : Fits(w, run[r].year)

AtMostOne == \A u \in Users, y \in Years : Len(balance[u][y]) <= 1

Balanced ==
    /\ NoneBefore /\ StaffOnly
    /\ "accrual" \notin overlap => OneAccrual /\ WritesFit /\ AtMostOne

LEMMA InitBalanced == Init => Balanced
<1> SUFFICES ASSUME Init PROVE Balanced
  OBVIOUS
<1>1. NoneBefore
  BY DEF Init, NoneBefore
<1>2. StaffOnly /\ OneAccrual /\ WritesFit
  BY DEF Init, Idle, StaffOnly, OneAccrual, WritesFit, AccrualSteps
<1>3. AtMostOne
  BY DEF Init, AtMostOne
<1> QED
  BY <1>1, <1>2, <1>3 DEF Balanced

LEMMA GoFacts ==
    ASSUME StateOK, NEW r \in Runs, NEW x, Go(r, x)
    PROVE  run'[r] = x /\ \A s \in Runs : s # r => run'[s] = run[s]
BY DEF StateOK, Go

\* A step that is no accrual's and gives no balance.
LEMMA AsideBalanced ==
    ASSUME Balanced, UNCHANGED <<staff, balance>>, overlap \subseteq overlap',
           \A s \in Runs : run'[s] = run[s] \/ run'[s].step \notin AccrualSteps
    PROVE  Balanced'
<1>1. NoneBefore'
  BY DEF Balanced, NoneBefore
<1>2. StaffOnly'
  BY DEF Balanced, StaffOnly, AccrualSteps
<1>3. ASSUME "accrual" \notin overlap' PROVE (OneAccrual /\ WritesFit /\ AtMostOne)'
  <2>1. OneAccrual /\ WritesFit /\ AtMostOne
    BY <1>3 DEF Balanced
  <2>2. OneAccrual'
    BY <2>1 DEF OneAccrual
  <2>3. WritesFit'
    BY <2>1 DEF WritesFit, Fits, AccrualSteps
  <2> QED
    BY <2>1, <2>2, <2>3 DEF AtMostOne
<1> QED
  BY <1>1, <1>2, <1>3 DEF Balanced

\* A step after which nobody holds a total who did not hold it before.
Aside ==
    /\ UNCHANGED <<staff, balance>> /\ overlap \subseteq overlap'
    /\ \A s \in Runs : run'[s] = run[s] \/ run'[s].step \notin AccrualSteps \cup {"paying"}

LEMMA GoAside ==
    ASSUME Typed, NEW r \in Runs, NEW x, Go(r, x),
           x.step \notin AccrualSteps \cup {"paying"},
           UNCHANGED <<staff, balance>>, overlap \subseteq overlap'
    PROVE  Aside
BY GoFacts DEF Typed, Aside

LEMMA ActivationAside ==
    ASSUME Typed, NEW r \in Runs, Activation(r) \/ Stop(r)
    PROVE  Aside
<1>1. ASSUME NEW date \in {today - 1, today}, StartActivation(r, date) PROVE Aside
  BY <1>1, GoAside DEF StartActivation, Begin, AccrualSteps
<1>2. CASE ReadExpired(r)
  BY <1>2, GoAside DEF ReadExpired, StepOn, AccrualSteps
<1>3. CASE Deactivate(r)
  BY <1>3, GoAside DEF Deactivate, StepOn, AccrualSteps
<1>4. CASE ReadPending(r)
  BY <1>4, GoAside DEF ReadPending, StepOn, AccrualSteps
<1>5. CASE ReadCurrent(r)
  <2>1. UNCHANGED <<staff, balance, overlap>>
    BY <1>5 DEF ReadCurrent
  <2>2. \E x : x.step \notin AccrualSteps \cup {"paying"} /\ Go(r, x)
    <3> PICK i \in First(run[r].todo) :
          LET active == Active(setting[i].year) IN
          \/ \E c \in IF active = {} THEN {0} ELSE active :
               Go(r, [step |-> IF c \in {0, i} THEN "switching" ELSE "superseding",
                      date |-> run[r].date, todo |-> run[r].todo, id |-> i, current |-> c])
          \/ StepOn(r, "activating", run[r].todo \ {i})
      BY <1>5 DEF ReadCurrent
    <3>1. CASE StepOn(r, "activating", run[r].todo \ {i})
      BY <3>1 DEF StepOn, AccrualSteps
    <3>2. ASSUME NEW c,
                 Go(r, [step |-> IF c \in {0, i} THEN "switching" ELSE "superseding",
                        date |-> run[r].date, todo |-> run[r].todo, id |-> i, current |-> c])
          PROVE  \E x : x.step \notin AccrualSteps \cup {"paying"} /\ Go(r, x)
      BY <3>2 DEF AccrualSteps
    <3> QED
      BY <3>1, <3>2
  <2> QED
    BY <2>1, <2>2, GoAside
<1>6. CASE Supersede(r)
  <2>1. UNCHANGED <<staff, balance, overlap>>
    BY <1>6 DEF Supersede
  <2>2. CASE NextTurn(r)
    BY <2>1, <2>2, GoAside DEF NextTurn, StepOn, AccrualSteps
  <2>3. CASE run' = [run EXCEPT ![r].step = "switching"]
    <3>1. run[r] \in Switching /\ run \in [Runs -> AnyRun]
      BY <1>6, RunOfStep DEF Supersede, Typed, StateOK, AnyRun
    <3>2. run'[r].step = "switching" /\ \A s \in Runs : s # r => run'[s] = run[s]
      BY <2>3, <3>1 DEF Switching
    <3> QED
      BY <2>1, <3>2 DEF Aside, AccrualSteps
  <2> QED
    BY <1>6, <2>2, <2>3 DEF Supersede
<1>7. CASE Activate(r)
  BY <1>7, GoAside DEF Activate, NextTurn, StepOn, AccrualSteps
<1>8. CASE EndActivation(r) \/ Stop(r)
  BY <1>8, GoAside DEF EndActivation, Stop, Idle, AccrualSteps
<1> QED
  BY <1>1, <1>2, <1>3, <1>4, <1>5, <1>6, <1>7, <1>8 DEF Activation

LEMMA SettingAside ==
    ASSUME Typed,
           \/ NextDay
           \/ \E y \in Years, from \in FormStarts, to \in FormEnds, active, isSystemOperation \in BOOLEAN :
                CreateSetting(y, from, to, active, isSystemOperation)
    PROVE  Aside
<1>1. UNCHANGED <<run, staff, balance, overlap>>
  BY DEF NextDay, CreateSetting
<1> QED
  BY <1>1 DEF Aside

LEMMA ReadingAside ==
    ASSUME Typed, NEW r \in Runs,
           \/ \E y \in Years : ReadForCopy(r, y)
           \/ CommitCopy(r)
           \/ \E u \in Users, y \in Years, share \in 0..MaxShare : ReadForJoin(r, u, y, share)
    PROVE  Aside
<1>1. CASE \E y \in Years : ReadForCopy(r, y)
  BY <1>1, GoAside DEF ReadForCopy, AccrualSteps
<1>2. CASE CommitCopy(r)
  BY <1>2, GoAside DEF CommitCopy, Idle, AccrualSteps
<1>3. CASE \E u \in Users, y \in Years, share \in 0..MaxShare : ReadForJoin(r, u, y, share)
  BY <1>3, GoAside DEF ReadForJoin, AccrualSteps
<1> QED
  BY <1>1, <1>2, <1>3

\* A step of the accrual of run r before its commit.
LEMMA AccruingBalanced ==
    ASSUME Typed, Balanced, NEW r \in Runs, NEW x, Go(r, x),
           UNCHANGED <<setting, staff, balance>>, overlap \subseteq overlap',
           x.step \in AccrualSteps,
           "accrual" \notin overlap' =>
               \A s \in Runs : run[s].step \in AccrualSteps => s = r,
           x.step = "crediting" =>
               /\ x.todo \subseteq staff
               /\ \A w \in x.writes : w.user \in staff
               /\ "accrual" \notin overlap' => \A w \in x.writes : Fits(w, x.year)
    PROVE  Balanced'
<1>1. run'[r] = x /\ \A s \in Runs : s # r => run'[s] = run[s]
  BY GoFacts DEF Typed
<1>2. NoneBefore'
  BY DEF Balanced, NoneBefore
<1>3. StaffOnly'
  BY <1>1 DEF Balanced, StaffOnly
<1>4. ASSUME "accrual" \notin overlap' PROVE (OneAccrual /\ WritesFit /\ AtMostOne)'
  <2>1. OneAccrual /\ WritesFit /\ AtMostOne
    BY <1>4 DEF Balanced
  <2>2. OneAccrual'
    BY <1>1, <1>4 DEF OneAccrual
  <2>3. WritesFit'
    <3>1. \A s \in Runs : run'[s].step = "crediting" =>
             \A w \in run'[s].writes : Fits(w, run'[s].year)
      BY <1>1, <1>4, <2>1 DEF WritesFit
    <3> QED
      BY <3>1 DEF WritesFit, Fits
  <2> QED
    BY <2>1, <2>2, <2>3 DEF AtMostOne
<1> QED
  BY <1>2, <1>3, <1>4 DEF Balanced

LEMMA StartAccrualBalanced ==
    ASSUME Typed, Balanced, NEW r \in Runs, NEW y, NEW total, StartAccrual(r, y, total)
    PROVE  Balanced'
<1> DEFINE x == [step |-> "identifying", year |-> y, total |-> total, known |-> FALSE]
<1>1. /\ Go(r, x) /\ UNCHANGED <<setting, staff, balance>>
      /\ overlap \subseteq overlap'
      /\ "accrual" \notin overlap' => \A s \in Runs : run[s].step \notin AccrualSteps
  BY DEF StartAccrual, Begin
<1>2. x.step \in AccrualSteps /\ x.step # "crediting"
  BY DEF AccrualSteps
<1> HIDE DEF x
<1> QED
  BY <1>1, <1>2, AccruingBalanced

LEMMA ReadingAccrualBalanced ==
    ASSUME Typed, Balanced, NEW r \in Runs, ReadSettingId(r) \/ ListStaff(r)
    PROVE  Balanced'
<1>1. /\ UNCHANGED <<setting, staff, balance, overlap>>
      /\ run[r].step \in AccrualSteps
  BY DEF ReadSettingId, ListStaff, AccrualSteps
<1>2. "accrual" \notin overlap => \A s \in Runs : run[s].step \in AccrualSteps => s = r
  BY <1>1 DEF Balanced, OneAccrual
<1>3. CASE ReadSettingId(r)
  <2> PICK x : x = [run[r] EXCEPT !.step = "listing", !.known = Active(run[r].year) # {}]
    OBVIOUS
  <2>1. run[r] \in Accruing
    BY <1>3, RunOfStep DEF ReadSettingId, Typed
  <2>2. x.step = "listing"
    BY <2>1 DEF Accruing
  <2>3. Go(r, x)
    BY <1>3 DEF Go, ReadSettingId
  <2> QED
    BY <1>1, <1>2, <2>2, <2>3, AccruingBalanced DEF AccrualSteps
<1>4. CASE ListStaff(r)
  <2> PICK x : x = [step |-> "crediting", year |-> run[r].year, total |-> run[r].total,
                    known |-> run[r].known, todo |-> staff, writes |-> {}]
    OBVIOUS
  <2>1. x.step = "crediting" /\ x.todo = staff /\ x.writes = {} /\ Go(r, x)
    BY <1>4 DEF ListStaff
  <2> QED
    BY <1>1, <1>2, <2>1, AccruingBalanced DEF AccrualSteps
<1> QED
  BY <1>3, <1>4

LEMMA CreditUserBalanced ==
    ASSUME Typed, Balanced, NEW r \in Runs, CreditUser(r)
    PROVE  Balanced'
<1>1. /\ UNCHANGED <<setting, staff, balance, overlap>>
      /\ run[r].step = "crediting" /\ run[r] \in Crediting
  BY RunOfStep DEF CreditUser, Typed
<1>2. "accrual" \notin overlap => \A s \in Runs : run[s].step \in AccrualSteps => s = r
  BY <1>1 DEF Balanced, OneAccrual, AccrualSteps
<1> PICK u \in run[r].todo : \E now \in Found(u, run[r].year) : Go(r, [run[r] EXCEPT
             !.todo = @ \ {u},
             !.writes = IF ToCredit(run[r].total, now.total)
                          THEN @ \cup {[user |-> u, row |-> now.row, total |-> run[r].total]}
                          ELSE @])
  BY DEF CreditUser
<1> PICK now \in Found(u, run[r].year) : Go(r, [run[r] EXCEPT
             !.todo = @ \ {u},
             !.writes = IF ToCredit(run[r].total, now.total)
                          THEN @ \cup {[user |-> u, row |-> now.row, total |-> run[r].total]}
                          ELSE @])
  OBVIOUS
<1> PICK new : new = [user |-> u, row |-> now.row, total |-> run[r].total]
  OBVIOUS
<1> PICK x : x = [run[r] EXCEPT
             !.todo = @ \ {u},
             !.writes = IF ToCredit(run[r].total, now.total) THEN @ \cup {new} ELSE @]
  OBVIOUS
<1>3. Go(r, x)
  OBVIOUS
<1>4. /\ x.step = "crediting" /\ x.year = run[r].year
      /\ x.todo \subseteq run[r].todo
      /\ \A w \in x.writes : w \in run[r].writes
                             \/ (w = new /\ ToCredit(run[r].total, now.total))
  BY <1>1 DEF Crediting
<1>5. /\ run[r].todo \subseteq staff /\ \A w \in run[r].writes : w.user \in staff
  BY <1>1 DEF Balanced, StaffOnly
<1>6. ToCredit(run[r].total, now.total) => Fits(new, run[r].year)
  <2>1. u \in Users /\ run[r].year \in Years
    BY <1>1 DEF Crediting
  <2> QED
    BY <2>1, FoundFacts DEF Fits, Typed
<1>7. "accrual" \notin overlap => \A w \in x.writes : Fits(w, x.year)
  BY <1>1, <1>4, <1>6 DEF Balanced, WritesFit
<1>8. \A w \in x.writes : w.user \in staff
  BY <1>4, <1>5
<1> QED
  BY <1>1, <1>2, <1>3, <1>4, <1>5, <1>7, <1>8, AccruingBalanced DEF AccrualSteps

\* The rows have become new ones by the writes W: one is inserted, or some are
\* replaced.
Becomes(rows, new, W) ==
    /\ DOMAIN rows \subseteq DOMAIN new
    /\ \A i \in DOMAIN rows :
         new[i] = rows[i] \/ \E w \in W : w.row = i /\ new[i] = w.total
    /\ Len(new) = Len(rows) \/ (Len(new) = Len(rows) + 1 /\ \E w \in W : w.row = 0)

\* The writes for one balance.
WritesOf(writes, u, y, year) == {w \in writes : y = year /\ w.user = u}

\* What the writes of a run make of a balance.
LEMMA WrittenFacts ==
    ASSUME StateOK, NEW writes \in SUBSET Credit, NEW u \in Users, NEW y \in Years,
           NEW year \in Years
    PROVE  Becomes(balance[u][y], Written(writes, u, y, year),
                   WritesOf(writes, u, y, year))
<1> DEFINE rows == balance[u][y]
           Of(i) == {w \in writes : w.user = u /\ w.row = i}
           new == Written(writes, u, y, year)
<1>1. rows \in Seq(Totals) /\ DOMAIN rows = 1..Len(rows) /\ Len(rows) \in Nat
  BY DEF StateOK
<1>2. CASE y # year \/ \A w \in writes : w.user # u
  <2>1. new = rows
    BY <1>2 DEF Written
  <2> QED
    BY <2>1 DEF Becomes
<1>3. CASE y = year /\ ~(\A w \in writes : w.user # u) /\ Of(0) # {}
  <2> DEFINE z == (CHOOSE w \in Of(0) : TRUE).total
  <2>1. new = Append(rows, z)
    BY <1>3 DEF Written
  <2>2. \E w \in writes : w.user = u /\ w.row = 0
    BY <1>3
  <2>3. z \in Totals
    BY <1>3 DEF Credit
  <2> HIDE DEF rows, Of, new, z
  <2>4. /\ Len(new) = Len(rows) + 1 /\ DOMAIN rows \subseteq DOMAIN new
        /\ \A i \in DOMAIN rows : new[i] = rows[i]
    BY <1>1, <2>1, <2>3
  <2> QED
    BY <1>3, <2>2, <2>4 DEF rows, new, Becomes, WritesOf
<1>4. CASE y = year /\ ~(\A w \in writes : w.user # u) /\ Of(0) = {}
  <2> DEFINE f == [i \in DOMAIN rows |->
                     IF Of(i) # {} THEN (CHOOSE w \in Of(i) : TRUE).total ELSE rows[i]]
  <2>1. new = f
    BY <1>4 DEF Written
  <2>2. \A i \in DOMAIN rows : Of(i) # {} =>
           \E w \in writes : w.user = u /\ w.row = i /\ (CHOOSE v \in Of(i) : TRUE).total = w.total
    <3> SUFFICES ASSUME NEW i \in DOMAIN rows, Of(i) # {}
                 PROVE  \E w \in writes :
                          w.user = u /\ w.row = i /\ (CHOOSE v \in Of(i) : TRUE).total = w.total
      OBVIOUS
    <3>1. PICK v : v = CHOOSE w \in Of(i) : TRUE
      OBVIOUS
    <3>2. v \in Of(i)
      BY <3>1
    <3> QED
      BY <3>1, <3>2
  <2> HIDE DEF rows, Of
  <2>3. \A i \in DOMAIN rows :
           f[i] = rows[i] \/ \E w \in writes : w.user = u /\ w.row = i /\ f[i] = w.total
    BY <2>2
  <2>4. DOMAIN f = DOMAIN rows
    OBVIOUS
  <2>5. new \in Seq(Totals)
    BY WrittenTyped DEF new
  <2> HIDE DEF f, new
  <2>6. Len(new) = Len(rows)
    BY <1>1, <2>1, <2>4, <2>5
  <2> QED
    BY <1>4, <2>1, <2>3, <2>4, <2>6 DEF rows, new, Becomes, WritesOf
<1> QED
  BY <1>2, <1>3, <1>4

\* What a commit of the accrual makes of it.
LEMMA CommitWrites ==
    ASSUME Typed, NEW r \in Runs, CommitAccrual(r), NEW u \in Users, NEW y \in Years
    PROVE  Becomes(balance[u][y], balance'[u][y],
                   WritesOf(run[r].writes, u, y, run[r].year))
<1> PICK writes, year : writes = run[r].writes /\ year = run[r].year
  OBVIOUS
<1>1. writes \in SUBSET Credit /\ year \in Years /\ StateOK
  BY RunOfStep DEF CommitAccrual, Typed, Crediting
<1>2. CASE balance' = balance
  BY <1>2 DEF Becomes
<1>3. CASE balance' = [v \in Users |-> [x \in Years |-> Written(writes, v, x, year)]]
  <2>1. balance'[u][y] = Written(writes, u, y, year)
    BY <1>3
  <2>2. Becomes(balance[u][y], Written(writes, u, y, year),
                WritesOf(writes, u, y, year))
    BY <1>1, WrittenFacts
  <2> QED
    BY <2>1, <2>2
<1> QED
  BY <1>2, <1>3 DEF CommitAccrual

LEMMA CommitAccrualBalanced ==
    ASSUME Typed, Balanced, NEW r \in Runs, CommitAccrual(r)
    PROVE  Balanced'
<1>1. run'[r] = Idle /\ \A s \in Runs : s # r => run'[s] = run[s]
  BY GoFacts DEF CommitAccrual, Typed
<1>2. UNCHANGED <<staff, overlap>> /\ Idle.step = "idle" /\ run[r].step = "crediting"
  BY DEF CommitAccrual, Idle
<1>3. NoneBefore'
  <2> SUFFICES ASSUME NEW u \in Users \ staff, NEW y \in Years
               PROVE  balance'[u][y] = <<>>
    BY <1>2 DEF NoneBefore
  <2>1. balance[u][y] = <<>> /\ \A w \in run[r].writes : w.user # u
    BY <1>2 DEF Balanced, NoneBefore, StaffOnly
  <2>2. Written(run[r].writes, u, y, run[r].year) = <<>>
    BY <2>1 DEF Written
  <2> QED
    BY <2>1, <2>2 DEF CommitAccrual
<1>4. StaffOnly'
  BY <1>1, <1>2 DEF Balanced, StaffOnly
<1>5. ASSUME "accrual" \notin overlap' PROVE (OneAccrual /\ WritesFit /\ AtMostOne)'
  <2>1. OneAccrual /\ WritesFit
    BY <1>2, <1>5 DEF Balanced
  <2>2. OneAccrual'
    BY <1>1, <1>2, <2>1 DEF OneAccrual, AccrualSteps
  <2>3. WritesFit'
    <3>1. \A s \in Runs : run'[s].step # "crediting"
      BY <1>1, <1>2, <2>1 DEF OneAccrual, AccrualSteps
    <3> QED
      BY <3>1 DEF WritesFit
  <2>4. AtMostOne'
    <3> SUFFICES ASSUME NEW u \in Users, NEW y \in Years PROVE Len(balance'[u][y]) <= 1
      BY DEF AtMostOne
    <3>1. Len(balance[u][y]) <= 1
      BY <1>2, <1>5 DEF Balanced, AtMostOne
    <3>2. \A w \in run[r].writes : Fits(w, run[r].year)
      BY <1>2, <2>1 DEF WritesFit
    <3>3. CASE Len(balance'[u][y]) = Len(balance[u][y])
      BY <3>1, <3>3
    <3>4. CASE /\ \E w \in WritesOf(run[r].writes, u, y, run[r].year) : w.row = 0
               /\ Len(balance'[u][y]) = Len(balance[u][y]) + 1
      <4>1. balance[u][y] = <<>>
        BY <3>2, <3>4 DEF Fits, WritesOf
      <4> QED
        BY <3>4, <4>1
    <3> QED
      BY <3>3, <3>4, CommitWrites DEF Becomes
  <2> QED
    BY <2>2, <2>3, <2>4
<1> QED
  BY <1>3, <1>4, <1>5 DEF Balanced

\* One more row for employee p in year q.
LEMMA Given ==
    ASSUME NEW b \in [Users -> [Years -> Seq(Totals)]], NEW p \in Users, NEW q \in Years,
           NEW z, NEW c, c = [b EXCEPT ![p][q] = Append(@, z)],
           NEW u \in Users, NEW y \in Years
    PROVE  c[u][y] = IF u = p /\ y = q THEN Append(b[p][q], z) ELSE b[u][y]
<1>1. c = [b EXCEPT ![p] = [b[p] EXCEPT ![q] = Append(b[p][q], z)]]
  OBVIOUS
<1>2. c[u] = IF u = p THEN [b[p] EXCEPT ![q] = Append(b[p][q], z)] ELSE b[u]
  BY <1>1
<1>3. b[p] \in [Years -> Seq(Totals)]
  OBVIOUS
<1> QED
  BY <1>2, <1>3

\* Who joins had no balance, and no accrual in flight has listed them.
LEMMA CommitJoinBalanced ==
    ASSUME Typed, Balanced, NEW r \in Runs, CommitJoin(r)
    PROVE  Balanced'
<1> DEFINE u == run[r].user  y == run[r].year
<1>1. run'[r] = Idle /\ \A s \in Runs : s # r => run'[s] = run[s]
  BY GoFacts DEF CommitJoin, Typed
<1>2. UNCHANGED overlap /\ Idle.step = "idle" /\ u \in Users /\ y \in Years
  BY RunOfStep DEF CommitJoin, Idle, Typed, Joining
<1>3. CASE UNCHANGED <<staff, balance>>
  BY <1>1, <1>2, <1>3, AsideBalanced DEF AccrualSteps
<1>4. CASE u \notin staff /\ staff' = staff \cup {u}
  <2> PICK z : z = run[r].share
    OBVIOUS
  <2>1. balance' = balance \/ balance' = [balance EXCEPT ![u][y] = Append(@, z)]
    BY <1>4 DEF CommitJoin
  <2>2. balance \in [Users -> [Years -> Seq(Totals)]]
    BY DEF Typed, StateOK
  <2>3. \A v \in Users : v # u => balance'[v] = balance[v]
    BY <2>1, <2>2
  <2>4. NoneBefore'
    BY <1>4, <2>3 DEF Balanced, NoneBefore
  <2>5. StaffOnly'
    BY <1>1, <1>2, <1>4 DEF Balanced, StaffOnly
  <2>6. ASSUME "accrual" \notin overlap' PROVE (OneAccrual /\ WritesFit /\ AtMostOne)'
    <3>1. OneAccrual /\ WritesFit /\ AtMostOne
      BY <1>2, <2>6 DEF Balanced
    <3>2. OneAccrual'
      BY <1>1, <1>2, <3>1 DEF OneAccrual, AccrualSteps
    <3>3. WritesFit'
      <4>1. \A s \in Runs : run'[s].step = "crediting" =>
               \A w \in run'[s].writes : w.user \in staff /\ Fits(w, run'[s].year)
        BY <1>1, <1>2, <3>1 DEF WritesFit, Balanced, StaffOnly
      <4>2. \A s \in Runs : run'[s].step = "crediting" =>
               \A w \in run'[s].writes : balance'[w.user] = balance[w.user]
        <5>1. staff \subseteq Users
          BY DEF Typed, StateOK
        <5> QED
          BY <1>4, <2>3, <4>1, <5>1
      <4> QED
        BY <4>1, <4>2 DEF WritesFit, Fits
    <3>4. AtMostOne'
      <4> SUFFICES ASSUME NEW v \in Users, NEW d \in Years PROVE Len(balance'[v][d]) <= 1
        BY DEF AtMostOne
      <4>1. CASE balance'[v][d] = balance[v][d]
        BY <3>1, <4>1 DEF AtMostOne
      <4>2. CASE balance'[v][d] # balance[v][d]
        <5>1. v = u /\ d = y /\ balance'[v][d] = Append(balance[u][y], z)
          BY <1>2, <2>1, <2>2, <4>2, Given
        <5>2. balance[u][y] = <<>>
          BY <1>2, <1>4 DEF Balanced, NoneBefore
        <5>3. Len(Append(<<>>, z)) = 1
          OBVIOUS
        <5> QED
          BY <5>1, <5>2, <5>3
      <4> QED
        BY <4>1, <4>2
    <3> QED
      BY <3>2, <3>3, <3>4
  <2> QED
    BY <2>4, <2>5, <2>6 DEF Balanced
<1> QED
  BY <1>3, <1>4 DEF CommitJoin

\* Payroll inserts nothing, and whoever had no balance has none.
LEMMA PayBalanced ==
    ASSUME Typed, Balanced, NEW r \in Runs,
           \/ \E u \in Users, y \in Years, leaves \in 1..MaxCredit : ReadForPayroll(r, u, y, leaves)
           \/ CommitPayroll(r)
    PROVE  Balanced'
<1>1. CASE \E u \in Users, y \in Years, leaves \in 1..MaxCredit : ReadForPayroll(r, u, y, leaves)
  <2>1. PICK x : Go(r, x) /\ x.step = "paying" /\ UNCHANGED <<staff, balance, overlap>>
    BY <1>1 DEF ReadForPayroll
  <2>2. run'[r] = x /\ \A s \in Runs : s # r => run'[s] = run[s]
    BY <2>1, GoFacts DEF Typed
  <2> QED
    BY <2>1, <2>2, AsideBalanced DEF AccrualSteps
<1>2. CASE CommitPayroll(r)
  <2>1. /\ run'[r].step = "idle" /\ \A s \in Runs : s # r => run'[s] = run[s]
        /\ UNCHANGED <<staff, overlap>>
    BY <1>2, GoFacts DEF CommitPayroll, Typed, Idle
  <2>3. \A u \in Users, y \in Years :
           /\ Len(balance'[u][y]) = Len(balance[u][y])
           /\ balance[u][y] = <<>> => balance'[u][y] = <<>>
    <3> SUFFICES ASSUME NEW u \in Users, NEW y \in Years
                 PROVE  /\ Len(balance'[u][y]) = Len(balance[u][y])
                        /\ balance[u][y] = <<>> => balance'[u][y] = <<>>
      OBVIOUS
    <3>1. balance'[u][y] \in Seq(Totals) /\ Len(balance'[u][y]) = Len(balance[u][y])
      BY <1>2, PayrollWrites
    <3> QED
      BY <3>1
  <2>4. NoneBefore'
    BY <2>1, <2>3 DEF Balanced, NoneBefore
  <2>5. StaffOnly'
    BY <2>1 DEF Balanced, StaffOnly
  <2>6. ASSUME "accrual" \notin overlap' PROVE (OneAccrual /\ WritesFit /\ AtMostOne)'
    <3>1. OneAccrual /\ WritesFit /\ AtMostOne
      BY <2>1, <2>6 DEF Balanced
    <3>2. OneAccrual'
      BY <2>1, <3>1 DEF OneAccrual, AccrualSteps
    <3>3. WritesFit'
      <4> SUFFICES ASSUME NEW s \in Runs, run'[s].step = "crediting", NEW w \in run'[s].writes
                   PROVE  w.row = 0 => balance'[w.user][run'[s].year] = <<>>
        BY DEF WritesFit, Fits
      <4>1. run'[s] = run[s] /\ Fits(w, run[s].year)
        BY <2>1, <3>1 DEF WritesFit
      <4>2. w.user \in Users /\ run[s].year \in Years
        BY <4>1, RunOfStep DEF Typed, Crediting, Credit
      <4> QED
        BY <2>3, <4>1, <4>2 DEF Fits
    <3>4. AtMostOne'
      BY <2>3, <3>1 DEF AtMostOne
    <3> QED
      BY <3>2, <3>3, <3>4
  <2> QED
    BY <2>4, <2>5, <2>6 DEF Balanced
<1> QED
  BY <1>1, <1>2

LEMMA BalancedStep == Typed /\ Balanced /\ [Next]_vars => Balanced'
<1> SUFFICES ASSUME Typed, Balanced, [Next]_vars PROVE Balanced'
  OBVIOUS
<1>1. CASE UNCHANGED vars
  BY <1>1, AsideBalanced DEF vars
<1>2. Aside => Balanced'
  BY AsideBalanced DEF Aside
<1>3. ASSUME NEW r \in Runs, Accrual(r) PROVE Balanced'
  BY <1>3, StartAccrualBalanced, ReadingAccrualBalanced, CreditUserBalanced,
     CommitAccrualBalanced DEF Accrual, Accrue
<1>4. ASSUME NEW r \in Runs, Request(r) PROVE Balanced'
  BY <1>2, <1>4, ReadingAside, CommitJoinBalanced, PayBalanced DEF Request
<1> QED
  BY <1>1, <1>2, <1>3, <1>4, ActivationAside, SettingAside DEF Next, Step

LEMMA AlwaysBalanced == Spec => []Balanced
<1> QED
  BY InitBalanced, BalancedStep, AlwaysTyped, PTL DEF Spec

\* The accrual and the credit on joining never both insert a balance, as long as
\* two accruals do not overlap.
THEOREM BalanceIsOne == Spec => []OneBalance
<1>1. Balanced => OneBalance
  BY DEF Balanced, AtMostOne, OneBalance
<1> QED
  BY <1>1, AlwaysBalanced, PTL

-----------------------------------------------------------------------------
(* The floor.  What somebody holds was computed from a balance that was no *)
(* lower, by adding to it or because more was due, and while it is held    *)
(* the floor stays.  Therefore a total that is late is not below it.       *)

Above(b) ==
    \A u \in Users, y \in Years :
        /\ DOMAIN floor[u][y] \subseteq DOMAIN b[u][y]
        /\ \A i \in DOMAIN floor[u][y] : b[u][y][i] >= floor[u][y][i]

\* A total of user u for a row in year y.
TotalAbove(u, y, row, total) == row \in DOMAIN floor[u][y] => total >= floor[u][y][row]

TotalsAbove(x) ==
    /\ x.step = "paying" => TotalAbove(x.user, x.year, x.row, x.total)
    /\ x.step = "crediting" =>
         \A w \in x.writes : TotalAbove(w.user, x.year, w.row, w.total)

Floored == Above(balance) /\ \A r \in Runs : TotalsAbove(run[r])

LEMMA InitFloored == Init => Floored
<1> SUFFICES ASSUME Init PROVE Floored
  OBVIOUS
<1>1. Above(balance)
  BY DEF Init, Above
<1>2. \A r \in Runs : TotalsAbove(run[r])
  BY DEF Init, Idle, TotalsAbove
<1> QED
  BY <1>1, <1>2 DEF Floored

\* A total that is no lower than the row it was read from.
LEMMA ReadAbove ==
    ASSUME Typed, FloorOK, Floored, NEW u \in Users, NEW y \in Years, NEW now \in Found(u, y),
           NEW total \in Nat, total >= now.total
    PROVE  TotalAbove(u, y, now.row, total)
<1> SUFFICES ASSUME now.row \in DOMAIN floor[u][y]
             PROVE  total >= floor[u][y][now.row]
  BY DEF TotalAbove
<1>1. floor[u][y] \in Seq(Totals)
  BY DEF FloorOK
<1>2. now.row # 0 /\ floor[u][y][now.row] \in Nat
  BY <1>1 DEF Totals
<1>3. now.total = balance[u][y][now.row] /\ now.total \in Nat
  BY <1>2, FoundFacts DEF Typed, Totals
<1>4. balance[u][y][now.row] >= floor[u][y][now.row]
  BY DEF Floored, Above
<1> QED
  BY <1>2, <1>3, <1>4

LEMMA GoTotals ==
    ASSUME Typed, Floored, NEW r \in Runs, NEW x, Go(r, x), TotalsAbove(x)
    PROVE  \A s \in Runs : TotalsAbove(run'[s])
<1>1. run'[r] = x /\ \A s \in Runs : s # r => run'[s] = run[s]
  BY GoFacts DEF Typed
<1> QED
  BY <1>1 DEF Floored

LEMMA AsideTotals ==
    ASSUME Floored, Aside
    PROVE  \A s \in Runs : TotalsAbove(run'[s])
BY DEF Floored, Aside, TotalsAbove, AccrualSteps

\* The accrual credits what is more than there is.
LEMMA CreditTotals ==
    ASSUME Typed, FloorOK, Floored, NEW r \in Runs, CreditUser(r)
    PROVE  \A s \in Runs : TotalsAbove(run'[s])
<1>1. run[r].step = "crediting" /\ run[r] \in Crediting
  BY RunOfStep DEF CreditUser, Typed
<1> PICK u \in run[r].todo : \E now \in Found(u, run[r].year) : Go(r, [run[r] EXCEPT
             !.todo = @ \ {u},
             !.writes = IF ToCredit(run[r].total, now.total)
                          THEN @ \cup {[user |-> u, row |-> now.row, total |-> run[r].total]}
                          ELSE @])
  BY DEF CreditUser
<1> PICK now \in Found(u, run[r].year) : Go(r, [run[r] EXCEPT
             !.todo = @ \ {u},
             !.writes = IF ToCredit(run[r].total, now.total)
                          THEN @ \cup {[user |-> u, row |-> now.row, total |-> run[r].total]}
                          ELSE @])
  OBVIOUS
<1> PICK new : new = [user |-> u, row |-> now.row, total |-> run[r].total]
  OBVIOUS
<1> PICK x : x = [run[r] EXCEPT
             !.todo = @ \ {u},
             !.writes = IF ToCredit(run[r].total, now.total) THEN @ \cup {new} ELSE @]
  OBVIOUS
<1>2. Go(r, x)
  OBVIOUS
<1>3. /\ x.step = "crediting" /\ x.year = run[r].year
      /\ \A w \in x.writes : w \in run[r].writes
                             \/ (w = new /\ ToCredit(run[r].total, now.total))
  BY <1>1 DEF Crediting
<1>4. ToCredit(run[r].total, now.total) =>
         TotalAbove(new.user, run[r].year, new.row, new.total)
  <2> SUFFICES ASSUME ToCredit(run[r].total, now.total)
               PROVE  TotalAbove(u, run[r].year, now.row, run[r].total)
    OBVIOUS
  <2>1. u \in Users /\ run[r].year \in Years /\ run[r].total \in Nat
    BY <1>1 DEF Crediting, Totals
  <2>2. now.total \in Nat
    BY <2>1, FoundFacts DEF Typed, Totals
  <2>3. run[r].total >= now.total
    BY <2>1, <2>2 DEF ToCredit
  <2> QED
    BY <2>1, <2>3, ReadAbove
<1>5. \A w \in run[r].writes : TotalAbove(w.user, run[r].year, w.row, w.total)
  BY <1>1 DEF Floored, TotalsAbove
<1>6. TotalsAbove(x)
  BY <1>3, <1>4, <1>5 DEF TotalsAbove
<1> QED
  BY <1>2, <1>6, GoTotals

\* Payroll adds to what there is.
LEMMA PayTotals ==
    ASSUME Typed, FloorOK, Floored, NEW r \in Runs, NEW u \in Users, NEW y \in Years,
           NEW leaves \in 1..MaxCredit, ReadForPayroll(r, u, y, leaves)
    PROVE  \A s \in Runs : TotalsAbove(run'[s])
<1> PICK now \in Allocated(u, y) :
      Go(r, [step |-> "paying", user |-> u, year |-> y, row |-> now.row,
             total |-> now.total + Precision * leaves])
  BY DEF ReadForPayroll
<1> PICK total : total = now.total + Precision * leaves
  OBVIOUS
<1> PICK x : x = [step |-> "paying", user |-> u, year |-> y, row |-> now.row, total |-> total]
  OBVIOUS
<1>1. now \in Found(u, y) /\ now.total \in Nat
  BY FoundFacts DEF Typed, Found, Totals
<1>2. Precision * leaves \in Nat
  BY Product, LeaveYearAssumption
<1>3. total \in Nat /\ total >= now.total
  BY <1>1, <1>2
<1>4. TotalsAbove(x)
  BY <1>1, <1>3, ReadAbove DEF TotalsAbove
<1>5. Go(r, x)
  OBVIOUS
<1> QED
  BY <1>4, <1>5, GoTotals

LEMMA StepTotals ==
    ASSUME Typed, FloorOK, Floored, Step
    PROVE  \A s \in Runs : TotalsAbove(run'[s])
<1> DEFINE Goal == \A s \in Runs : TotalsAbove(run'[s])
<1>1. Aside => Goal
  BY AsideTotals
<1>2. ASSUME NEW r \in Runs, NEW x, Go(r, x), x.step \notin {"paying", "crediting"} PROVE Goal
  BY <1>2, GoTotals DEF TotalsAbove
<1>3. TotalsAbove(Idle) /\ Idle.step \notin {"paying", "crediting"}
  BY DEF TotalsAbove, Idle
<1>4. ASSUME NEW r \in Runs, Accrual(r) PROVE Goal
  <2>1. ASSUME NEW y, NEW total, StartAccrual(r, y, total) PROVE Goal
    BY <1>2, <2>1 DEF StartAccrual, Begin
  <2>2. CASE ReadSettingId(r)
    <3> PICK x : x = [run[r] EXCEPT !.step = "listing", !.known = Active(run[r].year) # {}]
      OBVIOUS
    <3>1. run[r] \in Accruing
      BY <2>2, RunOfStep DEF ReadSettingId, Typed
    <3>2. x.step = "listing" /\ Go(r, x)
      BY <2>2, <3>1 DEF Accruing, Go, ReadSettingId
    <3> QED
      BY <1>2, <3>2
  <2>3. CASE ListStaff(r)
    <3> PICK x : x = [step |-> "crediting", year |-> run[r].year, total |-> run[r].total,
                      known |-> run[r].known, todo |-> staff, writes |-> {}]
      OBVIOUS
    <3>1. TotalsAbove(x) /\ Go(r, x)
      BY <2>3 DEF ListStaff, TotalsAbove
    <3> QED
      BY <3>1, GoTotals
  <2>4. CASE CommitAccrual(r)
    BY <1>3, <2>4, GoTotals DEF CommitAccrual
  <2> HIDE DEF Goal
  <2>5. CreditUser(r) => Goal
    BY CreditTotals DEF Goal
  <2> QED
    BY <1>4, <2>1, <2>2, <2>3, <2>4, <2>5 DEF Accrual, Accrue
<1>5. ASSUME NEW r \in Runs, Request(r) PROVE Goal
  <2>1. CASE CommitJoin(r) \/ CommitPayroll(r)
    BY <1>3, <2>1, GoTotals DEF CommitJoin, CommitPayroll
  <2> HIDE DEF Goal
  <2>2. ASSUME NEW u \in Users, NEW y \in Years, NEW leaves \in 1..MaxCredit,
               ReadForPayroll(r, u, y, leaves)
        PROVE  Goal
    BY <2>2, PayTotals DEF Goal
  <2> QED
    BY <1>1, <1>5, <2>1, <2>2, ReadingAside DEF Request
<1> HIDE DEF Goal
<1>6. Goal
  BY <1>1, <1>4, <1>5, ActivationAside, SettingAside DEF Step
<1> QED
  BY <1>6 DEF Goal

\* Every commit writes a total that is above, or adds a row.
LEMMA StepAbove ==
    ASSUME Typed, FloorOK, Floored, [Next]_vars
    PROVE  Above(balance')
<1> SUFFICES ASSUME NEW u \in Users, NEW y \in Years
             PROVE  /\ DOMAIN floor[u][y] \subseteq DOMAIN balance'[u][y]
                    /\ \A i \in DOMAIN floor[u][y] : balance'[u][y][i] >= floor[u][y][i]
  BY DEF Above
<1>1. /\ DOMAIN floor[u][y] \subseteq DOMAIN balance[u][y]
      /\ \A i \in DOMAIN floor[u][y] : balance[u][y][i] >= floor[u][y][i]
  BY DEF Floored, Above
<1>2. ASSUME DOMAIN balance[u][y] \subseteq DOMAIN balance'[u][y],
             \A i \in DOMAIN balance[u][y] :
                \/ balance'[u][y][i] = balance[u][y][i]
                \/ \E total : TotalAbove(u, y, i, total) /\ balance'[u][y][i] = total
      PROVE  /\ DOMAIN floor[u][y] \subseteq DOMAIN balance'[u][y]
             /\ \A i \in DOMAIN floor[u][y] : balance'[u][y][i] >= floor[u][y][i]
  BY <1>1, <1>2 DEF TotalAbove
<1>3. CASE balance'[u][y] = balance[u][y]
  BY <1>1, <1>3
<1>4. CASE \E r \in Runs : CommitAccrual(r)
  <2>1. PICK r \in Runs : CommitAccrual(r)
    BY <1>4
  <2>2. \A w \in run[r].writes : TotalAbove(w.user, run[r].year, w.row, w.total)
    BY <2>1 DEF CommitAccrual, Floored, TotalsAbove
  <2>3. Becomes(balance[u][y], balance'[u][y],
                WritesOf(run[r].writes, u, y, run[r].year))
    BY <2>1, CommitWrites
  <2> QED
    BY <1>2, <2>2, <2>3 DEF Becomes, WritesOf
<1>5. CASE \E r \in Runs : CommitJoin(r)
  <2>1. PICK r \in Runs : CommitJoin(r)
    BY <1>5
  <2> PICK z : z = run[r].share
    OBVIOUS
  <2>2. run[r].user \in Users /\ run[r].year \in Years /\ z \in Totals
    BY <2>1, RunOfStep, LeaveYearAssumption DEF CommitJoin, Typed, Joining, Totals
  <2>3. \/ balance' = balance
        \/ balance' = [balance EXCEPT ![run[r].user][run[r].year] = Append(@, z)]
    BY <2>1 DEF CommitJoin
  <2>4. balance'[u][y] \in {balance[u][y], Append(balance[u][y], z)}
    <3>1. balance \in [Users -> [Years -> Seq(Totals)]]
      BY DEF Typed, StateOK
    <3>2. CASE balance' = [balance EXCEPT ![run[r].user][run[r].year] = Append(@, z)]
      <4>1. balance'[u][y] = IF u = run[r].user /\ y = run[r].year
                               THEN Append(balance[run[r].user][run[r].year], z)
                               ELSE balance[u][y]
        BY <2>2, <3>1, <3>2, Given
      <4> QED
        BY <4>1
    <3> QED
      BY <2>3, <3>2
  <2>5. balance[u][y] \in Seq(Totals)
    BY DEF Typed, StateOK
  <2>6. /\ DOMAIN balance[u][y] \subseteq DOMAIN Append(balance[u][y], z)
        /\ \A i \in DOMAIN balance[u][y] : Append(balance[u][y], z)[i] = balance[u][y][i]
    BY <2>2, <2>5
  <2> QED
    BY <1>2, <1>3, <2>4, <2>6
<1>6. CASE \E r \in Runs : CommitPayroll(r)
  <2>1. PICK r \in Runs : CommitPayroll(r)
    BY <1>6
  <2>2. TotalAbove(run[r].user, run[r].year, run[r].row, run[r].total)
    BY <2>1 DEF CommitPayroll, Floored, TotalsAbove
  <2>3. /\ DOMAIN balance'[u][y] = DOMAIN balance[u][y]
        /\ \A i \in DOMAIN balance[u][y] :
             balance'[u][y][i] = IF u = run[r].user /\ y = run[r].year /\ i = run[r].row
                                   THEN run[r].total ELSE balance[u][y][i]
    BY <2>1, PayrollWrites
  <2> QED
    BY <1>2, <2>2, <2>3
<1>7. UNCHANGED balance \/ \E r \in Runs : CommitAccrual(r) \/ CommitJoin(r) \/ CommitPayroll(r)
  BY DEF Next, Step, vars, Activation, Accrual, Accrue, Request, Stop, NextDay, CreateSetting,
         StartActivation, ReadExpired, Deactivate, ReadPending, ReadCurrent, Supersede,
         Activate, EndActivation, StartAccrual, ReadSettingId, ListStaff, CreditUser,
         ReadForCopy, CommitCopy, ReadForJoin, ReadForPayroll
<1> QED
  BY <1>3, <1>4, <1>5, <1>6, <1>7

LEMMA FlooredStep == Typed /\ Typed' /\ FloorOK /\ Floored /\ [Next]_vars => Floored'
<1> SUFFICES ASSUME Typed, Typed', FloorOK, Floored, [Next]_vars PROVE Floored'
  OBVIOUS
<1>1. CASE UNCHANGED vars
  BY <1>1 DEF vars, Floored, Above, TotalsAbove, TotalAbove
<1>2. CASE Next
  <2>1. Above(balance') /\ \A s \in Runs : TotalsAbove(run'[s])
    BY <1>2, StepAbove, StepTotals DEF Next
  <2>2. Above(balance)'
    <3> SUFFICES ASSUME NEW u \in Users, NEW y \in Years
                 PROVE  /\ DOMAIN floor'[u][y] \subseteq DOMAIN balance'[u][y]
                        /\ \A i \in DOMAIN floor'[u][y] : balance'[u][y][i] >= floor'[u][y][i]
      BY DEF Above
    <3>1. CASE floor'[u] = floor[u]
      BY <2>1, <3>1 DEF Above
    <3>2. CASE floor'[u] = balance'[u]
      <4>1. balance'[u][y] \in Seq(Totals)
        BY DEF Typed, StateOK
      <4>2. \A i \in DOMAIN balance'[u][y] : balance'[u][y][i] \in Nat
        BY <4>1 DEF Totals
      <4> QED
        BY <3>2, <4>2
    <3> QED
      BY <1>2, <3>1, <3>2 DEF Next
  <2>3. ASSUME NEW r \in Runs PROVE TotalsAbove(run[r])'
    <3>1. \A u \in Users : Held(u)' => floor'[u] = floor[u]
      BY <1>2 DEF Next
    <3>2. TotalsAbove(run'[r])
      BY <2>1
    <3>3. run'[r] \in AnyRun
      BY DEF Typed, StateOK
    <3>4. CASE run'[r].step = "paying"
      <4>1. run'[r] \in Paying
        BY <3>4, <3>3, RecordOfStep
      <4> PICK u \in Users : u = run'[r].user
        BY <4>1 DEF Paying
      <4>2. Held(u)'
        BY <3>4 DEF Held
      <4> QED
        BY <3>1, <3>2, <3>4, <4>2 DEF TotalsAbove, TotalAbove
    <3>5. CASE run'[r].step = "crediting"
      <4>1. run'[r] \in Crediting
        BY <3>5, <3>3, RecordOfStep
      <4> SUFFICES ASSUME NEW w \in run'[r].writes
                   PROVE  w.row \in DOMAIN floor'[w.user][run'[r].year] =>
                            w.total >= floor'[w.user][run'[r].year][w.row]
        BY <3>5 DEF TotalsAbove, TotalAbove
      <4> PICK u \in Users : u = w.user
        BY <4>1 DEF Crediting, Credit
      <4>2. Held(u)'
        BY <3>5 DEF Held
      <4> QED
        BY <3>1, <3>2, <3>5, <4>2 DEF TotalsAbove, TotalAbove
    <3> QED
      BY <3>4, <3>5 DEF TotalsAbove
  <2> QED
    BY <2>2, <2>3 DEF Floored
<1> QED
  BY <1>1, <1>2

LEMMA AlwaysFloored == Spec => []Floored
BY InitFloored, FlooredStep, AlwaysTyped, AlwaysFloor, PTL DEF Spec

\* However many accruals and payrolls overlap, no commit takes away what was
\* there when nobody held a total of the employee.
THEOREM NothingBelowFloor == Spec => NeverBelowFloor
<1>1. Typed /\ FloorOK /\ Floored /\ [Next]_vars =>
        [\A u \in Users, y \in Years : \A i \in DOMAIN floor[u][y] :
           balance'[u][y][i] >= floor[u][y][i]]_vars
  BY StepAbove DEF Above
<1> QED
  BY <1>1, AlwaysTyped, AlwaysFloor, AlwaysFloored, PTL DEF Spec, NeverBelowFloor

-----------------------------------------------------------------------------
(* Settings in force.  The activation is alone, and no other step makes a  *)
(* setting active or inactive: what it has read of a year stays true.      *)

OneActivation ==
    \A r, s \in Runs :
        run[r].step \in ActivationSteps /\ run[s].step \in ActivationSteps => r = s

OneActive == \A y \in Years : \A i, j \in Active(y) : i = j

\* The activation knows the setting in force, or that there is no other.
Knows(x) ==
    /\ x.step = "superseding" => x.current \in Active(setting[x.id].year)
    /\ x.step = "switching" => Active(setting[x.id].year) \subseteq {x.id}

\* What has begun is in force, or its year still has its turn.
Covers(x) ==
    x.step \in {"activating", "superseding", "switching"} =>
        \A i \in Begun(x.date) :
            \/ i \in x.todo
            \/ Active(setting[i].year) # {}
            \/ x.step = "switching" /\ setting[i].year = setting[x.id].year

InForce ==
    "activation" \notin overlap =>
        /\ OneActivation
        /\ ~early => OneActive /\ \A r \in Runs : Knows(run[r])
        /\ ~disturbed => \A r \in Runs : Covers(run[r])

LEMMA InitInForce == Init => InForce
<1> SUFFICES ASSUME Init PROVE InForce
  OBVIOUS
<1>1. \A r \in Runs : run[r].step = "idle"
  BY DEF Init, Idle
<1>2. OneActive
  BY DEF Init, OneActive, Active, Rows
<1> QED
  BY <1>1, <1>2 DEF InForce, OneActivation, Knows, Covers, ActivationSteps

\* A step that is about no setting.
LEMMA AsideInForce ==
    ASSUME InForce, UNCHANGED <<setting, early>>, overlap \subseteq overlap',
           disturbed \in BOOLEAN, disturbed => disturbed',
           \A s \in Runs : run'[s] = run[s] \/ run'[s].step \notin ActivationSteps
    PROVE  InForce'
<1> SUFFICES ASSUME "activation" \notin overlap'
             PROVE  (/\ OneActivation
                     /\ ~early => OneActive /\ \A r \in Runs : Knows(run[r])
                     /\ ~disturbed => \A r \in Runs : Covers(run[r]))'
  BY DEF InForce
<1>1. OneActivation'
  BY DEF InForce, OneActivation
<1>2. ~early' => OneActive' /\ \A r \in Runs : Knows(run[r])'
  BY DEF InForce, OneActive, Knows, Active, Rows, ActivationSteps
<1>3. ~disturbed' => \A r \in Runs : Covers(run[r])'
  BY DEF InForce, Covers, Active, Begun, Rows, ActivationSteps
<1> QED
  BY <1>1, <1>2, <1>3

LEMMA GoInForce ==
    ASSUME Typed, InForce, NEW r \in Runs, NEW x, Go(r, x), x.step \notin ActivationSteps,
           UNCHANGED <<setting, early>>, overlap \subseteq overlap', disturbed => disturbed'
    PROVE  InForce'
<1>1. \A s \in Runs : run'[s] = run[s] \/ run'[s].step \notin ActivationSteps
  BY GoFacts DEF Typed
<1>2. disturbed \in BOOLEAN
  BY DEF Typed, StateOK
<1> QED
  BY <1>1, <1>2, AsideInForce

LEMMA AccrualInForce ==
    ASSUME Typed, InForce, NEW r \in Runs, Accrual(r)
    PROVE  InForce'
<1>1. UNCHANGED <<setting, early, disturbed>> /\ overlap \subseteq overlap'
  BY DEF Accrual, Accrue, StartAccrual, Begin, ReadSettingId, ListStaff, CreditUser,
         CommitAccrual
<1>2. ASSUME NEW y, NEW total, StartAccrual(r, y, total) PROVE InForce'
  BY <1>1, <1>2, GoInForce DEF StartAccrual, Begin, ActivationSteps
<1>3. CASE ReadSettingId(r)
  <2> PICK x : x = [run[r] EXCEPT !.step = "listing", !.known = Active(run[r].year) # {}]
    OBVIOUS
  <2>1. run[r] \in Accruing
    BY <1>3, RunOfStep DEF ReadSettingId, Typed
  <2>2. x.step = "listing" /\ Go(r, x)
    BY <1>3, <2>1 DEF Accruing, Go, ReadSettingId
  <2> QED
    BY <1>1, <2>2, GoInForce DEF ActivationSteps
<1>4. CASE ListStaff(r)
  BY <1>1, <1>4, GoInForce DEF ListStaff, ActivationSteps
<1>5. CASE CreditUser(r)
  <2>1. run[r] \in Crediting /\ run[r].step = "crediting"
    BY <1>5, RunOfStep DEF CreditUser, Typed
  <2>2. PICK todo, writes : Go(r, [run[r] EXCEPT !.todo = todo, !.writes = writes])
    BY <1>5 DEF CreditUser
  <2> PICK x : x = [run[r] EXCEPT !.todo = todo, !.writes = writes]
    OBVIOUS
  <2>3. x.step = "crediting" /\ Go(r, x)
    BY <2>1, <2>2 DEF Crediting
  <2> QED
    BY <1>1, <2>3, GoInForce DEF ActivationSteps
<1>6. CASE CommitAccrual(r)
  BY <1>1, <1>6, GoInForce DEF CommitAccrual, Idle, ActivationSteps
<1> QED
  BY <1>2, <1>3, <1>4, <1>5, <1>6 DEF Accrual, Accrue

LEMMA IdleInForce ==
    ASSUME Typed, InForce, NEW r \in Runs,
           \/ EndActivation(r) \/ Stop(r) \/ CommitJoin(r) \/ CommitPayroll(r)
           \/ \E y \in Years : ReadForCopy(r, y)
           \/ \E u \in Users, y \in Years, share \in 0..MaxShare : ReadForJoin(r, u, y, share)
           \/ \E u \in Users, y \in Years, leaves \in 1..MaxCredit : ReadForPayroll(r, u, y, leaves)
    PROVE  InForce'
<1> DEFINE Kept == UNCHANGED <<setting, early, overlap, disturbed>>
<1>1. Idle.step \notin ActivationSteps
  BY DEF Idle, ActivationSteps
<1>2. ASSUME NEW x, Go(r, x), x.step \notin ActivationSteps, Kept PROVE InForce'
  BY <1>2, GoInForce
<1>3. CASE EndActivation(r) \/ CommitJoin(r) \/ CommitPayroll(r)
  <2>1. Go(r, Idle) /\ Kept
    BY <1>3 DEF EndActivation, CommitJoin, CommitPayroll
  <2> QED
    BY <1>1, <1>2, <2>1
<1>4. CASE Stop(r)
  <2>1. Go(r, Idle) /\ UNCHANGED <<setting, early, overlap>> /\ disturbed' = TRUE
    BY <1>4 DEF Stop, Failed
  <2> QED
    BY <1>1, <2>1, GoInForce
<1>5. CASE \E y \in Years : ReadForCopy(r, y)
  <2>1. PICK y : Go(r, [step |-> "copying", year |-> y]) /\ Kept
    BY <1>5 DEF ReadForCopy
  <2> QED
    BY <1>2, <2>1 DEF ActivationSteps
<1>6. CASE \E u \in Users, y \in Years, share \in 0..MaxShare : ReadForJoin(r, u, y, share)
  <2>1. PICK u, y, share :
           Go(r, [step |-> "joining", user |-> u, year |-> y, share |-> share]) /\ Kept
    BY <1>6 DEF ReadForJoin
  <2> QED
    BY <1>2, <2>1 DEF ActivationSteps
<1>7. CASE \E u \in Users, y \in Years, leaves \in 1..MaxCredit : ReadForPayroll(r, u, y, leaves)
  <2>1. PICK u, y, row, total :
           Go(r, [step |-> "paying", user |-> u, year |-> y, row |-> row, total |-> total]) /\ Kept
    BY <1>7 DEF ReadForPayroll
  <2> QED
    BY <1>2, <2>1 DEF ActivationSteps
<1> QED
  BY <1>3, <1>4, <1>5, <1>6, <1>7

\* A row is added, by a copy or by a form.
LEMMA AddedInForce ==
    ASSUME Typed, InForce, NEW e \in Setting, setting' = Append(setting, e),
           e.active => early', early => early', early \in BOOLEAN, early' \in BOOLEAN,
           disturbed' = TRUE, UNCHANGED overlap,
           \A s \in Runs : run'[s] = run[s] \/ run'[s].step \notin ActivationSteps
    PROVE  InForce'
<1> SUFFICES ASSUME "activation" \notin overlap'
             PROVE  (OneActivation /\ (~early => OneActive /\ \A r \in Runs : Knows(run[r])))'
  BY DEF InForce
<1>1. OneActivation'
  BY DEF InForce, OneActivation
<1>2. ASSUME ~early' PROVE (OneActive /\ \A r \in Runs : Knows(run[r]))'
  <2>1. ~early /\ ~e.active
    BY <1>2
  <2>2. /\ Rows' = Rows \cup {Len(setting) + 1}
        /\ \A i \in Rows : setting'[i] = setting[i]
        /\ setting'[Len(setting) + 1] = e
    BY DEF Typed, StateOK, Rows
  <2>3. \A y : Active(y)' = Active(y)
    BY <2>1, <2>2 DEF Active
  <2>4. OneActive'
    BY <2>1, <2>3 DEF InForce, OneActive
  <2>5. \A r \in Runs : Knows(run[r])'
    <3> SUFFICES ASSUME NEW r \in Runs, run'[r] = run[r], run[r].step \in ActivationSteps
                 PROVE  Knows(run[r])'
      BY DEF Knows, ActivationSteps
    <3>1. Knows(run[r])
      BY <2>1 DEF InForce
    <3>2. run[r].step \in {"superseding", "switching"} => run[r].id \in Rows
      BY DEF Typed, Names, Named
    <3>3. run[r].step \in {"superseding", "switching"} => setting'[run[r].id] = setting[run[r].id]
      BY <2>2, <3>2
    <3> QED
      BY <2>3, <3>1, <3>3 DEF Knows
  <2> QED
    BY <2>4, <2>5
<1> QED
  BY <1>1, <1>2

LEMMA SettingsInForce ==
    ASSUME Typed, InForce,
           \/ \E y \in Years, from \in FormStarts, to \in FormEnds, active, isSystemOperation \in BOOLEAN :
                CreateSetting(y, from, to, active, isSystemOperation)
           \/ \E r \in Runs : CommitCopy(r)
    PROVE  InForce'
<1>1. ASSUME NEW y \in Years, NEW from \in FormStarts, NEW to \in FormEnds,
             NEW active \in BOOLEAN, NEW isSystemOperation \in BOOLEAN,
             CreateSetting(y, from, to, active, isSystemOperation)
      PROVE  InForce'
  <2> DEFINE e == [year |-> y, from |-> from, to |-> to, active |-> active]
  <2>1. e \in Setting
    BY Calendar DEF Setting
  <2>2. setting' = Append(setting, e) /\ UNCHANGED <<run, overlap>> /\ disturbed' = TRUE
    BY <1>1 DEF CreateSetting
  <2>3. e.active = active
    OBVIOUS
  <2>4. early' = (early \/ active) /\ early \in BOOLEAN
    BY <1>1 DEF CreateSetting, Typed, StateOK
  <2>5. (active => early') /\ (early => early') /\ early' \in BOOLEAN
    BY <2>4
  <2> HIDE DEF e
  <2> QED
    BY <2>1, <2>2, <2>3, <2>4, <2>5, AddedInForce
<1>2. ASSUME NEW r \in Runs, CommitCopy(r) PROVE InForce'
  <2>1. run[r] \in Copying /\ early \in BOOLEAN
    BY <1>2, RunOfStep DEF CommitCopy, Typed, StateOK
  <2> PICK e : e = [year |-> run[r].year, from |-> FirstOf(run[r].year),
                    to |-> LastOf(run[r].year), active |-> FALSE]
    OBVIOUS
  <2>2. e \in Setting /\ e.active = FALSE
    BY <2>1, Calendar DEF Setting, Copying
  <2>3. Go(r, Idle) /\ UNCHANGED <<early, overlap>> /\ disturbed' = TRUE
    BY <1>2 DEF CommitCopy
  <2>4. \A s \in Runs : run'[s] = run[s] \/ run'[s].step \notin ActivationSteps
    BY <2>3, GoFacts DEF Typed, Idle, ActivationSteps
  <2>5. CASE setting' = setting
    BY <2>1, <2>3, <2>4, <2>5, AsideInForce DEF Typed, StateOK
  <2>6. CASE setting' = Append(setting, e)
    <3>1. (e.active => early') /\ (early => early') /\ early' \in BOOLEAN
      BY <2>1, <2>2, <2>3
    <3> QED
      BY <2>1, <2>2, <2>3, <2>4, <2>6, <3>1, AddedInForce
  <2> QED
    BY <1>2, <2>5, <2>6 DEF CommitCopy
<1> QED
  BY <1>1, <1>2

\* The activation of run r takes a step, and there is no other.
LEMMA TurnInForce ==
    ASSUME Typed, InForce, NEW r \in Runs, NEW x, Go(r, x),
           run[r].step \in ActivationSteps, UNCHANGED <<overlap, early>>,
           ("activation" \notin overlap /\ OneActive /\ Knows(run[r])) => OneActive' /\ Knows(x)',
           ("activation" \notin overlap /\ ~disturbed' /\ Covers(run[r])) => Covers(x)',
           disturbed => disturbed', disturbed \in BOOLEAN
    PROVE  InForce'
<1> SUFFICES ASSUME "activation" \notin overlap
             PROVE  (/\ OneActivation
                     /\ ~early => OneActive /\ \A s \in Runs : Knows(run[s])
                     /\ ~disturbed => \A s \in Runs : Covers(run[s]))'
  BY DEF InForce
<1>1. run'[r] = x /\ \A s \in Runs : s # r => run'[s] = run[s]
  BY GoFacts DEF Typed
<1>2. \A s \in Runs : s # r => run[s].step \notin ActivationSteps
  BY DEF InForce, OneActivation
<1>3. OneActivation'
  BY <1>1, <1>2 DEF OneActivation
<1>4. \A s \in Runs : s # r => Knows(run[s])' /\ Covers(run[s])'
  BY <1>1, <1>2 DEF Knows, Covers, ActivationSteps
<1>5. ASSUME ~early' PROVE (OneActive /\ \A s \in Runs : Knows(run[s]))'
  <2>1. OneActive' /\ Knows(x)'
    BY <1>5 DEF InForce
  <2>2. Knows(run[r])'
    BY <1>1, <2>1 DEF Knows
  <2> QED
    BY <1>4, <2>1, <2>2
<1>6. ASSUME ~disturbed' PROVE \A s \in Runs : Covers(run[s])'
  <2>1. Covers(x)'
    BY <1>6 DEF InForce
  <2>2. Covers(run[r])'
    BY <1>1, <2>1 DEF Covers
  <2> QED
    BY <1>4, <2>2
<1> QED
  BY <1>3, <1>5, <1>6

LEMMA Counting ==
    ASSUME Typed, Went \/ Failed
    PROVE  (disturbed => disturbed') /\ disturbed \in BOOLEAN /\ (~disturbed' => Went)
<1>1. disturbed \in BOOLEAN
  BY DEF Typed, StateOK
<1>2. CASE Went
  BY <1>1, <1>2 DEF Went
<1>3. CASE Failed
  BY <1>1, <1>3 DEF Failed
<1> QED
  BY <1>2, <1>3

\* What a row that becomes inactive or active changes.
LEMMA ActiveAfter ==
    ASSUME StateOK, NEW i \in Rows, NEW e \in Setting, e.year = setting[i].year,
           e.from = setting[i].from, setting' = [setting EXCEPT ![i] = e]
    PROVE  /\ \A d : Begun(d)' = Begun(d)
           /\ \A j \in Rows : setting'[j].year = setting[j].year
           /\ Rows' = Rows
           /\ \A y : Active(y)' = IF e.active /\ y = e.year
                                    THEN Active(y) \cup {i} ELSE Active(y) \ {i}
<1>1. Rows' = Rows
  BY DEF Rows
<1>2. \A j \in Rows : setting'[j] = IF j = i THEN e ELSE setting[j]
  BY DEF Rows
<1>3. \A j \in Rows : setting'[j].year = setting[j].year /\ setting'[j].from = setting[j].from
  BY <1>2
<1>4. \A d : Begun(d)' = Begun(d)
  BY <1>1, <1>3 DEF Begun
<1>5. \A y : Active(y)' = IF e.active /\ y = e.year
                             THEN Active(y) \cup {i} ELSE Active(y) \ {i}
  BY <1>1, <1>2 DEF Active
<1> QED
  BY <1>1, <1>3, <1>4, <1>5

LEMMA StartInForce ==
    ASSUME Typed, InForce, NEW r \in Runs,
           \E date \in {today - 1, today} : StartActivation(r, date)
    PROVE  InForce'
<1>1. PICK date : /\ Begin(r, "activation", ActivationSteps,
                          [step |-> "expiring", date |-> date, todo |-> {}])
                  /\ UNCHANGED <<setting, early>>
  BY DEF StartActivation
<1> PICK x : x = [step |-> "expiring", date |-> date, todo |-> {}]
  OBVIOUS
<1>2. run'[r] = x /\ \A s \in Runs : s # r => run'[s] = run[s]
  BY <1>1, GoFacts DEF Begin, Typed
<1> SUFFICES ASSUME "activation" \notin overlap'
             PROVE  (/\ OneActivation
                     /\ ~early => OneActive /\ \A s \in Runs : Knows(run[s])
                     /\ ~disturbed => \A s \in Runs : Covers(run[s]))'
  BY DEF InForce
<1>3. "activation" \notin overlap /\ \A s \in Runs : run[s].step \notin ActivationSteps
  BY <1>1 DEF Begin
<1>4. OneActivation'
  BY <1>2, <1>3 DEF OneActivation
<1>5. \A s \in Runs : run'[s].step \notin {"activating", "superseding", "switching"}
  BY <1>2, <1>3 DEF ActivationSteps
<1>6. OneActive \/ early
  BY <1>3 DEF InForce
<1> QED
  BY <1>1, <1>4, <1>5, <1>6 DEF Knows, Covers, OneActive, Active, Rows

\* The reads before the turns begin, and the deactivations.
LEMMA ExpiringInForce ==
    ASSUME Typed, InForce, NEW r \in Runs, ReadExpired(r) \/ Deactivate(r)
    PROVE  InForce'
<1>1. /\ run[r].step \in ActivationSteps /\ UNCHANGED <<overlap, early>>
      /\ (Went \/ Failed)
  BY DEF ReadExpired, Deactivate, ActivationSteps
<1>2. \E step \in {"deactivating", "reading"} : \E todo : StepOn(r, step, todo)
  BY DEF ReadExpired, Deactivate
<1> PICK step \in {"deactivating", "reading"} : \E todo : StepOn(r, step, todo)
  BY <1>2
<1> PICK todo : StepOn(r, step, todo)
  OBVIOUS
<1> PICK x : x = [step |-> step, date |-> run[r].date, todo |-> todo]
  OBVIOUS
<1>3. Go(r, x) /\ Knows(x)' /\ Covers(x)'
  BY DEF StepOn, Knows, Covers
<1>4. OneActive => OneActive'
  <2>1. CASE UNCHANGED setting
    BY <2>1 DEF OneActive, Active, Rows
  <2>2. CASE Deactivate(r) /\ ~UNCHANGED setting
    <3>1. PICK i \in run[r].todo : setting' = [setting EXCEPT ![i].active = FALSE]
      BY <2>2 DEF Deactivate
    <3>2. i \in Rows /\ setting[i] \in Setting
      BY <1>1, DateOfStep, RowsFacts DEF Typed
    <3> PICK e : e = [setting[i] EXCEPT !.active = FALSE]
      OBVIOUS
    <3>3. /\ e \in Setting /\ ~e.active /\ e.year = setting[i].year
          /\ e.from = setting[i].from
      BY <3>2 DEF Setting
    <3>4. setting' = [setting EXCEPT ![i] = e]
      BY <3>1
    <3>5. \A y : Active(y)' = Active(y) \ {i}
      BY <3>2, <3>3, <3>4, ActiveAfter DEF Typed
    <3> QED
      BY <3>5 DEF OneActive
  <2> QED
    BY <2>1, <2>2 DEF ReadExpired
<1> QED
  BY <1>1, <1>3, <1>4, Counting, TurnInForce

LEMMA ReadPendingInForce ==
    ASSUME Typed, InForce, NEW r \in Runs, ReadPending(r)
    PROVE  InForce'
<1>1. /\ run[r].step \in ActivationSteps /\ UNCHANGED <<setting, overlap, early>>
      /\ (Went \/ Failed)
  BY DEF ReadPending, ActivationSteps
<1>2. PICK todo : /\ StepOn(r, "activating", todo)
                  /\ todo = Pending(run[r].date) \/ disturbed'
  BY DEF ReadPending, Failed
<1> PICK x : x = [step |-> "activating", date |-> run[r].date, todo |-> todo]
  OBVIOUS
<1>3. Go(r, x) /\ Knows(x)'
  BY <1>2 DEF StepOn, Knows
<1>4. OneActive => OneActive'
  BY <1>1 DEF OneActive, Active, Rows
<1>5. ~disturbed' => Covers(x)
  <2> SUFFICES ASSUME ~disturbed', NEW i \in Begun(x.date)
               PROVE  i \in x.todo \/ Active(setting[i].year) # {}
    BY DEF Covers
  <2>1. CASE setting[i].active
    BY <2>1 DEF Begun, Active
  <2>2. CASE ~setting[i].active
    BY <1>2, <2>2 DEF Pending
  <2> QED
    BY <2>1, <2>2
<1>6. Covers(x) => Covers(x)'
  BY <1>1 DEF Covers, Begun, Active, Rows
<1> QED
  BY <1>1, <1>3, <1>4, <1>5, <1>6, Counting, TurnInForce

LEMMA ReadCurrentInForce ==
    ASSUME Typed, InForce, NEW r \in Runs, ReadCurrent(r)
    PROVE  InForce'
<1>1. /\ run[r].step = "activating" /\ run[r].step \in ActivationSteps
      /\ UNCHANGED <<setting, overlap, early>> /\ (Went \/ Failed)
  BY DEF ReadCurrent, ActivationSteps
<1>2. OneActive => OneActive'
  BY <1>1 DEF OneActive, Active, Rows
<1> PICK i \in First(run[r].todo) :
      LET active == Active(setting[i].year) IN
      \/ /\ \E c \in IF active = {} THEN {0} ELSE active :
              Go(r, [step |-> IF c \in {0, i} THEN "switching" ELSE "superseding",
                     date |-> run[r].date, todo |-> run[r].todo, id |-> i, current |-> c])
         /\ Went
      \/ StepOn(r, "activating", run[r].todo \ {i}) /\ Failed
  BY DEF ReadCurrent
<1>3. CASE StepOn(r, "activating", run[r].todo \ {i}) /\ Failed
  <2> PICK x : x = [step |-> "activating", date |-> run[r].date, todo |-> run[r].todo \ {i}]
    OBVIOUS
  <2>1. Go(r, x) /\ Knows(x)' /\ disturbed'
    BY <1>3 DEF StepOn, Knows, Failed
  <2> QED
    BY <1>1, <1>2, <2>1, Counting, TurnInForce
<1>4. ASSUME NEW c \in IF Active(setting[i].year) = {} THEN {0} ELSE Active(setting[i].year),
             Go(r, [step |-> IF c \in {0, i} THEN "switching" ELSE "superseding",
                    date |-> run[r].date, todo |-> run[r].todo, id |-> i, current |-> c])
      PROVE  InForce'
  <2> PICK x : x = [step |-> IF c \in {0, i} THEN "switching" ELSE "superseding",
                    date |-> run[r].date, todo |-> run[r].todo, id |-> i, current |-> c]
    OBVIOUS
  <2>1. Go(r, x)
    BY <1>4
  <2>2. i \in Rows /\ setting[i].year \in Years
    BY <1>1, DateOfStep, RowsFacts DEF First, Typed, Setting
  <2>3. 0 \notin Rows
    BY RowsFacts DEF Typed
  <2>4. OneActive => Knows(x)
    <3> SUFFICES ASSUME OneActive PROVE Knows(x)
      OBVIOUS
    <3>1. CASE c \in {0, i}
      <4>1. Active(setting[i].year) \subseteq {i}
        BY <2>2, <2>3, <3>1 DEF OneActive, Active
      <4> QED
        BY <3>1, <4>1 DEF Knows
    <3>2. CASE c \notin {0, i}
      BY <3>2 DEF Knows
    <3> QED
      BY <3>1, <3>2
  <2>5. Covers(run[r]) => Covers(x)
    BY <1>1 DEF Covers
  <2>6. (Knows(x) => Knows(x)') /\ (Covers(x) => Covers(x)')
    BY <1>1 DEF Knows, Covers, Begun, Active, Rows
  <2> QED
    BY <1>1, <1>2, <2>1, <2>4, <2>5, <2>6, Counting, TurnInForce
<1> QED
  BY <1>3, <1>4

\* A turn that fails says so.
LEMMA FailedInForce ==
    ASSUME Typed, InForce, NEW r \in Runs, run[r].step \in ActivationSteps,
           NextTurn(r), UNCHANGED <<setting, overlap, early>>, Failed
    PROVE  InForce'
<1> PICK x : x = [step |-> "activating", date |-> run[r].date, todo |-> run[r].todo \ {run[r].id}]
  OBVIOUS
<1>1. Go(r, x) /\ Knows(x)' /\ disturbed'
  BY DEF NextTurn, StepOn, Knows, Failed
<1>2. OneActive => OneActive'
  BY DEF OneActive, Active, Rows
<1> QED
  BY <1>1, <1>2, Counting, TurnInForce

LEMMA SupersedeInForce ==
    ASSUME Typed, InForce, NEW r \in Runs, Supersede(r)
    PROVE  InForce'
<1>1. /\ run[r].step = "superseding" /\ run[r].step \in ActivationSteps
      /\ run[r] \in Switching /\ UNCHANGED <<overlap, early>> /\ (Went \/ Failed)
  BY RunOfStep DEF Supersede, ActivationSteps, Typed
<1>2. CASE UNCHANGED setting /\ NextTurn(r) /\ Failed
  BY <1>1, <1>2, FailedInForce
<1>3. CASE /\ setting' = [setting EXCEPT ![run[r].current] =
                            [@ EXCEPT !.active = FALSE, !.to = setting[run[r].id].from - 1]]
           /\ run' = [run EXCEPT ![r].step = "switching"]
           /\ Went
  <2> PICK c, d : c = run[r].current /\ d = run[r].id
    OBVIOUS
  <2>1. c \in Rows /\ d \in Rows /\ setting[c].year = setting[d].year
    BY <1>1 DEF Typed, Names, Named
  <2>2. setting[c] \in Setting /\ setting[d] \in Setting
    BY <2>1, RowsFacts DEF Typed
  <2> PICK e : e = [setting[c] EXCEPT !.active = FALSE, !.to = setting[d].from - 1]
    OBVIOUS
  <2>3. e \in Setting /\ ~e.active /\ e.year = setting[c].year /\ e.from = setting[c].from
    <3>1. setting[d].from - 1 \in Ends
      BY <2>2, Calendar, LeaveYearAssumption DEF Setting, Starts, Ends
    <3> QED
      BY <2>2, <3>1 DEF Setting
  <2>4. setting' = [setting EXCEPT ![c] = e]
    BY <1>3
  <2>5. /\ \A date : Begun(date)' = Begun(date)
        /\ \A j \in Rows : setting'[j].year = setting[j].year
        /\ \A y : Active(y)' = Active(y) \ {c}
    BY <2>1, <2>3, <2>4, ActiveAfter DEF Typed
  <2> PICK x : x = [run[r] EXCEPT !.step = "switching"]
    OBVIOUS
  <2>6. /\ x.step = "switching" /\ x.id = d /\ x.todo = run[r].todo
        /\ x.date = run[r].date
    BY <1>1 DEF Switching
  <2>7. Go(r, x)
    BY <1>3 DEF Go
  <2>8. OneActive => OneActive'
    BY <2>5 DEF OneActive
  <2>9. (OneActive /\ Knows(run[r])) => Knows(x)'
    <3> SUFFICES ASSUME OneActive, Knows(run[r])
                 PROVE  (Active(setting[x.id].year) \subseteq {x.id})'
      BY <2>6 DEF Knows
    <3>1. setting'[x.id].year = setting[d].year /\ setting[d].year \in Years
      BY <2>1, <2>2, <2>5, <2>6 DEF Setting
    <3>2. Active(setting[d].year) \subseteq {c}
      BY <1>1, <3>1 DEF Knows, OneActive
    <3>3. \A y : y = setting[d].year => Active(y)' = {}
      BY <2>5, <3>2
    <3> QED
      BY <3>1, <3>3
  <2>10. Covers(run[r]) => Covers(x)'
    <3> SUFFICES ASSUME Covers(run[r]), NEW i \in Begun(x.date)'
                 PROVE  \/ i \in x.todo
                        \/ Active(setting[i].year)' # {}
                        \/ setting'[i].year = setting'[x.id].year
      BY <2>6 DEF Covers
    <3>1. i \in Begun(run[r].date) /\ i \in Rows
      BY <2>5, <2>6, RowsFacts DEF Typed
    <3>2. setting'[i].year = setting[i].year /\ setting'[x.id].year = setting[d].year
      BY <2>1, <2>5, <2>6, <3>1
    <3>3. i \in x.todo \/ Active(setting[i].year) # {}
      BY <1>1, <2>6, <3>1 DEF Covers
    <3>4. CASE setting[i].year # setting[d].year /\ Active(setting[i].year) # {}
      <4>1. c \notin Active(setting[i].year)
        BY <2>1, <3>4 DEF Active
      <4>2. \A y : y = setting[i].year => Active(y)' # {}
        BY <2>5, <3>4, <4>1
      <4> QED
        BY <3>2, <4>2
    <3> QED
      BY <3>2, <3>3, <3>4
  <2> QED
    BY <1>1, <2>7, <2>8, <2>9, <2>10, Counting, TurnInForce
<1> QED
  BY <1>2, <1>3 DEF Supersede

LEMMA ActivateInForce ==
    ASSUME Typed, InForce, NEW r \in Runs, Activate(r)
    PROVE  InForce'
<1>1. /\ run[r].step = "switching" /\ run[r].step \in ActivationSteps
      /\ UNCHANGED <<overlap, early>> /\ (Went \/ Failed) /\ NextTurn(r)
  BY DEF Activate, ActivationSteps
<1>2. CASE UNCHANGED setting /\ Failed
  BY <1>1, <1>2, FailedInForce
<1>3. CASE setting' = [setting EXCEPT ![run[r].id].active = TRUE]
  <2> PICK d : d = run[r].id
    OBVIOUS
  <2>1. d \in Rows /\ setting[d] \in Setting
    BY <1>1, RowsFacts DEF Typed, Names, Named
  <2> PICK e : e = [setting[d] EXCEPT !.active = TRUE]
    OBVIOUS
  <2>2. e \in Setting /\ e.active /\ e.year = setting[d].year /\ e.from = setting[d].from
    BY <2>1 DEF Setting
  <2>3. setting' = [setting EXCEPT ![d] = e]
    BY <1>3
  <2>4. /\ \A date : Begun(date)' = Begun(date)
        /\ \A j \in Rows : setting'[j].year = setting[j].year
        /\ \A y : Active(y)' = IF y = setting[d].year THEN Active(y) \cup {d}
                                                        ELSE Active(y) \ {d}
    <3>1. /\ \A date : Begun(date)' = Begun(date)
          /\ \A j \in Rows : setting'[j].year = setting[j].year
          /\ \A y : Active(y)' = IF e.active /\ y = e.year
                                   THEN Active(y) \cup {d} ELSE Active(y) \ {d}
      BY <2>1, <2>2, <2>3, ActiveAfter DEF Typed
    <3> QED
      BY <2>2, <3>1
  <2>5. \A y : y # setting[d].year => Active(y)' = Active(y)
    BY <2>4 DEF Active
  <2> PICK x : x = [step |-> "activating", date |-> run[r].date, todo |-> run[r].todo \ {d}]
    OBVIOUS
  <2>6. Go(r, x) /\ Knows(x)'
    BY <1>1 DEF NextTurn, StepOn, Knows
  <2>7. (OneActive /\ Knows(run[r])) => OneActive'
    <3> SUFFICES ASSUME OneActive, Knows(run[r]), NEW y \in Years
                 PROVE  \A i, j \in Active(y)' : i = j
      BY DEF OneActive
    <3>1. CASE y = setting[d].year
      <4>1. Active(y) \subseteq {d}
        BY <1>1, <3>1 DEF Knows
      <4>2. Active(y)' \subseteq {d}
        BY <2>4, <3>1, <4>1
      <4> QED
        BY <4>2
    <3>2. CASE y # setting[d].year
      BY <2>5, <3>2 DEF OneActive
    <3> QED
      BY <3>1, <3>2
  <2>8. Covers(run[r]) => Covers(x)'
    <3> SUFFICES ASSUME Covers(run[r]), NEW i \in Begun(x.date)'
                 PROVE  i \in x.todo \/ Active(setting[i].year)' # {}
      BY DEF Covers
    <3>1. i \in Begun(run[r].date) /\ i \in Rows
      BY <2>4, RowsFacts DEF Typed
    <3>2. setting'[i].year = setting[i].year
      BY <2>4, <3>1
    <3>3. CASE setting[i].year = setting[d].year
      <4>1. \A y : y = setting[i].year => Active(y)' # {}
        BY <2>4, <3>3
      <4> QED
        BY <3>2, <4>1
    <3>4. CASE setting[i].year # setting[d].year
      <4>1. i \in run[r].todo \/ Active(setting[i].year) # {}
        BY <1>1, <3>1, <3>4 DEF Covers
      <4>2. CASE i \in run[r].todo
        BY <3>4, <4>2
      <4>3. CASE Active(setting[i].year) # {}
        <5>1. \A y : y = setting[i].year => Active(y)' # {}
          BY <2>5, <3>4, <4>3
        <5> QED
          BY <3>2, <5>1
      <4> QED
        BY <4>1, <4>2, <4>3
    <3> QED
      BY <3>3, <3>4
  <2> QED
    BY <1>1, <2>6, <2>7, <2>8, Counting, TurnInForce
<1> QED
  BY <1>2, <1>3 DEF Activate

LEMMA InForceStep == Typed /\ InForce /\ [Next]_vars => InForce'
<1> SUFFICES ASSUME Typed, InForce, [Next]_vars PROVE InForce'
  OBVIOUS
<1>1. disturbed \in BOOLEAN
  BY DEF Typed, StateOK
<1>2. CASE UNCHANGED vars
  BY <1>1, <1>2, AsideInForce DEF vars
<1>3. CASE NextDay
  BY <1>1, <1>3, AsideInForce DEF NextDay
<1>4. ASSUME NEW r \in Runs, Activation(r) \/ Stop(r) PROVE InForce'
  BY <1>4, StartInForce, ExpiringInForce, ReadPendingInForce, ReadCurrentInForce,
     SupersedeInForce, ActivateInForce, IdleInForce DEF Activation
<1>5. ASSUME NEW r \in Runs, Request(r) PROVE InForce'
  BY <1>5, IdleInForce, SettingsInForce DEF Request
<1> QED
  BY <1>2, <1>3, <1>4, <1>5, AccrualInForce, SettingsInForce DEF Next, Step

\* Whatever copies, forms and failures leave behind, a year has one setting in
\* force, and one if one has begun, as long as activations do not overlap.
THEOREM OneSettingInForce == Spec => []YearsInForce
<1>1. Typed /\ InForce => YearsInForce
  BY DEF Typed, StateOK, InForce, OneActive, Covers, YearsInForce, Over
<1>2. Spec => []InForce
  BY InitInForce, InForceStep, AlwaysTyped, PTL DEF Spec
<1> QED
  BY <1>1, <1>2, AlwaysTyped, PTL
=============================================================================
