--------------------------- MODULE SalaryStructures ---------------------------
(***************************************************************************)
(* The salary structures of one employee: the requests that create a       *)
(* structure or apply an increment, and the nightly job that deactivates   *)
(* expired structures and activates those whose date has come.             *)
(*                                                                         *)
(* A request reads the current structure before its transaction.  The job  *)
(* has no transaction at all: every statement commits on its own, one that *)
(* fails is recorded and the job goes on with the next structure.          *)
(*                                                                         *)
(* The job takes the date from the database.  At midnight in India that is *)
(* still the day before; started by hand later, it is the same day.        *)
(*                                                                         *)
(* The job for config settings (config-setting.cron.service.ts) is this    *)
(* job over the rows of one configuration and context.                     *)
(***************************************************************************)
EXTENDS Integers, Sequences, FiniteSets

CONSTANTS
    LastDay,       \* bound: the last day; nights go on, the date does not
    Requests,      \* requests that can be in flight together
    OverlapNights, \* whether requests and the job can be in flight together
    MaxRows,       \* bound: rows of salary_structures
    MaxFailures    \* bound: statements of the job that fail

ASSUME SalaryAssumption ==
    /\ LastDay \in Nat /\ LastDay >= 2
    /\ OverlapNights \in BOOLEAN
    /\ MaxRows \in Nat
    /\ MaxFailures \in Nat

VARIABLES
    today,      \* the date in India
    row,        \* salary_structures of the employee
    req,        \* what each request in flight has read
    night,      \* the job: its date, the rows it has still to treat
    clean,      \* no statement failed and no request committed in this night
    failures

vars == <<today, row, req, night, clean, failures>>

Days   == 1..LastDay
\* The dates a structure can begin.  It stops short of the last day so that in
\* the end every structure has begun for the database, too.
Starts == 1..(LastDay - 1)
NoEnd  == LastDay + 1            \* effectiveTo IS NULL
Row    == [from : Starts, to : 0..NoEnd, active : BOOLEAN]
Ids    == 1..MaxRows
Idle   == [step |-> "idle"]

CreateCall == [step : {"creating"}, from : Starts]
RaiseCall  == [step : {"raising"}, from : Starts, id : Ids]
NightList == [step : {"started", "deactivating", "reading", "activating"},
              date : 0..LastDay, todo : SUBSET Ids]
NightTurn == [step : {"superseding", "switching"}, date : 0..LastDay,
              todo : SUBSET Ids, id : Ids, current : 0..MaxRows]

-----------------------------------------------------------------------------
Rows == DOMAIN row
Active == {i \in Rows : row[i].active}
Begun(date) == {i \in Rows : row[i].from <= date}
Latest(S) == {i \in S : \A j \in S : row[j].from <= row[i].from}

\* findEffectiveOnDate: the structure payroll pays by, if any is in force.
InForce(date) == Active \cap Begun(date)
Effective(date) == Latest(InForce(date))

\* getActiveByUserId
Current == Latest({i \in Active : row[i].to = NoEnd})

DayBefore(from) == from - 1

\* A structure that another one, which begins at from, takes out of force.
Ended(s, from) == [from |-> s.from, to |-> DayBefore(from), active |-> FALSE]

Quiet == night = Idle \/ OverlapNights

Init ==
    /\ today = 1
    /\ row = <<>>
    /\ req = [r \in Requests |-> Idle]
    /\ night = Idle
    /\ clean = TRUE
    /\ failures = 0

-----------------------------------------------------------------------------
(* Requests.                                                               *)

\* create: refused with ALREADY_EXISTS if there is a current structure.
ReadForCreate(r, from) ==
    /\ Quiet
    /\ req[r] = Idle
    /\ Current = {}
    /\ req' = [req EXCEPT ![r] = [step |-> "creating", from |-> from]]
    /\ UNCHANGED <<today, row, night, clean, failures>>

CommitCreate(r) ==
    /\ req[r].step = "creating"
    /\ Len(row) < MaxRows
    /\ row' = Append(row, [from |-> req[r].from, to |-> NoEnd, active |-> TRUE])
    /\ req' = [req EXCEPT ![r] = Idle]
    /\ clean' = FALSE
    /\ UNCHANGED <<today, night, failures>>

\* applyIncrement: refused for a date in the past (EFFECTIVE_FROM_PAST) and
\* without a current structure (NO_ACTIVE_STRUCTURE).
ReadForIncrement(r, from) ==
    /\ Quiet
    /\ req[r] = Idle
    /\ from >= today
    /\ \E i \in Current :
         req' = [req EXCEPT ![r] = [step |-> "raising", from |-> from, id |-> i]]
    /\ UNCHANGED <<today, row, night, clean, failures>>

\* The structure that was read ends the day before; the new one is active at
\* once, even if its date is still to come.
CommitIncrement(r) ==
    /\ req[r].step = "raising"
    /\ Len(row) < MaxRows
    /\ row' = Append([row EXCEPT ![req[r].id] = Ended(@, req[r].from)],
                     [from |-> req[r].from, to |-> NoEnd, active |-> TRUE])
    /\ req' = [req EXCEPT ![r] = Idle]
    /\ clean' = FALSE
    /\ UNCHANGED <<today, night, failures>>

-----------------------------------------------------------------------------
(* The nightly job.                                                        *)

Start(date) ==
    /\ night = Idle
    /\ OverlapNights \/ \A r \in Requests : req[r] = Idle
    /\ night' = [step |-> "started", date |-> date, todo |-> {}]
    /\ clean' = TRUE
    /\ UNCHANGED <<today, row, req, failures>>

\* At midnight, by the orchestrator, or by hand.
StartNight == Start(today - 1)
StartByHand == Start(today)

\* A statement fails, the error is recorded.
Fail ==
    /\ failures < MaxFailures
    /\ failures' = failures + 1
    /\ clean' = FALSE

\* getExpiredActiveStructuresQuery
ReadExpired ==
    /\ night.step = "started"
    /\ \/ /\ night' = [night EXCEPT !.step = "deactivating",
                                    !.todo = {i \in Active : row[i].to < night.date}]
          /\ UNCHANGED <<clean, failures>>
       \/ Fail /\ night' = [night EXCEPT !.step = "reading"]
    /\ UNCHANGED <<today, row, req>>

\* One turn of deactivateExpiredStructures.
Deactivate ==
    /\ night.step = "deactivating"
    /\ \E i \in night.todo :
         /\ night' = [night EXCEPT !.todo = @ \ {i}]
         /\ \/ row' = [row EXCEPT ![i].active = FALSE] /\ UNCHANGED <<clean, failures>>
            \/ Fail /\ UNCHANGED row
    /\ UNCHANGED <<today, req>>

\* Mutant: a structure whose end has passed is left alone.
PendingNotExpired(date) ==
    {i \in Begun(date) : ~row[i].active /\ row[i].to >= date}

\* getPendingActivationStructuresQuery: effectiveTo is not looked at.
Pending(date) == {i \in Begun(date) : ~row[i].active}

\* A failing query ends this half, and with it the job.
ReadPending ==
    /\ \/ night.step = "reading"
       \/ night.step = "deactivating" /\ night.todo = {}
    /\ \/ /\ night' = [night EXCEPT !.step = "activating", !.todo = Pending(night.date)]
          /\ UNCHANGED <<clean, failures>>
       \/ Fail /\ night' = [night EXCEPT !.step = "activating", !.todo = {}]
    /\ UNCHANGED <<today, row, req>>

\* Mutant: ORDER BY "effectiveFrom" DESC.
LatestFirst(S) == Latest(S)

\* ORDER BY "effectiveFrom" ASC
First(S) == {i \in S : \A j \in S : row[i].from <= row[j].from}

\* getCurrentActiveStructureQuery: any active structure of the user, LIMIT 1.
\* It supersedes whichever it is.
ReadCurrent ==
    /\ night.step = "activating"
    /\ \E i \in First(night.todo) :
         \/ \E c \in IF Active = {} THEN {0} ELSE Active :
              /\ night' = [step |-> IF c \in {0, i} THEN "switching" ELSE "superseding",
                           date |-> night.date, todo |-> night.todo, id |-> i, current |-> c]
              /\ UNCHANGED <<clean, failures>>
         \/ Fail /\ night' = [night EXCEPT !.todo = @ \ {i}]
    /\ UNCHANGED <<today, row, req>>

NextTurn == night' = [step |-> "activating", date |-> night.date,
                      todo |-> night.todo \ {night.id}]

\* The active structure ends the day before the pending one begins.  If this
\* fails, the pending one is not activated.
Supersede ==
    /\ night.step = "superseding"
    /\ \/ /\ row' = [row EXCEPT ![night.current] = Ended(@, row[night.id].from)]
          /\ night' = [night EXCEPT !.step = "switching"]
          /\ UNCHANGED <<clean, failures>>
       \/ Fail /\ NextTurn /\ UNCHANGED row
    /\ UNCHANGED <<today, req>>

\* activateSalaryStructureQuery
Activate ==
    /\ night.step = "switching"
    /\ \/ row' = [row EXCEPT ![night.id].active = TRUE] /\ UNCHANGED <<clean, failures>>
       \/ Fail /\ UNCHANGED row
    /\ NextTurn
    /\ UNCHANGED <<today, req>>

Over == night.step = "activating" /\ night.todo = {}

EndNight ==
    /\ Over
    /\ night' = Idle
    /\ UNCHANGED <<today, row, req, clean, failures>>

\* The server dies in the middle; the next night starts from the beginning.
Crash ==
    /\ night # Idle
    /\ Fail
    /\ night' = Idle
    /\ UNCHANGED <<today, row, req>>

\* The job takes minutes, the date changes while it does not run.
NextDay ==
    /\ night = Idle
    /\ today < LastDay
    /\ today' = today + 1
    /\ UNCHANGED <<row, req, night, clean, failures>>

-----------------------------------------------------------------------------
Call(r) ==
    \/ \E from \in Starts : ReadForCreate(r, from) \/ ReadForIncrement(r, from)
    \/ CommitCreate(r) \/ CommitIncrement(r)

Work ==
    \/ ReadExpired \/ Deactivate \/ ReadPending
    \/ ReadCurrent \/ Supersede \/ Activate \/ EndNight

Next ==
    \/ \E r \in Requests : Call(r)
    \/ StartNight \/ StartByHand \/ Work \/ Crash
    \/ NextDay

Spec == Init /\ [][Next]_vars

\* Days pass, the job is started every night and goes on.  Requests are
\* assumed nothing of.
FairSpec == Spec /\ SF_vars(NextDay) /\ SF_vars(StartNight) /\ WF_vars(Work)

-----------------------------------------------------------------------------
TypeOK ==
    /\ today \in Days
    /\ row \in Seq(Row) /\ Len(row) <= MaxRows
    /\ req \in [Requests -> CreateCall \cup RaiseCall \cup {Idle}]
    /\ night \in NightList \cup NightTurn \cup {Idle}
    /\ clean \in BOOLEAN
    /\ failures \in 0..MaxFailures

\* After a night in which no statement failed and no request came between, an
\* employee who has a structure that has begun has one in force, although the
\* job takes structures out of force one statement at a time and the nights
\* before it may have stopped anywhere.
NightEndsCovered ==
    Over /\ clean /\ Begun(night.date) # {} => InForce(night.date) # {}

\* In the end, between the nights, the structure in force is the latest one:
\* however increments, failures and crashes came together, the flips of the
\* job from one structure to the other stop.
EventuallyLatest ==
    <>[](night = Idle /\ row # <<>>
           => Effective(LastDay) # {} /\ Effective(LastDay) \subseteq Latest(Rows))
=============================================================================
