--------------------------- MODULE ConnectionPool ---------------------------
(* The pool of database connections under the handlers that hold one       *)
(* connection, for an open transaction, while they ask for another: the    *)
(* inner call was not given the transaction's entity manager.  The pool    *)
(* has a fixed number of connections and no time limit (getOrmConfig sets  *)
(* neither), so a request waits for as long as nobody gives one back.      *)
EXTENDS Integers, Sequences, FiniteSets

CONSTANTS
    Requests,   \* bound: requests served at once
    Kind,       \* what each request asks for
    Size,       \* connections in the pool (10 unless configured)
    Nobody      \* holds no lock

VARIABLES
    free,    \* connections in the pool
    queue,   \* requests waiting for one, served in order
    step,    \* per request: what it is doing
    at,      \* per request: the connections it holds, innermost last
    owner,   \* whose open transaction has inserted the payroll of the month
    row      \* that payroll is committed

poolVars == <<free, queue, step, at, owner, row>>

-----------------------------------------------------------------------------
(* How many connections a handler holds at its deepest.                    *)

\* One statement at a time, each on a connection of its own.
Query == 1

\* The approval's transaction, the transaction of the decision inside it, and
\* in there findOneOrFail of the attendance, of the expense, of the refuelling.
ApproveLeave   == 3
ApproveExpense == 3
ApproveFuel    == 3

\* A transaction and a read or an insert beside it.
ApplyLeave     == 2
ApproveDay     == 2
RegularizeDay  == 2
InitiateExit   == 2
CreditedPayroll == 2   \* with leaves to credit for work on holidays

\* Without: one connection, but it waits on the unique index.
PlainPayroll   == 1

Depth == [query |-> Query, leave |-> ApproveLeave, expense |-> ApproveExpense,
          fuel |-> ApproveFuel, apply |-> ApplyLeave, day |-> ApproveDay,
          regularize |-> RegularizeDay, exit |-> InitiateExit,
          credited |-> CreditedPayroll, payroll |-> PlainPayroll]

Kinds == DOMAIN Depth

\* Requests for the payroll of one user and month.
Keyed(r) == Kind[r] \in {"credited", "payroll"}

\* The connections r may hold while it waits, and one name for each of them.
HeldWaiting(r) == IF Keyed(r) THEN 1 ELSE Depth[Kind[r]] - 1

WaitSlots == UNION {{r} \X (1..HeldWaiting(r)) : r \in Requests}

\* The load under which the pool cannot be exhausted.  Nothing in the code
\* keeps the load there.
ASSUME PoolAssumption ==
    /\ Kind \in [Requests -> Kinds] /\ Nobody \notin Requests
    /\ Size \in Nat
    /\ IsFiniteSet(WaitSlots) /\ Cardinality(WaitSlots) < Size

-----------------------------------------------------------------------------
PoolInit ==
    /\ free = Size
    /\ queue = <<>>
    /\ step = [r \in Requests |-> "idle"]
    /\ at = [r \in Requests |-> 0]
    /\ owner = Nobody
    /\ row = FALSE

\* The insert comes before the credit of the leaves.
MayGoOn(r) == Keyed(r) => owner = r

\* Mutant: an inner call of the innermost transaction asks for one more.
AskMore(r) ==
    /\ \/ step[r] = "idle" /\ (Keyed(r) => ~row)
       \/ step[r] = "working" /\ MayGoOn(r) /\ at[r] <= Depth[Kind[r]]
    /\ step' = [step EXCEPT ![r] = "asking"]
    /\ queue' = Append(queue, r)
    /\ UNCHANGED <<free, at, owner, row>>

\* A transaction or a statement begins.  A payroll that is there is seen
\* before the transaction, and the request answered.
Ask(r) ==
    /\ \/ step[r] = "idle" /\ (Keyed(r) => ~row)
       \/ step[r] = "working" /\ MayGoOn(r) /\ at[r] < Depth[Kind[r]]
    /\ step' = [step EXCEPT ![r] = "asking"]
    /\ queue' = Append(queue, r)
    /\ UNCHANGED <<free, at, owner, row>>

\* The pool serves the first in the queue.
Grant(r) ==
    /\ free > 0 /\ queue # <<>> /\ r = Head(queue)
    /\ step[r] = "asking"
    /\ free' = free - 1
    /\ queue' = Tail(queue)
    /\ step' = [step EXCEPT ![r] = "working"]
    /\ at' = [at EXCEPT ![r] = @ + 1]
    /\ UNCHANGED <<owner, row>>

\* payrollRepository.create: the unique index makes a second insert wait, with
\* its connection, for the transaction of the first, and then refuses it.
Insert(r) ==
    /\ Keyed(r) /\ step[r] = "working" /\ owner # r
    /\ IF row THEN step' = [step EXCEPT ![r] = "returning"] /\ UNCHANGED owner
              ELSE owner = Nobody /\ owner' = r /\ UNCHANGED step
    /\ UNCHANGED <<free, queue, at, row>>

\* Mutant: the transaction ends without its lock.
ReleaseConnection(r) ==
    /\ \/ step[r] = "working" /\ MayGoOn(r) /\ at[r] >= Depth[Kind[r]]
       \/ step[r] = "returning"
    /\ free' = free + 1
    /\ at' = [at EXCEPT ![r] = @ - 1]
    /\ step' = [step EXCEPT ![r] = IF at[r] = 1 THEN "idle" ELSE "returning"]
    /\ UNCHANGED <<queue, owner, row>>

\* The innermost transaction or statement ends; with the last one the answer.
Release(r) ==
    /\ \/ step[r] = "working" /\ MayGoOn(r) /\ at[r] >= Depth[Kind[r]]
       \/ step[r] = "returning"
    /\ free' = free + 1
    /\ at' = [at EXCEPT ![r] = @ - 1]
    /\ step' = [step EXCEPT ![r] = IF at[r] = 1 THEN "idle" ELSE "returning"]
    /\ IF owner = r /\ at[r] = 1
         THEN owner' = Nobody /\ row' = TRUE
         ELSE UNCHANGED <<owner, row>>
    /\ UNCHANGED queue

Progress(r) ==
    \/ step[r] = "working" /\ Ask(r)
    \/ Grant(r) \/ Insert(r) \/ Release(r)

PoolNext == \E r \in Requests : Ask(r) \/ Grant(r) \/ Insert(r) \/ Release(r)

PoolSpec == PoolInit /\ [][PoolNext]_poolVars

\* The database answers, and the pool serves its queue; nobody has to call.
FairPoolSpec == PoolSpec /\ \A r \in Requests : WF_poolVars(Progress(r))

-----------------------------------------------------------------------------
PoolTypeOK ==
    /\ free \in Nat
    /\ queue \in Seq(Requests)
    /\ step \in [Requests -> {"idle", "asking", "working", "returning"}]
    /\ at \in [Requests -> Nat]
    /\ owner \in Requests \cup {Nobody}
    /\ row \in BOOLEAN

Held == UNION {{r} \X (1..at[r]) : r \in Requests}

\* Whatever path a handler returns by, a connection is in the pool or with a
\* request in flight.
NoneLost == free + Cardinality(Held) = Size

Waiting(r) ==
    \/ step[r] = "asking"
    \/ step[r] = "working" /\ Keyed(r) /\ ~row /\ owner \notin {r, Nobody}

\* The pool is never empty with every holder of a connection waiting, for one
\* more or for a row another one has locked.
NeverExhausted == free = 0 => \E r \in Requests : at[r] > 0 /\ ~Waiting(r)

\* Every request is answered, those that never ask twice included.
CallsEnd == \A r \in Requests : step[r] # "idle" ~> step[r] = "idle"
=============================================================================
