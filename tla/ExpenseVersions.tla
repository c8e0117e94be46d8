---------------------------- MODULE ExpenseVersions ----------------------------
(***************************************************************************)
(* An expense or a fuel expense.  Neither is ever changed in place: an     *)
(* edit or a decision switches a row off and inserts the next version of   *)
(* it.  The balances, the reminders and the settlement read the active     *)
(* rows.                                                                   *)
(*                                                                         *)
(* Edit, approval and deletion read the row they are about to change       *)
(* before they change it, and name it by id alone.  expense-tracker and    *)
(* fuel-expense are two copies of the same code; they differ in whether    *)
(* approval and deletion ask for a row that is active.                     *)
(***************************************************************************)
EXTENDS Integers, Sequences, FiniteSets

CONSTANTS
    Kinds,        \* "tracker" and "fuel": the services the expense may be kept by
    Requests,     \* requests that can be in flight together
    MaxVersions   \* bound: versions of the expense

ASSUME ExpenseAssumption ==
    /\ Kinds \subseteq {"tracker", "fuel"}
    /\ MaxVersions \in Nat \ {0}

VARIABLES
    kind,      \* the service the expense is kept by
    version,   \* its rows, in the order they were inserted
    req,       \* what each request in flight has read
    raced      \* two requests worked on it at the same time

vars == <<kind, version, req, raced>>

Status   == {"pending", "approved", "rejected", "cancelled"}
Version  == [status : Status, active : BOOLEAN, deleted : BOOLEAN,
             parent : 0..MaxVersions]
Idle     == [step |-> "idle"]
\* The status of the next version, and the row it replaces.
Changing == [step : {"editing", "deciding"}, id : 1..MaxVersions, to : Status]
Deleting == [step : {"deleting"}, id : 1..MaxVersions]

-----------------------------------------------------------------------------
Rows == DOMAIN version
Active == {i \in Rows : version[i].active}
Deleted == {i \in Rows : version[i].deleted}

New(status, parent) ==
    [status |-> status, active |-> TRUE, deleted |-> FALSE, parent |-> parent]

Off(v) == [status |-> v.status, active |-> FALSE, deleted |-> v.deleted, parent |-> v.parent]
Gone(v) == [status |-> v.status, active |-> FALSE, deleted |-> TRUE, parent |-> v.parent]

Init ==
    /\ kind \in Kinds
    /\ version = <<>>
    /\ req = [r \in Requests |-> Idle]
    /\ raced = FALSE

\* A request has read a row and goes on with call.
Take(r, call) ==
    /\ req[r] = Idle
    /\ req' = [req EXCEPT ![r] = call]
    /\ raced' = (raced \/ \E s \in Requests : req[s] # Idle)
    /\ UNCHANGED <<kind, version>>

Answer(r) == req' = [req EXCEPT ![r] = Idle] /\ UNCHANGED <<kind, raced>>

-----------------------------------------------------------------------------
\* An expense is entered by the employee, or by force, as a credit or by the
\* system, and then it is approved from the start.
Create(status) ==
    /\ version = <<>>
    /\ status \in {"pending", "approved"}
    /\ version' = <<New(status, 0)>>
    /\ UNCHANGED <<kind, req, raced>>

\* The row is switched off by its id and its successor inserted, in one
\* transaction.
Replace(i, status) ==
    Append([version EXCEPT ![i] = Off(@)], New(status, i))

\* editExpense: an active row, pending, of the caller.
ReadForEdit(r, i) ==
    /\ version[i].active
    /\ version[i].status = "pending"
    /\ Take(r, [step |-> "editing", id |-> i, to |-> "pending"])

\* The copy is made of the row that was read: pending, and not deleted.
CommitEdit(r) ==
    /\ req[r].step = "editing"
    /\ Len(version) < MaxVersions
    /\ version' = Replace(req[r].id, req[r].to)
    /\ Answer(r)

-----------------------------------------------------------------------------
\* Mutant: a cancelled expense is taken up like a rejected one.
Reopening ==
    {<<"pending", "approved">>, <<"pending", "rejected">>, <<"pending", "cancelled">>,
     <<"approved", "rejected">>, <<"rejected", "approved">>, <<"cancelled", "approved">>}

\* The two levels of the switch.  A decision on a cancelled row falls through
\* it and succeeds without effect.
Transitions ==
    {<<"pending", "approved">>, <<"pending", "rejected">>, <<"pending", "cancelled">>,
     <<"approved", "rejected">>, <<"rejected", "approved">>}

\* Mutant: fuel-expense does not ask for an active row either.
AnyRow(i) == ~version[i].deleted

\* What a decision or a deletion may name: a row that is not deleted and, in
\* fuel-expense, active.
Nameable(i) ==
    /\ ~version[i].deleted
    /\ kind = "fuel" => version[i].active

ReadForDecision(r, i, to) ==
    /\ Nameable(i)
    /\ <<version[i].status, to>> \in Transitions
    /\ Take(r, [step |-> "deciding", id |-> i, to |-> to])

\* Mutant: the row is switched off outside of the transaction and stays off
\* when the decision is refused.
RefuseWithoutRollback(r) ==
    /\ req[r].step = "deciding"
    /\ req[r].to # "cancelled"
    /\ version' = [version EXCEPT ![req[r].id] = Off(@)]
    /\ Answer(r)

\* The decision is refused: the row is gone when the second transaction reads
\* it again, or the caller turns out to be the creator, who may only cancel.
\* The latter is found out after the row was switched off, and rolled back.
RefuseDecision(r) ==
    /\ req[r].step = "deciding"
    /\ version[req[r].id].deleted \/ req[r].to # "cancelled"
    /\ Answer(r)
    /\ UNCHANGED version

\* A row that is deleted after the second reading is replaced all the same.
CommitDecision(r) ==
    /\ req[r].step = "deciding"
    /\ Len(version) < MaxVersions
    /\ version' = Replace(req[r].id, req[r].to)
    /\ Answer(r)

-----------------------------------------------------------------------------
\* delete; the bulk deletion asks for an active row in both services, and for
\* a pending one of the caller's own unless HR or an admin calls.
ReadForDelete(r, i) ==
    /\ Nameable(i)
    /\ Take(r, [step |-> "deleting", id |-> i])

\* One row, by its id.
CommitDelete(r) ==
    /\ req[r].step = "deleting"
    /\ version' = [version EXCEPT ![req[r].id] = Gone(@)]
    /\ Answer(r)

-----------------------------------------------------------------------------
Read(r, i) ==
    \/ ReadForEdit(r, i)
    \/ \E to \in Status : ReadForDecision(r, i, to)
    \/ ReadForDelete(r, i)

Write(r) == CommitEdit(r) \/ RefuseDecision(r) \/ CommitDecision(r) \/ CommitDelete(r)

Next ==
    \/ \E status \in Status : Create(status)
    \/ \E r \in Requests : (\E i \in Rows : Read(r, i)) \/ Write(r)

Spec == Init /\ [][Next]_vars

-----------------------------------------------------------------------------
TypeOK ==
    /\ kind \in Kinds
    /\ version \in Seq(Version) /\ Len(version) <= MaxVersions
    /\ req \in [Requests -> Changing \cup Deleting \cup {Idle}]
    /\ raced \in BOOLEAN

\* An expense is not lost: unless a row of it was deleted, one version of it is
\* active, however edits, decisions and refused decisions came together.
NeverLost == version # <<>> /\ Deleted = {} => Active # {}

\* Only the last version is active.
LastOnly == Active \subseteq {Len(version)}

\* The services promise this much of a fuel expense: see Nameable.
Promised == kind = "fuel" /\ ~raced

\* The versions of a fuel expense are in line as long as no two requests work
\* on it at the same time, whatever old ids the requests name: each replaced
\* the one before it and only the last is active.
FuelInLine ==
    Promised => LastOnly /\ \A i \in Rows : version[i].parent = i - 1

Stage ==
    IF ~Promised THEN "open"
    ELSE IF version = <<>> THEN "new"
    ELSE IF Deleted # {} THEN "removed" ELSE "kept"

Seen == IF Promised THEN {version[i].status : i \in Active} ELSE {}

Record == INSTANCE ExpenseRecord WITH stage <- Stage, seen <- Seen

\* To the readers of its active rows a fuel expense is one record, as long as
\* requests do not overlap on it: it has one status, which moves as the switch
\* allows, and it neither comes back after a deletion nor changes after a
\* cancellation, whatever old ids the requests name.
FuelIsOneRecord == Record!Spec
=============================================================================
