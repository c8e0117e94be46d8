-------------------------------- MODULE Custody --------------------------------
(***************************************************************************)
(* One asset or vehicle: its active versions, its events and the requests  *)
(* that act on it, edit it or delete it.                                   *)
(*                                                                         *)
(* An action reads the active version and the last event before its        *)
(* transaction, and writes the event and the version in it.  Of the events *)
(* only the last is ever read, and of that only whether it is a handover   *)
(* that nobody answered: that is `offer'.  An edit copies the version it   *)
(* read, status and holder included, into a new active one.                *)
(*                                                                         *)
(* A transaction is open from its first UPDATE of the active versions to   *)
(* its commit.  One whose UPDATE waits for an edit finds the rows it       *)
(* waited for inactive, and does not see the row the edit has added: it is *)
(* `behind'.                                                               *)
(***************************************************************************)
EXTENDS Naturals, FiniteSets

CONSTANTS
    Users,
    None,
    Requests,   \* requests that can be in flight together
    MaxActive,  \* bound: versions active at once
    Kind        \* "asset" or "vehicle"

ASSUME CustodyAssumption ==
    /\ None \notin Users
    /\ Kind \in {"asset", "vehicle"}
    /\ MaxActive \in Nat

VARIABLES
    versions,   \* the active versions; two only after overlapping edits
    offer,      \* the last event, if it is HANDOVER_INITIATED, else None
    gone,       \* the master is deleted
    req,        \* what each request in flight has read
    offered,    \* users it was offered to or assigned to by form
    kept        \* no two requests overlapped, no form set status or holder

vars == <<versions, offer, gone, req, offered, kept>>

Status == {"AVAILABLE", "ASSIGNED", "UNDER_MAINTENANCE", "DAMAGED", "RETIRED"}
Version == [status : Status, holder : Users \cup {None}]
Offer == [by : Users, to : Users]

Responses == {"HANDOVER_ACCEPTED", "HANDOVER_REJECTED", "HANDOVER_CANCELLED"}

VehicleActions ==
    [AVAILABLE |-> {"HANDOVER_INITIATED", "UNDER_MAINTENANCE", "DAMAGED", "RETIRED"},
     ASSIGNED |-> {"HANDOVER_INITIATED", "DEALLOCATED", "UNDER_MAINTENANCE", "DAMAGED",
                   "RETIRED"},
     UNDER_MAINTENANCE |-> {"AVAILABLE", "DAMAGED", "RETIRED"},
     DAMAGED |-> {"AVAILABLE", "UNDER_MAINTENANCE", "RETIRED"},
     RETIRED |-> {}]

\* Those of a vehicle, and a calibration of what is not damaged or retired.
ValidActions ==
    [s \in Status |->
        VehicleActions[s] \cup
            (IF Kind = "asset" /\ s \notin {"DAMAGED", "RETIRED"} THEN {"CALIBRATED"} ELSE {})]

Actions == Responses \cup UNION {ValidActions[s] : s \in Status}

Idle == [step |-> "idle"]
Acting == [step : {"acting"}, action : Actions, user : Users \cup {None},
           to : Users \cup {None}, open : BOOLEAN, behind : BOOLEAN]
Editing == [step : {"editing"}, copy : Version, open : BOOLEAN, behind : BOOLEAN]
Deleting == [step : {"deleting"}]

-----------------------------------------------------------------------------
Init ==
    /\ versions = {[status |-> "AVAILABLE", holder |-> None]}
    /\ offer = None
    /\ gone = FALSE
    /\ req = [r \in Requests |-> Idle]
    /\ offered = {}
    /\ kept = TRUE

Take(r, call, formOnly) ==
    /\ req[r] = Idle
    /\ req' = [req EXCEPT ![r] = call]
    /\ kept' = (kept /\ formOnly /\ \A s \in Requests : req[s] = Idle)
    /\ UNCHANGED <<versions, offer, gone>>

-----------------------------------------------------------------------------
(* action                                                                  *)

\* Mutant: a handover can be accepted by whoever asks.
AnyoneResponds(action, user) == offer # None

MayRespond(action, user) ==
    /\ offer # None
    /\ user = IF action = "HANDOVER_CANCELLED" THEN offer.by ELSE offer.to

\* Mutant: a new handover replaces the one that is pending.
ValidWhilePending(v, action, user) ==
    IF action \in Responses THEN MayRespond(action, user)
                            ELSE action \in ValidActions[v.status]

\* validateStateTransition, validateHandoverPermissions
ValidTransition(v, action, user) ==
    IF action \in Responses
    THEN MayRespond(action, user)
    ELSE offer = None /\ action \in ValidActions[v.status]

\* A version with no holder cannot be deallocated.  The action of an asset
\* looks for the master first, that of a vehicle does not.  Who asks matters to
\* the handovers only and is left out, as None, of the other actions.
ReadForAction(r, v, action, user, to) ==
    /\ Kind = "asset" => ~gone
    /\ ValidTransition(v, action, user)
    /\ action = "DEALLOCATED" => v.holder # None
    /\ (to # None) <=> action = "HANDOVER_INITIATED"
    /\ (user # None) <=> action \in Responses \cup {"HANDOVER_INITIATED"}
    /\ Take(r, [step |-> "acting", action |-> action, user |-> user, to |-> to,
                open |-> FALSE, behind |-> FALSE], TRUE)
    /\ UNCHANGED offered

After(v, action, user) ==
    CASE action = "HANDOVER_ACCEPTED" -> [status |-> "ASSIGNED", holder |-> user]
      [] action \in {"DEALLOCATED", "AVAILABLE"} -> [status |-> "AVAILABLE", holder |-> None]
      [] action \in {"UNDER_MAINTENANCE", "DAMAGED", "RETIRED"} -> [v EXCEPT !.status = action]
      [] OTHER -> v

\* Every active version is updated, the holder is the one who accepts now.
CommitAction(r) ==
    /\ req[r].step = "acting" /\ req[r].open
    /\ versions' = IF req[r].behind
                   THEN versions
                   ELSE {After(v, req[r].action, req[r].user) : v \in versions}
    /\ offer' = IF req[r].action = "HANDOVER_INITIATED"
                THEN [by |-> req[r].user, to |-> req[r].to] ELSE None
    /\ offered' = offered \cup ({req[r].to} \ {None})
    /\ req' = [req EXCEPT ![r] = Idle]
    /\ UNCHANGED <<gone, kept>>

-----------------------------------------------------------------------------
(* update                                                                  *)

\* What the form leaves out, here None, is copied from the version read.
Copied(v, status, holder) ==
    [status |-> IF status = None THEN v.status ELSE status,
     holder |-> IF holder = None THEN v.holder ELSE holder]

ReadForEdit(r, v, status, holder) ==
    /\ ~gone
    /\ Take(r, [step |-> "editing", copy |-> Copied(v, status, holder),
                open |-> FALSE, behind |-> FALSE], status = None /\ holder = None)
    /\ offered' = offered \cup ({holder} \ {None})

\* The active versions become inactive, unless this transaction is behind.
CommitEdit(r) ==
    /\ req[r].step = "editing" /\ req[r].open
    /\ versions' = (IF req[r].behind THEN versions ELSE {}) \cup {req[r].copy}
    /\ Cardinality(versions') <= MaxActive
    /\ offer' = None
    /\ req' = [s \in Requests |->
                 IF s = r THEN Idle
                 ELSE IF req[s].step \in {"acting", "editing"} /\ req[s].open
                      THEN [req[s] EXCEPT !.behind = TRUE] ELSE req[s]]
    /\ UNCHANGED <<gone, offered, kept>>

Open(r) ==
    /\ req[r].step \in {"acting", "editing"} /\ ~req[r].open
    /\ req' = [req EXCEPT ![r].open = TRUE]
    /\ UNCHANGED <<versions, offer, gone, offered, kept>>

-----------------------------------------------------------------------------
(* delete and bulkDelete                                                   *)

\* One by its id: whatever its status, whoever holds it or is offered it.
ReadForDelete(r) ==
    /\ ~gone
    /\ Take(r, [step |-> "deleting"], TRUE)
    /\ UNCHANGED offered

\* Of several, one not in use; an admin or HR may delete any.  The pending
\* handover is not looked at.
ReadForBulkDelete(r, v, isAdminOrHR) ==
    /\ ~gone
    /\ isAdminOrHR \/ v.status = "AVAILABLE"
    /\ Take(r, [step |-> "deleting"], TRUE)
    /\ UNCHANGED offered

WriteDelete(r) ==
    /\ req[r].step = "deleting"
    /\ gone' = TRUE
    /\ req' = [req EXCEPT ![r] = Idle]
    /\ UNCHANGED <<versions, offer, offered, kept>>

-----------------------------------------------------------------------------
Next ==
    \E r \in Requests :
      \/ \E v \in versions :
           \/ \E action \in Actions, user, to \in Users \cup {None} :
                ReadForAction(r, v, action, user, to)
           \/ \E status \in Status \cup {None}, holder \in Users \cup {None} :
                ReadForEdit(r, v, status, holder)
           \/ \E isAdminOrHR \in BOOLEAN : ReadForBulkDelete(r, v, isAdminOrHR)
      \/ ReadForDelete(r)
      \/ Open(r) \/ CommitAction(r) \/ CommitEdit(r) \/ WriteDelete(r)

Spec == Init /\ [][Next]_vars

-----------------------------------------------------------------------------
TypeOK ==
    /\ versions \in (SUBSET Version) \ {{}}
    /\ offer \in Offer \cup {None}
    /\ gone \in BOOLEAN
    /\ req \in [Requests -> {Idle} \cup Acting \cup Editing \cup Deleting]
    /\ offered \subseteq Users
    /\ kept \in BOOLEAN

\* Nobody is made to hold what was never offered to them nor assigned to them
\* by form, in whatever order actions and edits commit: an acceptance is
\* checked against an offer that another request may have answered since, and
\* an edit writes back a holder it read long ago.
HolderWasOffered ==
    \A v \in versions : v.holder \in offered \cup {None}

Shown(x, otherwise) == IF kept THEN x ELSE otherwise

Handover == INSTANCE HandoverRecord WITH
    status <- Shown((CHOOSE v \in versions : TRUE).status, "AVAILABLE"),
    holder <- Shown((CHOOSE v \in versions : TRUE).holder, None),
    offer <- Shown(offer, None),
    gone <- Shown(gone, FALSE),
    Final <- Kind = "asset"

\* Actions decided by the last event of a log, and edits that copy versions,
\* together hand a thing over as HandoverRecord promises; once an asset is
\* deleted, by either route, it changes hands no more.
HandedOver == Handover!Spec
=============================================================================
