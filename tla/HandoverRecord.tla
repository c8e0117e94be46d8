---------------------------- MODULE HandoverRecord ----------------------------
(***************************************************************************)
(* What the handover of an asset or a vehicle promises: it changes hands   *)
(* only when the one it was offered to accepts, it is offered to one       *)
(* person at a time, and what is retired stays so.  It can be deleted in   *)
(* anybody's hands; an asset is then left as it is, a vehicle can still be *)
(* handed over.  The promise ends where two requests overlap or a form     *)
(* sets the status or the holder.                                          *)
(***************************************************************************)
CONSTANTS
    Users, None,
    Final     \* nothing is done with what is deleted

VARIABLES
    kept,     \* whether anything is promised
    status,
    holder,
    offer,    \* who was offered it, by whom
    gone      \* it is deleted

record == <<kept, status, holder, offer, gone>>

InUse == kept /\ (Final => ~gone)

Statuses == {"AVAILABLE", "ASSIGNED", "UNDER_MAINTENANCE", "DAMAGED", "RETIRED"}

Init ==
    /\ kept = TRUE
    /\ status = "AVAILABLE" /\ holder = None /\ offer = None
    /\ gone = FALSE

Initiate(by, to) ==
    /\ InUse /\ offer = None
    /\ status \in {"AVAILABLE", "ASSIGNED"}
    /\ offer' = [by |-> by, to |-> to]
    /\ UNCHANGED <<kept, status, holder, gone>>

Accept ==
    /\ InUse /\ offer # None
    /\ status' = "ASSIGNED" /\ holder' = offer.to /\ offer' = None
    /\ UNCHANGED <<kept, gone>>

\* Rejected, cancelled, or the form was saved.
Lapse ==
    /\ InUse /\ offer # None
    /\ offer' = None
    /\ UNCHANGED <<kept, status, holder, gone>>

Return ==
    /\ InUse /\ offer = None
    /\ status \in {"ASSIGNED", "UNDER_MAINTENANCE", "DAMAGED"}
    /\ status' = "AVAILABLE" /\ holder' = None
    /\ UNCHANGED <<kept, offer, gone>>

\* Whoever holds it keeps it on their account.
Withdraw ==
    /\ InUse /\ offer = None /\ status # "RETIRED"
    /\ status' \in {"UNDER_MAINTENANCE", "DAMAGED", "RETIRED"}
    /\ UNCHANGED <<kept, holder, offer, gone>>

Discard ==
    /\ kept /\ ~gone
    /\ gone' = TRUE
    /\ UNCHANGED <<kept, status, holder, offer>>

Void ==
    /\ kept' = FALSE
    /\ status' = "AVAILABLE" /\ holder' = None /\ offer' = None /\ gone' = FALSE

Next ==
    \/ \E by, to \in Users : Initiate(by, to)
    \/ Accept \/ Lapse \/ Return \/ Withdraw \/ Discard \/ Void

Spec == Init /\ [][Next]_record
=============================================================================
