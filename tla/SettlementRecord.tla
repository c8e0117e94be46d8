--------------------------- MODULE SettlementRecord ---------------------------
(***************************************************************************)
(* What VALID_STATUS_TRANSITIONS promises of the settlements of one        *)
(* employee, to whoever looks at their statuses.  The promise ends where   *)
(* two requests overlap, or documents are asked for before the approval.   *)
(***************************************************************************)
EXTENDS Sequences

VARIABLES
    kept,     \* whether anything is promised
    status    \* of each settlement, in the order they were initiated

record == <<kept, status>>

Table ==
    {<<"INITIATED", "CALCULATED">>, <<"CALCULATED", "PENDING_CLEARANCE">>,
     <<"CALCULATED", "APPROVED">>, <<"PENDING_CLEARANCE", "APPROVED">>,
     <<"APPROVED", "DOCUMENTS_GENERATED">>, <<"DOCUMENTS_GENERATED", "COMPLETED">>}
    \cup {"INITIATED", "CALCULATED", "PENDING_CLEARANCE", "APPROVED",
          "DOCUMENTS_GENERATED"} \X {"CANCELLED"}

Init == kept = TRUE /\ status = <<>>

Enter == kept /\ status' = Append(status, "INITIATED") /\ UNCHANGED kept

Move ==
    /\ kept
    /\ \E i \in DOMAIN status, edge \in Table :
         /\ status[i] = edge[1]
         /\ status' = [status EXCEPT ![i] = edge[2]]
    /\ UNCHANGED kept

Void == kept' = FALSE /\ status' = <<>>

Next == Enter \/ Move \/ Void

Spec == Init /\ [][Next]_record
=============================================================================
