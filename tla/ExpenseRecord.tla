----------------------------- MODULE ExpenseRecord -----------------------------
(***************************************************************************)
(* What a chain of versions is for: to its readers, who look at the active *)
(* rows, an expense is one record with a status.  The promise ends where   *)
(* two requests overlap on it.                                             *)
(***************************************************************************)

VARIABLES
    stage,   \* "new", "kept", "removed", or "open" when nothing is promised
    seen     \* the statuses its readers see

record == <<stage, seen>>

Init == stage \in {"new", "open"} /\ seen = {}

Enter ==
    /\ stage = "new" /\ stage' = "kept"
    /\ \E status \in {"pending", "approved"} : seen' = {status}

\* An edit changes the amount, not the status.
Decide ==
    /\ stage = "kept" /\ stage' = "kept"
    /\ \/ seen = {"pending"} /\ \E status \in {"approved", "rejected", "cancelled"} : seen' = {status}
       \/ seen = {"approved"} /\ seen' = {"rejected"}
       \/ seen = {"rejected"} /\ seen' = {"approved"}

Remove == stage = "kept" /\ stage' = "removed" /\ seen' = {}

Overlap == stage' = "open" /\ seen' = {}

Next == Enter \/ Decide \/ Remove \/ Overlap

Spec == Init /\ [][Next]_record
=============================================================================
