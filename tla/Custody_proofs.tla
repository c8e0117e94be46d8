------------------------------ MODULE Custody_proofs ------------------------------
(* Who holds an asset or a vehicle was offered it, and what the actions,   *)
(* edits and deletions do is what HandoverRecord promises, for any number  *)
(* of users and requests.                                                  *)
EXTENDS Custody, TLAPS

Calls == Acting \cup Editing \cup Deleting

ReadsForDelete(r) ==
    \/ ReadForDelete(r)
    \/ \E v \in versions, isAdminOrHR \in BOOLEAN : ReadForBulkDelete(r, v, isAdminOrHR)

\* A request that comes in, whatever it asks for.
Reads(r) ==
    \/ \E v \in versions :
         \/ \E action \in Actions, user, to \in Users \cup {None} :
              ReadForAction(r, v, action, user, to)
         \/ \E status \in Status \cup {None}, holder \in Users \cup {None} :
              ReadForEdit(r, v, status, holder)
    \/ ReadsForDelete(r)

-----------------------------------------------------------------------------
(* Types.                                                                  *)

LEMMA CallOfStep ==
    ASSUME TypeOK, NEW r \in Requests
    PROVE  /\ req[r].step = "acting" => req[r] \in Acting
           /\ req[r].step = "editing" => req[r] \in Editing
           /\ req[r].step = "deleting" => req[r] \in Deleting
           /\ req[r] \in {Idle} \cup Calls
BY DEF TypeOK, Idle, Calls, Acting, Editing, Deleting

LEMMA ResponsesAndRest ==
    /\ \A s \in Status : ValidActions[s] \subseteq Actions
    /\ Responses \subseteq Actions
    /\ \A s \in Status : "HANDOVER_ACCEPTED" \notin ValidActions[s]
<1>1. \A s \in Status : "HANDOVER_ACCEPTED" \notin VehicleActions[s]
  BY DEF Status, VehicleActions
<1> QED
  BY <1>1 DEF Actions, ValidActions

LEMMA AfterTyped ==
    ASSUME NEW v \in Version, NEW action, NEW user,
           action = "HANDOVER_ACCEPTED" => user \in Users \cup {None}
    PROVE  After(v, action, user) \in Version
BY DEF After, Version, Status

\* Who asks, and whom it is for, is known where it matters.
Asked(call) ==
    call.step = "acting" =>
        /\ (call.to # None) <=> call.action = "HANDOVER_INITIATED"
        /\ (call.user # None) <=> call.action \in Responses \cup {"HANDOVER_INITIATED"}

Typed == TypeOK /\ \A r \in Requests : Asked(req[r])

LEMMA ReqAfter ==
    ASSUME TypeOK, NEW r \in Requests, NEW call, req' = [req EXCEPT ![r] = call]
    PROVE  req'[r] = call /\ \A s \in Requests : s # r => req'[s] = req[s]
BY DEF TypeOK

LEMMA TakeTyped ==
    ASSUME Typed, NEW r \in Requests, NEW call \in Calls, Asked(call),
           NEW formOnly \in BOOLEAN, Take(r, call, formOnly), offered' \subseteq Users
    PROVE  Typed'
<1>1. req' \in [Requests -> {Idle} \cup Acting \cup Editing \cup Deleting]
  BY DEF Typed, TypeOK, Take, Calls
<1>2. kept' \in BOOLEAN
  BY DEF Typed, TypeOK, Take
<1>3. UNCHANGED <<versions, offer, gone>>
  BY DEF Take
<1>4. \A s \in Requests : Asked(req'[s])
  BY ReqAfter DEF Typed, Take
<1> QED
  BY <1>1, <1>2, <1>3, <1>4 DEF Typed, TypeOK, Asked

\* A request that is answered.
LEMMA AnswerTyped ==
    ASSUME Typed, NEW r \in Requests, req' = [req EXCEPT ![r] = Idle],
           versions' \in (SUBSET Version) \ {{}}, offer' \in Offer \cup {None},
           gone' \in BOOLEAN, offered' \subseteq Users, UNCHANGED kept
    PROVE  Typed'
<1>1. req' \in [Requests -> {Idle} \cup Acting \cup Editing \cup Deleting]
  BY DEF Typed, TypeOK
<1>2. \A s \in Requests : Asked(req'[s])
  BY ReqAfter DEF Typed, Asked, Idle
<1> QED
  BY <1>1, <1>2 DEF Typed, TypeOK, Asked

LEMMA ReadActionTyped ==
    ASSUME Typed, NEW r \in Requests, NEW v \in versions, NEW action \in Actions,
           NEW user \in Users \cup {None}, NEW to \in Users \cup {None},
           ReadForAction(r, v, action, user, to)
    PROVE  Typed'
<1> DEFINE call == [step |-> "acting", action |-> action, user |-> user, to |-> to,
                    open |-> FALSE, behind |-> FALSE]
<1>1. call \in Calls /\ Asked(call)
  BY DEF Calls, Acting, ReadForAction, Asked
<1>2. Take(r, call, TRUE) /\ offered' \subseteq Users
  BY DEF ReadForAction, Typed, TypeOK
<1> HIDE DEF call
<1> QED
  BY <1>1, <1>2, TakeTyped

LEMMA ReadEditTyped ==
    ASSUME Typed, NEW r \in Requests, NEW v \in versions, NEW status \in Status \cup {None},
           NEW holder \in Users \cup {None}, ReadForEdit(r, v, status, holder)
    PROVE  Typed'
<1> DEFINE call == [step |-> "editing", copy |-> Copied(v, status, holder),
                    open |-> FALSE, behind |-> FALSE]
<1>1. Copied(v, status, holder) \in Version
  BY DEF Typed, TypeOK, Copied, Version
<1>2. call \in Calls /\ Asked(call)
  BY <1>1 DEF Calls, Editing, Asked
<1>3. Take(r, call, status = None /\ holder = None) /\ offered' \subseteq Users
  BY DEF ReadForEdit, Typed, TypeOK
<1>4. (status = None /\ holder = None) \in BOOLEAN
  OBVIOUS
<1> HIDE DEF call
<1> QED
  BY <1>2, <1>3, <1>4, TakeTyped

LEMMA ReadDeleteTyped ==
    ASSUME Typed, NEW r \in Requests, ReadsForDelete(r)
    PROVE  Typed'
<1> DEFINE call == [step |-> "deleting"]
<1>1. call \in Calls /\ Asked(call)
  BY DEF Calls, Deleting, Asked
<1>2. Take(r, call, TRUE) /\ offered' \subseteq Users
  BY DEF ReadsForDelete, ReadForDelete, ReadForBulkDelete, Typed, TypeOK
<1> HIDE DEF call
<1> QED
  BY <1>1, <1>2, TakeTyped

LEMMA CommitActionTyped ==
    ASSUME Typed, NEW r \in Requests, CommitAction(r)
    PROVE  Typed'
<1>1. req[r] \in Acting /\ Asked(req[r]) /\ req[r].step = "acting"
  BY CallOfStep DEF CommitAction, Typed
<1>2. versions' \in (SUBSET Version) \ {{}}
  <2>1. \A v \in versions : After(v, req[r].action, req[r].user) \in Version
    BY <1>1, AfterTyped DEF Typed, TypeOK, Acting
  <2>2. versions \in (SUBSET Version) \ {{}}
    BY DEF Typed, TypeOK
  <2> QED
    BY <2>1, <2>2 DEF CommitAction
<1>3. offer' \in Offer \cup {None}
  <2>1. CASE req[r].action = "HANDOVER_INITIATED"
    <3>1. req[r].user \in Users /\ req[r].to \in Users
      BY <1>1, <2>1 DEF Acting, Asked
    <3> QED
      BY <2>1, <3>1 DEF CommitAction, Offer
  <2>2. CASE req[r].action # "HANDOVER_INITIATED"
    BY <2>2 DEF CommitAction
  <2> QED
    BY <2>1, <2>2
<1>4. offered' \subseteq Users /\ gone' \in BOOLEAN /\ UNCHANGED kept
  BY <1>1 DEF CommitAction, Typed, TypeOK, Acting
<1> QED
  BY <1>2, <1>3, <1>4, AnswerTyped DEF CommitAction

LEMMA WriteDeleteTyped ==
    ASSUME Typed, NEW r \in Requests, WriteDelete(r)
    PROVE  Typed'
<1>1. req[r] \in Deleting
  BY CallOfStep DEF WriteDelete, Typed
<1> QED
  BY <1>1, AnswerTyped DEF WriteDelete, Typed, TypeOK

\* Opening, and what an edit does to those that wait for it, changes no call but
\* in whether it is open or behind.
LEMMA MarkedTyped ==
    ASSUME NEW call \in Acting \cup Editing, Asked(call), NEW b \in BOOLEAN
    PROVE  /\ [call EXCEPT !.open = b] \in Acting \cup Editing
           /\ [call EXCEPT !.behind = b] \in Acting \cup Editing
           /\ Asked([call EXCEPT !.open = b]) /\ Asked([call EXCEPT !.behind = b])
BY DEF Acting, Editing, Asked

LEMMA OpenTyped ==
    ASSUME Typed, NEW r \in Requests, Open(r)
    PROVE  Typed'
<1> PICK call : call = [req[r] EXCEPT !.open = TRUE]
  OBVIOUS
<1>1. req[r] \in Acting \cup Editing
  BY CallOfStep DEF Open, Typed
<1>2. call \in Acting \cup Editing /\ Asked(call)
  BY <1>1, MarkedTyped DEF Typed
<1>3. req' = [req EXCEPT ![r] = call]
  BY DEF Open
<1>4. req' \in [Requests -> {Idle} \cup Acting \cup Editing \cup Deleting]
  BY <1>2, <1>3 DEF Typed, TypeOK
<1>5. \A s \in Requests : Asked(req'[s])
  BY <1>2, <1>3, ReqAfter DEF Typed
<1> QED
  BY <1>4, <1>5 DEF Open, Typed, TypeOK, Asked

LEMMA CommitEditTyped ==
    ASSUME Typed, NEW r \in Requests, CommitEdit(r)
    PROVE  Typed'
<1>1. req[r] \in Editing
  BY CallOfStep DEF CommitEdit, Typed
<1>2. versions' \in (SUBSET Version) \ {{}}
  BY <1>1 DEF CommitEdit, Editing, Typed, TypeOK
<1>3. \A s \in Requests : /\ req'[s] \in {Idle} \cup Acting \cup Editing \cup Deleting
                          /\ Asked(req'[s])
  <2> SUFFICES ASSUME NEW s \in Requests
               PROVE  /\ req'[s] \in {Idle} \cup Acting \cup Editing \cup Deleting
                      /\ Asked(req'[s])
    OBVIOUS
  <2>1. CASE s = r
    BY <2>1 DEF CommitEdit, Asked, Idle
  <2>2. CASE s # r /\ req[s].step \in {"acting", "editing"} /\ req[s].open
    <3>1. req'[s] = [req[s] EXCEPT !.behind = TRUE]
      BY <2>2 DEF CommitEdit
    <3>2. req[s] \in Acting \cup Editing /\ Asked(req[s])
      BY <2>2, CallOfStep DEF Typed
    <3> QED
      BY <3>1, <3>2, MarkedTyped
  <2>3. CASE s # r /\ ~(req[s].step \in {"acting", "editing"} /\ req[s].open)
    <3>1. req'[s] = req[s]
      BY <2>3 DEF CommitEdit
    <3> QED
      BY <3>1 DEF Typed, TypeOK
  <2> QED
    BY <2>1, <2>2, <2>3
<1>4. req' \in [Requests -> {Idle} \cup Acting \cup Editing \cup Deleting]
  <2>1. req' = [s \in Requests |-> req'[s]]
    BY DEF CommitEdit
  <2> QED
    BY <1>3, <2>1
<1>5. /\ offer' \in Offer \cup {None} /\ gone' \in BOOLEAN
      /\ offered' \subseteq Users /\ kept' \in BOOLEAN
  BY DEF CommitEdit, Typed, TypeOK
<1> QED
  BY <1>2, <1>3, <1>4, <1>5 DEF Typed, TypeOK, Asked

LEMMA InitTyped == Init => Typed
<1> SUFFICES ASSUME Init PROVE Typed
  OBVIOUS
<1>1. versions \in (SUBSET Version) \ {{}}
  <2> PICK v : v = [status |-> "AVAILABLE", holder |-> None]
    OBVIOUS
  <2>1. v \in Version
    BY DEF Version, Status
  <2>2. versions = {v}
    BY DEF Init
  <2> QED
    BY <2>1, <2>2
<1>2. req \in [Requests -> {Idle} \cup Acting \cup Editing \cup Deleting]
  BY DEF Init
<1>3. \A r \in Requests : Asked(req[r])
  BY DEF Init, Asked, Idle
<1>4. offer = None /\ gone = FALSE /\ offered = {} /\ kept = TRUE
  BY DEF Init
<1> QED
  BY <1>1, <1>2, <1>3, <1>4 DEF Typed, TypeOK

LEMMA TypedStep == Typed /\ [Next]_vars => Typed'
<1> SUFFICES ASSUME Typed, [Next]_vars PROVE Typed'
  OBVIOUS
<1>1. CASE UNCHANGED vars
  BY <1>1 DEF vars, Typed, TypeOK, Asked
<1> QED
  BY <1>1, ReadActionTyped, ReadEditTyped, ReadDeleteTyped, OpenTyped, CommitActionTyped,
     CommitEditTyped, WriteDeleteTyped DEF Next, ReadsForDelete

LEMMA AlwaysTyped == Spec => []Typed
<1> QED
  BY InitTyped, TypedStep, PTL DEF Spec

\* Every variable keeps its type, and there is always an active version.
THEOREM TypeCorrect == Spec => []TypeOK
<1>1. Typed => TypeOK
  BY DEF Typed
<1> QED
  BY <1>1, AlwaysTyped, PTL

-----------------------------------------------------------------------------
(* Who holds it was offered it.                                            *)

\* A request that is accepting, or copying, writes a holder who was offered it.
Names(call, who) ==
    /\ call.step = "acting" /\ call.action = "HANDOVER_ACCEPTED" => call.user \in who
    /\ call.step = "editing" => call.copy.holder \in who \cup {None}

Owned ==
    /\ HolderWasOffered
    /\ offer # None => offer.to \in offered
    /\ \A r \in Requests : Names(req[r], offered)

LEMMA InitOwned == Init => Owned
BY DEF Init, Owned, HolderWasOffered, Names, Idle

\* A request that takes up `call', or a mark on those in flight.
LEMMA CallsOwned ==
    ASSUME Owned, UNCHANGED <<versions, offer>>, offered \subseteq offered',
           \A s \in Requests : req'[s] = req[s] \/ Names(req'[s], offered')
    PROVE  Owned'
<1>1. HolderWasOffered' /\ (offer # None => offer.to \in offered)'
  BY DEF Owned, HolderWasOffered
<1>2. \A s \in Requests : Names(req'[s], offered')
  BY DEF Owned, Names
<1> QED
  BY <1>1, <1>2 DEF Owned

LEMMA TakeOwned ==
    ASSUME Typed, Owned, NEW r \in Requests, NEW call, NEW formOnly,
           Take(r, call, formOnly), offered \subseteq offered', Names(call, offered')
    PROVE  Owned'
<1>1. req'[r] = call /\ \A s \in Requests : s # r => req'[s] = req[s]
  BY ReqAfter DEF Take, Typed
<1>2. \A s \in Requests : req'[s] = req[s] \/ Names(req'[s], offered')
  BY <1>1 DEF Names
<1> QED
  BY <1>2, CallsOwned DEF Take

LEMMA ReadsOwned ==
    ASSUME Typed, Owned, NEW r \in Requests, Reads(r)
    PROVE  Owned'
<1>1. ASSUME NEW v \in versions, NEW action \in Actions, NEW user \in Users \cup {None},
             NEW to \in Users \cup {None}, ReadForAction(r, v, action, user, to)
      PROVE  Owned'
  <2> DEFINE call == [step |-> "acting", action |-> action, user |-> user, to |-> to,
                      open |-> FALSE, behind |-> FALSE]
  <2>1. action = "HANDOVER_ACCEPTED" => user \in offered
    BY <1>1 DEF ReadForAction, ValidTransition, Responses, MayRespond, Owned
  <2>2. Take(r, call, TRUE) /\ UNCHANGED offered
    BY <1>1 DEF ReadForAction
  <2>3. Names(call, offered')
    BY <2>1, <2>2 DEF Names
  <2> HIDE DEF call
  <2> QED
    BY <2>2, <2>3, TakeOwned
<1>2. ASSUME NEW v \in versions, NEW status \in Status \cup {None},
             NEW holder \in Users \cup {None}, ReadForEdit(r, v, status, holder)
      PROVE  Owned'
  <2> DEFINE call == [step |-> "editing", copy |-> Copied(v, status, holder),
                      open |-> FALSE, behind |-> FALSE]
  <2>1. offered' = offered \cup ({holder} \ {None})
    BY <1>2 DEF ReadForEdit
  <2>2. Copied(v, status, holder).holder \in offered' \cup {None}
    BY <2>1 DEF Copied, Owned, HolderWasOffered
  <2>3. Names(call, offered')
    BY <2>2 DEF Names
  <2>4. Take(r, call, status = None /\ holder = None)
    BY <1>2 DEF ReadForEdit
  <2> HIDE DEF call
  <2> QED
    BY <2>1, <2>3, <2>4, TakeOwned
<1>3. CASE ReadsForDelete(r)
  <2> DEFINE call == [step |-> "deleting"]
  <2>1. Take(r, call, TRUE) /\ UNCHANGED offered /\ Names(call, offered')
    BY <1>3 DEF ReadsForDelete, ReadForDelete, ReadForBulkDelete, Names
  <2> HIDE DEF call
  <2> QED
    BY <2>1, TakeOwned
<1> QED
  BY <1>1, <1>2, <1>3 DEF Reads

LEMMA WritesOwned ==
    ASSUME Typed, Owned, NEW r \in Requests,
           Open(r) \/ CommitAction(r) \/ CommitEdit(r) \/ WriteDelete(r)
    PROVE  Owned'
<1>1. CASE Open(r)
  <2> PICK call : call = [req[r] EXCEPT !.open = TRUE]
    OBVIOUS
  <2>1. req[r] \in Acting \cup Editing /\ Names(req[r], offered)
    BY <1>1, CallOfStep DEF Open, Typed, Owned
  <2>2. Names(call, offered)
    BY <2>1 DEF Names, Acting, Editing
  <2>3. req'[r] = call /\ \A s \in Requests : s # r => req'[s] = req[s]
    BY <1>1, ReqAfter DEF Open, Typed
  <2>4. \A s \in Requests : req'[s] = req[s] \/ Names(req'[s], offered')
    BY <1>1, <2>2, <2>3 DEF Names, Open
  <2> QED
    BY <1>1, <2>4, CallsOwned DEF Open
<1>2. CASE WriteDelete(r)
  <2>1. req'[r] = Idle /\ \A s \in Requests : s # r => req'[s] = req[s]
    BY <1>2, ReqAfter DEF WriteDelete, Typed
  <2>2. \A s \in Requests : req'[s] = req[s] \/ Names(req'[s], offered')
    BY <2>1 DEF Names, Idle
  <2> QED
    BY <1>2, <2>2, CallsOwned DEF WriteDelete
<1>3. CASE CommitAction(r)
  <2>1. req[r] \in Acting /\ req[r].step = "acting" /\ Names(req[r], offered) /\ Asked(req[r])
    BY <1>3, CallOfStep DEF CommitAction, Owned, Typed
  <2>2. offered \subseteq offered'
    BY <1>3 DEF CommitAction
  <2>3. \A v \in versions : After(v, req[r].action, req[r].user).holder \in offered \cup {None}
    <3> SUFFICES ASSUME NEW v \in versions
                 PROVE  After(v, req[r].action, req[r].user).holder \in offered \cup {None}
      OBVIOUS
    <3>1. v \in Version /\ v.holder \in offered \cup {None}
      BY DEF Typed, TypeOK, Owned, HolderWasOffered
    <3> QED
      BY <2>1, <3>1 DEF After, Names, Version
  <2>4. HolderWasOffered'
    BY <1>3, <2>2, <2>3 DEF CommitAction, Owned, HolderWasOffered
  <2>5. (offer # None => offer.to \in offered)'
    BY <1>3, <2>1 DEF CommitAction, Asked
  <2>6. req'[r] = Idle /\ \A s \in Requests : s # r => req'[s] = req[s]
    BY <1>3, ReqAfter DEF CommitAction, Typed
  <2>7. \A s \in Requests : Names(req'[s], offered')
    BY <2>2, <2>6 DEF Names, Idle, Owned
  <2> QED
    BY <2>4, <2>5, <2>7 DEF Owned
<1>4. CASE CommitEdit(r)
  <2>1. req[r].step = "editing" /\ Names(req[r], offered) /\ UNCHANGED offered /\ offer' = None
    BY <1>4 DEF CommitEdit, Owned
  <2>2. HolderWasOffered'
    BY <1>4, <2>1 DEF CommitEdit, Owned, HolderWasOffered, Names
  <2>3. \A s \in Requests : Names(req'[s], offered')
    <3> SUFFICES ASSUME NEW s \in Requests PROVE Names(req'[s], offered')
      OBVIOUS
    <3>1. CASE req'[s] \in {Idle, req[s]}
      BY <2>1, <3>1 DEF Names, Idle, Owned
    <3>2. CASE req'[s] = [req[s] EXCEPT !.behind = TRUE] /\ req[s].step \in {"acting", "editing"}
      <4>1. req[s] \in Acting \cup Editing /\ Names(req[s], offered)
        BY <3>2, CallOfStep DEF Typed, Owned
      <4> QED
        BY <2>1, <3>2, <4>1 DEF Names, Acting, Editing
    <3> QED
      BY <1>4, <3>1, <3>2 DEF CommitEdit
  <2> QED
    BY <2>1, <2>2, <2>3 DEF Owned, Names
<1> QED
  BY <1>1, <1>2, <1>3, <1>4

LEMMA OwnedStep == Typed /\ Owned /\ [Next]_vars => Owned'
<1> SUFFICES ASSUME Typed, Owned, [Next]_vars PROVE Owned'
  OBVIOUS
<1>1. CASE UNCHANGED vars
  BY <1>1 DEF vars, Owned, HolderWasOffered, Names
<1> QED
  BY <1>1, ReadsOwned, WritesOwned DEF Next, Reads, ReadsForDelete

\* Nobody holds what was never offered nor assigned to them, in whatever order
\* the requests commit.
THEOREM HoldersWereOffered == Spec => []HolderWasOffered
<1>1. Owned => HolderWasOffered
  BY DEF Owned
<1>2. Spec => []Owned
  BY InitOwned, OwnedStep, AlwaysTyped, PTL DEF Spec
<1> QED
  BY <1>1, <1>2, PTL

-----------------------------------------------------------------------------
(* Requests one after the other, and forms that leave the status and the   *)
(* holder as they are: what a request has read is what it writes over.     *)

Alone == \A r, s \in Requests : req[r] # Idle /\ req[s] # Idle => r = s

One == \E v : versions = {v}

Due(call) ==
    /\ call.step = "acting" =>
         /\ ~call.behind
         /\ Kind = "asset" => ~gone
         /\ \A v \in versions : ValidTransition(v, call.action, call.user)
    /\ call.step = "editing" => ~call.behind /\ call.copy \in versions /\ ~gone
    /\ call.step = "deleting" => ~gone

Kept == kept => Alone /\ One /\ \A r \in Requests : Due(req[r])

LEMMA InitKept == Init => Kept
<1> SUFFICES ASSUME Init PROVE Kept
  OBVIOUS
<1>1. Alone /\ \A r \in Requests : Due(req[r])
  BY DEF Init, Alone, Due, Idle
<1> PICK v : v = [status |-> "AVAILABLE", holder |-> None]
  OBVIOUS
<1>2. versions = {v}
  BY DEF Init
<1> QED
  BY <1>1, <1>2 DEF Kept, One

LEMMA TakeKept ==
    ASSUME Typed, Kept, NEW r \in Requests, NEW call, NEW formOnly \in BOOLEAN,
           Take(r, call, formOnly), kept /\ formOnly => Due(call)
    PROVE  Kept'
<1> SUFFICES ASSUME kept'
             PROVE  (Alone /\ One /\ \A s \in Requests : Due(req[s]))'
  BY DEF Kept
<1>1. kept /\ formOnly /\ \A s \in Requests : req[s] = Idle
  BY DEF Take, Typed, TypeOK
<1>2. req'[r] = call /\ (\A s \in Requests : s # r => req'[s] = req[s])
      /\ UNCHANGED <<versions, offer, gone>>
  BY ReqAfter DEF Take, Typed
<1>3. Alone'
  BY <1>1, <1>2 DEF Alone
<1>4. One'
  BY <1>1, <1>2 DEF Kept, One
<1>5. Due(call)'
  BY <1>1, <1>2 DEF Due, ValidTransition, MayRespond
<1>6. \A s \in Requests : Due(req[s])'
  BY <1>1, <1>2, <1>5 DEF Due, Idle
<1> QED
  BY <1>3, <1>4, <1>6

LEMMA ReadsKept ==
    ASSUME Typed, Kept, NEW r \in Requests, Reads(r)
    PROVE  Kept'
<1>1. kept => \A v, w \in versions : w = v
  BY DEF Kept, One
<1>2. ASSUME NEW v \in versions, NEW action \in Actions, NEW user \in Users \cup {None},
             NEW to \in Users \cup {None}, ReadForAction(r, v, action, user, to)
      PROVE  Kept'
  <2> DEFINE call == [step |-> "acting", action |-> action, user |-> user, to |-> to,
                      open |-> FALSE, behind |-> FALSE]
  <2>1. kept => Due(call)
    BY <1>1, <1>2 DEF ReadForAction, Due
  <2>2. Take(r, call, TRUE)
    BY <1>2 DEF ReadForAction
  <2> HIDE DEF call
  <2> QED
    BY <2>1, <2>2, TakeKept
<1>3. ASSUME NEW v \in versions, NEW status \in Status \cup {None},
             NEW holder \in Users \cup {None}, ReadForEdit(r, v, status, holder)
      PROVE  Kept'
  <2> DEFINE call == [step |-> "editing", copy |-> Copied(v, status, holder),
                      open |-> FALSE, behind |-> FALSE]
             formOnly == status = None /\ holder = None
  <2>1. formOnly => Copied(v, status, holder) = v
    BY DEF Copied, Typed, TypeOK, Version
  <2>2. formOnly => Due(call)
    BY <1>3, <2>1 DEF ReadForEdit, Due
  <2>3. Take(r, call, formOnly) /\ formOnly \in BOOLEAN
    BY <1>3 DEF ReadForEdit
  <2> HIDE DEF call, formOnly
  <2> QED
    BY <2>2, <2>3, TakeKept
<1>4. CASE ReadsForDelete(r)
  <2> DEFINE call == [step |-> "deleting"]
  <2>1. Due(call) /\ Take(r, call, TRUE)
    BY <1>4 DEF ReadsForDelete, ReadForDelete, ReadForBulkDelete, Due
  <2> HIDE DEF call
  <2> QED
    BY <2>1, TakeKept
<1> QED
  BY <1>2, <1>3, <1>4 DEF Reads

LEMMA AnswerKept ==
    ASSUME Typed, Kept, kept, NEW r \in Requests, req[r] # Idle, req'[r] = Idle,
           \A s \in Requests : s # r /\ req[s] = Idle => req'[s] = Idle,
           One'
    PROVE  Kept'
<1>1. \A s \in Requests : req'[s] = Idle
  BY DEF Kept, Alone
<1>2. Alone' /\ \A s \in Requests : Due(req[s])'
  BY <1>1 DEF Alone, Due, Idle
<1> QED
  BY <1>2 DEF Kept

LEMMA WritesKept ==
    ASSUME Typed, Kept, NEW r \in Requests,
           Open(r) \/ CommitAction(r) \/ CommitEdit(r) \/ WriteDelete(r)
    PROVE  Kept'
<1> SUFFICES ASSUME kept PROVE Kept'
  BY DEF Kept, Open, CommitAction, CommitEdit, WriteDelete
<1>1. CASE Open(r)
  <2> PICK call : call = [req[r] EXCEPT !.open = TRUE]
    OBVIOUS
  <2>1. req[r] \in Acting \cup Editing /\ Due(req[r]) /\ req[r] # Idle
    BY <1>1, CallOfStep DEF Open, Typed, Kept, Idle
  <2>2. Due(call)
    BY <2>1 DEF Due, Acting, Editing
  <2>3. req'[r] = call /\ (\A s \in Requests : s # r => req'[s] = req[s])
        /\ UNCHANGED <<versions, offer, gone>>
    BY <1>1, ReqAfter DEF Open, Typed
  <2>4. Due(call)'
    BY <2>2, <2>3 DEF Due, ValidTransition, MayRespond
  <2>5. \A s \in Requests : s # r => req'[s] = Idle
    BY <2>1, <2>3 DEF Kept, Alone
  <2>6. \A s \in Requests : Due(req[s])'
    <3>1. \A s \in Requests : s # r => Due(req[s])'
      BY <2>5 DEF Due, Idle
    <3>2. Due(req[r])'
      BY <2>3, <2>4 DEF Due
    <3> QED
      BY <3>1, <3>2
  <2>7. Alone'
    BY <2>5 DEF Alone
  <2>8. One'
    BY <2>3 DEF Kept, One
  <2> QED
    BY <2>6, <2>7, <2>8 DEF Kept
<1>2. CASE WriteDelete(r)
  <2>1. req'[r] = Idle /\ \A s \in Requests : s # r => req'[s] = req[s]
    BY <1>2, ReqAfter DEF WriteDelete, Typed
  <2>2. req[r] # Idle /\ One'
    BY <1>2 DEF WriteDelete, Idle, Kept, One
  <2> QED
    BY <2>1, <2>2, AnswerKept
<1>3. CASE CommitEdit(r)
  <2>1. req[r] # Idle /\ Due(req[r]) /\ req[r].step = "editing"
    BY <1>3 DEF CommitEdit, Idle, Kept
  <2>2. versions' = {req[r].copy} /\ req[r].copy \in versions
    BY <1>3, <2>1 DEF CommitEdit, Due
  <2>3. versions' = versions
    BY <2>2 DEF Kept, One
  <2>4. One'
    BY <2>3 DEF Kept, One
  <2>5. /\ req'[r] = Idle
        /\ \A s \in Requests : s # r /\ req[s] = Idle => req'[s] = Idle
    BY <1>3 DEF CommitEdit, Idle
  <2> QED
    BY <2>1, <2>4, <2>5, AnswerKept
<1>4. CASE CommitAction(r)
  <2>1. /\ req[r] # Idle /\ Due(req[r]) /\ req[r].step = "acting"
    BY <1>4 DEF CommitAction, Idle, Kept
  <2>2. PICK v : versions = {v}
    BY DEF Kept, One
  <2>3. versions' = {After(v, req[r].action, req[r].user)}
    BY <1>4, <2>1, <2>2 DEF CommitAction, Due
  <2>4. One'
    BY <2>3 DEF One
  <2>5. req'[r] = Idle /\ \A s \in Requests : s # r => req'[s] = req[s]
    BY <1>4, ReqAfter DEF CommitAction, Typed
  <2> QED
    BY <2>1, <2>4, <2>5, AnswerKept
<1> QED
  BY <1>1, <1>2, <1>3, <1>4

LEMMA KeptStep == Typed /\ Kept /\ [Next]_vars => Kept'
<1> SUFFICES ASSUME Typed, Kept, [Next]_vars PROVE Kept'
  OBVIOUS
<1>1. CASE UNCHANGED vars
  BY <1>1 DEF vars, Kept, Alone, One, Due, ValidTransition, MayRespond
<1> QED
  BY <1>1, ReadsKept, WritesKept DEF Next, Reads, ReadsForDelete

LEMMA AlwaysKept == Spec => []Kept
<1> QED
  BY InitKept, KeptStep, AlwaysTyped, PTL DEF Spec

-----------------------------------------------------------------------------
(* The actions implement the record of a handover.                         *)

LEMMA InitHandover == Init => Handover!Init
<1> SUFFICES ASSUME Init PROVE Handover!Init
  OBVIOUS
<1> PICK v : v = [status |-> "AVAILABLE", holder |-> None]
  OBVIOUS
<1>1. versions = {v} /\ offer = None /\ gone = FALSE /\ kept = TRUE
  BY DEF Init
<1>2. (CHOOSE w \in versions : TRUE) = v
  BY <1>1
<1> QED
  BY <1>1, <1>2 DEF Handover!Init, Shown

\* Which actions the last event and the status leave.
LEMMA ValidFacts ==
    ASSUME NEW v \in Version, NEW action \in Actions, NEW user, ValidTransition(v, action, user)
    PROVE  /\ action \in Responses => MayRespond(action, user)
           /\ action \notin Responses => offer = None
           /\ action = "HANDOVER_INITIATED" => v.status \in {"AVAILABLE", "ASSIGNED"}
           /\ action \in {"DEALLOCATED", "AVAILABLE"} =>
                v.status \in {"ASSIGNED", "UNDER_MAINTENANCE", "DAMAGED"}
           /\ action \in {"UNDER_MAINTENANCE", "DAMAGED", "RETIRED"} => v.status # "RETIRED"
           /\ action \in Responses \cup {"HANDOVER_INITIATED", "DEALLOCATED", "AVAILABLE",
                "UNDER_MAINTENANCE", "DAMAGED", "RETIRED", "CALIBRATED"}
<1>1. \A s \in Status : ValidActions[s] \subseteq
         VehicleActions[s] \cup {"CALIBRATED"}
  BY DEF ValidActions
<1>2. /\ VehicleActions["AVAILABLE"] =
           {"HANDOVER_INITIATED", "UNDER_MAINTENANCE", "DAMAGED", "RETIRED"}
      /\ VehicleActions["ASSIGNED"] =
           {"HANDOVER_INITIATED", "DEALLOCATED", "UNDER_MAINTENANCE", "DAMAGED", "RETIRED"}
      /\ VehicleActions["UNDER_MAINTENANCE"] = {"AVAILABLE", "DAMAGED", "RETIRED"}
      /\ VehicleActions["DAMAGED"] = {"AVAILABLE", "UNDER_MAINTENANCE", "RETIRED"}
      /\ VehicleActions["RETIRED"] = {}
  BY DEF VehicleActions
<1>3. v.status \in Status
  BY DEF Version
<1>4. action \notin Responses => offer = None /\ action \in ValidActions[v.status]
  BY DEF ValidTransition
<1>5. action \in Responses => MayRespond(action, user)
  BY DEF ValidTransition
<1>6. action \notin Responses => action \in VehicleActions[v.status] \cup {"CALIBRATED"}
  BY <1>1, <1>3, <1>4
<1> QED
  BY <1>2, <1>3, <1>4, <1>5, <1>6 DEF Status, Responses

LEMMA ActionHandover ==
    ASSUME Typed, Kept, kept, NEW r \in Requests, CommitAction(r)
    PROVE  [Handover!Next]_(Handover!record)
<1> PICK action, user, to :
      action = req[r].action /\ user = req[r].user /\ to = req[r].to
  OBVIOUS
<1>1. /\ req[r] \in Acting /\ Due(req[r]) /\ Asked(req[r]) /\ req[r].step = "acting"
  BY CallOfStep DEF CommitAction, Kept, Typed
<1>2. PICK v : versions = {v}
  BY DEF Kept, One
<1>3. v \in Version /\ action \in Actions
  BY <1>1, <1>2 DEF Typed, TypeOK, Acting
<1>4. ValidTransition(v, action, user)
  BY <1>1, <1>2 DEF Due
<1>5. /\ versions' = {After(v, action, user)} /\ kept'
      /\ offer' = IF action = "HANDOVER_INITIATED" THEN [by |-> user, to |-> to] ELSE None
  BY <1>1, <1>2 DEF CommitAction, Due
<1>6. /\ (CHOOSE w \in versions : TRUE) = v
      /\ (CHOOSE w \in versions' : TRUE) = After(v, action, user)
  BY <1>2, <1>5
<1>7. kept = TRUE /\ kept' = TRUE /\ gone' = gone /\ (Kind = "asset" => ~gone)
  BY <1>1, <1>5 DEF CommitAction, Typed, TypeOK, Due
<1>8. /\ Shown((CHOOSE w \in versions : TRUE).status, "AVAILABLE") = v.status
      /\ Shown((CHOOSE w \in versions : TRUE).holder, None) = v.holder
      /\ Shown(offer, None) = offer
      /\ Shown((CHOOSE w \in versions : TRUE).status, "AVAILABLE")' = After(v, action, user).status
      /\ Shown((CHOOSE w \in versions : TRUE).holder, None)' = After(v, action, user).holder
      /\ Shown(offer, None)' = offer'
      /\ Shown(gone, FALSE) = gone /\ Shown(gone, FALSE)' = gone
  BY <1>6, <1>7 DEF Shown
<1>9. CASE action = "HANDOVER_INITIATED"
  <2>1. user \in Users /\ to \in Users
    BY <1>1, <1>9 DEF Acting, Asked
  <2>2. After(v, action, user) = v
    BY <1>9 DEF After
  <2>3. offer = None /\ v.status \in {"AVAILABLE", "ASSIGNED"} /\ offer' = [by |-> user, to |-> to]
    BY <1>3, <1>4, <1>5, <1>9, ValidFacts DEF Responses
  <2>4. Handover!Initiate(user, to)
    BY <1>7, <1>8, <2>2, <2>3 DEF Handover!Initiate, Handover!InUse
  <2> QED
    BY <2>1, <2>4 DEF Handover!Next
<1>10. CASE action = "HANDOVER_ACCEPTED"
  <2>1. offer # None /\ user = offer.to /\ offer' = None
    BY <1>3, <1>4, <1>5, <1>10, ValidFacts DEF Responses, MayRespond
  <2>2. After(v, action, user).status = "ASSIGNED" /\ After(v, action, user).holder = user
    BY <1>10 DEF After
  <2>3. Handover!Accept
    BY <1>7, <1>8, <2>1, <2>2 DEF Handover!Accept, Handover!InUse
  <2> QED
    BY <2>3 DEF Handover!Next
<1>11. CASE action \in {"HANDOVER_REJECTED", "HANDOVER_CANCELLED"}
  <2>1. offer # None /\ offer' = None
    BY <1>3, <1>4, <1>5, <1>11, ValidFacts DEF Responses, MayRespond
  <2>2. After(v, action, user) = v
    BY <1>11 DEF After
  <2>3. Handover!Lapse
    BY <1>7, <1>8, <2>1, <2>2 DEF Handover!Lapse, Handover!InUse
  <2> QED
    BY <2>3 DEF Handover!Next
<1>12. CASE action \in {"DEALLOCATED", "AVAILABLE"}
  <2>1. /\ offer = None /\ offer' = None
        /\ v.status \in {"ASSIGNED", "UNDER_MAINTENANCE", "DAMAGED"}
    BY <1>3, <1>4, <1>5, <1>12, ValidFacts DEF Responses
  <2>2. After(v, action, user).status = "AVAILABLE" /\ After(v, action, user).holder = None
    BY <1>12 DEF After
  <2>3. Handover!Return
    BY <1>7, <1>8, <2>1, <2>2 DEF Handover!Return, Handover!InUse
  <2> QED
    BY <2>3 DEF Handover!Next
<1>13. CASE action \in {"UNDER_MAINTENANCE", "DAMAGED", "RETIRED"}
  <2>1. offer = None /\ offer' = None /\ v.status # "RETIRED"
    BY <1>3, <1>4, <1>5, <1>13, ValidFacts DEF Responses
  <2>2. After(v, action, user).status = action /\ After(v, action, user).holder = v.holder
    BY <1>3, <1>13 DEF After, Version
  <2>3. Handover!Withdraw
    BY <1>7, <1>8, <1>13, <2>1, <2>2 DEF Handover!Withdraw, Handover!InUse
  <2> QED
    BY <2>3 DEF Handover!Next
<1>14. CASE action = "CALIBRATED"
  <2>1. offer = None /\ offer' = None
    BY <1>3, <1>4, <1>5, <1>14, ValidFacts DEF Responses
  <2>2. After(v, action, user) = v
    BY <1>14 DEF After
  <2> QED
    BY <1>7, <1>8, <2>1, <2>2 DEF Handover!record
<1> QED
  BY <1>3, <1>4, <1>9, <1>10, <1>11, <1>12, <1>13, <1>14, ValidFacts DEF Responses

LEMMA StepHandover ==
    ASSUME Typed, Typed', Kept, [Next]_vars
    PROVE  [Handover!Next]_(Handover!record)
<1>1. CASE ~kept'
  <2>1. kept' = FALSE
    BY <1>1 DEF Typed, TypeOK
  <2>2. Handover!Void
    BY <2>1 DEF Handover!Void, Shown
  <2> QED
    BY <2>2 DEF Handover!Next
<1>2. CASE UNCHANGED <<versions, offer, gone, kept>>
  BY <1>2 DEF Handover!record, Shown
<1>3. ASSUME NEW r \in Requests, kept', Reads(r)
      PROVE  [Handover!Next]_(Handover!record)
  <2>1. PICK call, formOnly : Take(r, call, formOnly)
    BY <1>3 DEF Reads, ReadsForDelete, ReadForAction, ReadForEdit, ReadForDelete,
       ReadForBulkDelete
  <2>2. kept = TRUE /\ kept' = TRUE
    BY <1>3, <2>1 DEF Take, Typed, TypeOK
  <2> QED
    BY <1>2, <2>1, <2>2 DEF Take
<1>4. ASSUME NEW r \in Requests, Open(r) PROVE [Handover!Next]_(Handover!record)
  BY <1>2, <1>4 DEF Open
<1>5. ASSUME NEW r \in Requests, CommitEdit(r), kept'
      PROVE  [Handover!Next]_(Handover!record)
  <2>1. kept = TRUE /\ kept' = TRUE /\ offer' = None /\ gone' = gone
    BY <1>5 DEF CommitEdit, Typed, TypeOK
  <2>2. Due(req[r]) /\ One /\ ~gone
    BY <1>5, <2>1 DEF Kept, Due, CommitEdit
  <2>3. versions' = {req[r].copy} /\ req[r].copy \in versions
    BY <1>5, <2>2 DEF CommitEdit, Due
  <2>4. versions' = versions
    BY <2>2, <2>3 DEF One
  <2>5. CASE offer = None
    BY <1>2, <2>1, <2>4, <2>5
  <2>6. CASE offer # None
    <3>1. Handover!Lapse
      BY <2>1, <2>2, <2>4, <2>6 DEF Handover!Lapse, Handover!InUse, Shown
    <3> QED
      BY <3>1 DEF Handover!Next
  <2> QED
    BY <2>5, <2>6
<1>6. ASSUME NEW r \in Requests, CommitAction(r), kept'
      PROVE  [Handover!Next]_(Handover!record)
  BY <1>6, ActionHandover DEF CommitAction
<1>7. ASSUME NEW r \in Requests, WriteDelete(r), kept'
      PROVE  [Handover!Next]_(Handover!record)
  <2>1. kept = TRUE /\ kept' = TRUE /\ gone' = TRUE /\ UNCHANGED <<versions, offer>>
    BY <1>7 DEF WriteDelete, Typed, TypeOK
  <2>2. ~gone
    BY <1>7, <2>1 DEF Kept, Due, WriteDelete
  <2>3. Handover!Discard
    BY <2>1, <2>2 DEF Handover!Discard, Shown
  <2> QED
    BY <2>3 DEF Handover!Next
<1> QED
  BY <1>1, <1>2, <1>3, <1>4, <1>5, <1>6, <1>7 DEF Next, Reads, ReadsForDelete, vars

\* Actions decided by the last event, edits that copy versions and deletions that
\* look at nothing hand a thing over as HandoverRecord promises while requests do
\* not overlap on it.
THEOREM HandsOver == Spec => HandedOver
<1>1. Typed /\ Typed' /\ Kept /\ [Next]_vars => [Handover!Next]_(Handover!record)
  BY StepHandover
<1> QED
  BY <1>1, InitHandover, AlwaysTyped, AlwaysKept, PTL DEF Spec, HandedOver, Handover!Spec
=============================================================================
