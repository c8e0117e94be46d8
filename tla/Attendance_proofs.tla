-------------------------- MODULE Attendance_proofs ---------------------------
(* Leaves and the days they are taken on: the ledger of leaves, and the    *)
(* attendance rows of a day.  The two models share no state; their proofs  *)
(* stand one after another.                                                *)
EXTENDS LeaveLedger, AttendanceDay, FiniteSetTheorems, SequenceTheorems, TLAPS

-----------------------------------------------------------------------------
(* I. The ledger of leaves: types for whatever overlaps, and the balance,  *)
(* the applications and their decisions for requests that do not overlap,  *)
(* in any number and order, while days pass and leave accrues in between.  *)

\* No two requests are in flight at the same time.
Alone == \A r, s \in Requests : req[r] # Idle /\ req[s] # Idle => r = s

Calls == ApplyCall \cup DecideCall \cup RevertCall \cup ForceCall
           \cup CronCall \cup EntryCall \cup {Idle}

\* What a request carries lies within the tables.
Refers(x) ==
    /\ x.step \in {"applying", "exhausted"}
         => x.from <= x.to /\ x.from <= x.next /\ x.next <= x.to + 1
    /\ x.step = "deciding" => x.id \in Apps
    /\ x.step = "applicationFound" => x.id \in Apps \cup {0}
    /\ x.step = "autoApproving" => x.ids \subseteq Apps

TypeInv == TypeOK /\ \A r \in Requests : Refers(req[r])

\* What a request has read is still so.
Fresh(x) ==
    /\ x.step = "applying" =>
         /\ x.consumed = consumed[x.category]
         /\ x.consumed + (x.to - x.from + 1) <= allocated[x.category]
         /\ \A d \in Days : x.from <= d /\ d < x.next => LiveOn(x.category, d) = {}
    /\ x.step = "deciding" => <<app[x.id].status, x.target>> \in Transitions
    /\ x.step = "applicationFound" /\ x.id # 0 => app[x.id].status = "approved"
    /\ x.step = "balanceChecked" => consumed[x.category] < allocated[x.category]
    /\ x.step = "autoApproving" => \A i \in x.ids : app[i].status = "pending"

\* AppliedOncePerDay without counting.
Once ==
    \A i, j \in Apps :
        /\ Live(i) /\ app[i].origin # "regularized"
        /\ Live(j) /\ app[j].origin # "regularized"
        /\ app[i].category = app[j].category /\ app[i].date = app[j].date
        => i = j

LedgerInv ==
    /\ TypeInv
    /\ \A r \in Requests : Fresh(req[r])
    /\ ConsumedCoversLive /\ LiveWithinAllocated /\ Once

-----------------------------------------------------------------------------
(* Types.                                                                  *)

LEMMA Bounds ==
    /\ LastDay \in Nat /\ LastDay >= 1 /\ MonthLength \in Nat /\ MonthLength >= 1
    /\ MaxApps \in Nat /\ MaxAllocated \in Nat
BY LeaveAssumption

LEMMA CallFields ==
    ASSUME NEW x \in Calls
    PROVE  /\ x.step \in {"applying", "exhausted"} => x \in ApplyCall
           /\ x.step = "deciding" => x \in DecideCall
           /\ x.step \in {"dayRead", "applicationFound"} => x \in RevertCall
           /\ x.step \in {"forcing", "balanceChecked"} => x \in ForceCall
           /\ x.step = "autoApproving" => x \in CronCall
           /\ x.step = "entering" => x \in EntryCall
BY DEF Calls, ApplyCall, DecideCall, RevertCall, ForceCall, CronCall, EntryCall, Idle

\* The table of applications.
LEMMA AppFacts ==
    ASSUME TypeOK
    PROVE  /\ Len(app) \in 0..MaxApps /\ Apps = 1..Len(app)
           /\ app \in [Apps -> Row]
           /\ \A i \in Apps : i \in 1..MaxApps /\ app[i] \in Row
<1>1. app \in Seq(Row) /\ Len(app) <= MaxApps
  BY DEF TypeOK
<1>2. Len(app) \in Nat /\ DOMAIN app = 1..Len(app) /\ app \in [1..Len(app) -> Row]
  BY <1>1, LenProperties
<1> QED
  BY <1>1, <1>2, Bounds DEF Apps

LEMMA ReqFacts ==
    ASSUME TypeInv, NEW r \in Requests
    PROVE  req[r] \in Calls /\ Refers(req[r]) /\ req \in [Requests -> Calls]
BY DEF TypeInv, TypeOK, Calls

\* A request takes or replaces what it has read; the tables stay.
LEMMA ReadTypes ==
    ASSUME TypeInv, NEW r \in Requests, NEW e \in Calls, Refers(e),
           req' = [req EXCEPT ![r] = e],
           UNCHANGED <<today, app, consumed, allocated, attendance>>
    PROVE  /\ TypeInv'
           /\ req'[r] = e /\ \A s \in Requests : s # r => req'[s] = req[s]
<1>1. req \in [Requests -> Calls]
  BY DEF TypeInv, TypeOK, Calls
<1>2. req' \in [Requests -> Calls] /\ req'[r] = e /\ \A s \in Requests : s # r => req'[s] = req[s]
  BY <1>1
<1>3. \A s \in Requests : Refers(req[s])'
  <2> SUFFICES ASSUME NEW s \in Requests PROVE Refers(req[s])'
    OBVIOUS
  <2>1. CASE s = r
    BY <1>2, <2>1 DEF Refers, Apps
  <2>2. CASE s # r
    BY <1>2, <2>2 DEF TypeInv, Refers, Apps
  <2> QED
    BY <2>1, <2>2
<1>4. TypeOK'
  BY <1>2 DEF TypeInv, TypeOK, Calls
<1> QED
  BY <1>2, <1>3, <1>4 DEF TypeInv

\* A request is answered with a write.
LEMMA AnswerTypes ==
    ASSUME TypeInv, NEW r \in Requests, Answer(r), UNCHANGED <<today, allocated>>,
           app' \in Seq(Row), Len(app) <= Len(app'), Len(app') <= MaxApps,
           consumed' \in [Categories -> Nat], attendance' \in [Days -> Day]
    PROVE  /\ TypeInv'
           /\ req'[r] = Idle /\ \A s \in Requests : s # r => req'[s] = req[s]
<1>1. req \in [Requests -> Calls]
  BY DEF TypeInv, TypeOK, Calls
<1>2. /\ req' \in [Requests -> Calls] /\ req'[r] = Idle
      /\ \A s \in Requests : s # r => req'[s] = req[s]
  BY <1>1 DEF Answer, Calls
<1>3. Apps \subseteq Apps'
  <2>1. Apps = 1..Len(app) /\ Len(app) \in Nat
    BY AppFacts DEF TypeInv
  <2>2. Apps' = 1..Len(app') /\ Len(app') \in Nat
    BY LenProperties DEF Apps
  <2> QED
    BY <2>1, <2>2
<1>4. \A s \in Requests : Refers(req[s])'
  <2> SUFFICES ASSUME NEW s \in Requests PROVE Refers(req[s])'
    OBVIOUS
  <2>1. CASE s = r
    BY <1>2, <2>1 DEF Refers, Idle
  <2>2. CASE s # r
    <3>1. Refers(req[s]) /\ req'[s] = req[s]
      BY <1>2, <2>2 DEF TypeInv
    <3> QED
      BY <1>3, <3>1 DEF Refers
  <2> QED
    BY <2>1, <2>2
<1>5. TypeOK'
  BY <1>2 DEF TypeInv, TypeOK, Calls
<1> QED
  BY <1>2, <1>4, <1>5 DEF TypeInv
-----------------------------------------------------------------------------
(* What a transaction does to the table of applications.                   *)

\* Rows change their status and nothing else.
Restated ==
    /\ app' \in Seq(Row) /\ Len(app') = Len(app) /\ Apps' = Apps
    /\ \A j \in Apps : /\ app'[j].category = app[j].category /\ app'[j].date = app[j].date
                       /\ app'[j].origin = app[j].origin

LEMMA OneStatus ==
    ASSUME TypeOK, NEW i \in Apps, NEW status \in Status,
           app' = [app EXCEPT ![i].status = status]
    PROVE  /\ Restated
           /\ app'[i].status = status
           /\ \A j \in Apps : j # i => app'[j] = app[j]
<1>1. app \in Seq(Row) /\ Apps = 1..Len(app) /\ Len(app) \in Nat
  BY AppFacts DEF TypeOK
<1>2. PICK x : x = app[i] /\ x \in Row
  BY AppFacts
<1>3. PICK e : e = [x EXCEPT !.status = status]
  OBVIOUS
<1>4. /\ e \in Row /\ e.status = status /\ e.category = x.category /\ e.date = x.date
      /\ e.origin = x.origin
  BY <1>2, <1>3 DEF Row
<1>5. app' = [app EXCEPT ![i] = e]
  BY <1>2, <1>3
<1>6. /\ app' \in Seq(Row) /\ Len(app') = Len(app)
      /\ \A j \in 1..Len(app) : app'[j] = IF j = i THEN e ELSE app[j]
  BY <1>1, <1>4, <1>5, ExceptSeq
<1>7. Apps' = Apps
  BY <1>1, <1>6, LenProperties DEF Apps
<1> QED
  BY <1>1, <1>2, <1>4, <1>6, <1>7 DEF Restated

LEMMA ManyStatus ==
    ASSUME TypeOK, NEW S, S \subseteq Apps,
           app' = [i \in Apps |-> IF i \in S THEN [app[i] EXCEPT !.status = "approved"] ELSE app[i]]
    PROVE  /\ Restated
           /\ \A j \in S : app'[j].status = "approved"
           /\ \A j \in Apps \ S : app'[j] = app[j]
<1>1. Apps = 1..Len(app) /\ Len(app) \in Nat
  BY AppFacts
<1>2. ASSUME NEW j \in Apps
      PROVE  /\ app'[j] \in Row /\ app'[j].category = app[j].category
             /\ app'[j].date = app[j].date /\ app'[j].origin = app[j].origin
             /\ j \in S => app'[j].status = "approved"
             /\ j \notin S => app'[j] = app[j]
  <2>1. PICK x : x = app[j] /\ x \in Row
    BY AppFacts
  <2>2. PICK e : e = [x EXCEPT !.status = "approved"]
    OBVIOUS
  <2>3. /\ e \in Row /\ e.status = "approved" /\ e.category = x.category /\ e.date = x.date
        /\ e.origin = x.origin
    BY <2>1, <2>2 DEF Row, Status
  <2>4. app'[j] = IF j \in S THEN e ELSE x
    BY <2>1, <2>2
  <2> QED
    BY <2>1, <2>3, <2>4
<1>3. app' \in [1..Len(app) -> Row]
  BY <1>1, <1>2
<1>4. app' \in Seq(Row)
  BY <1>1, <1>3, SeqDef
<1>5. DOMAIN app' = 1..Len(app) /\ DOMAIN app' = 1..Len(app') /\ Len(app') \in Nat
  BY <1>3, <1>4, LenProperties
<1>6. Len(app') = Len(app) /\ Apps' = Apps
  BY <1>1, <1>5 DEF Apps
<1> QED
  BY <1>2, <1>4, <1>6 DEF Restated

\* The days applied for, one row each.
LEMMA RowsApplied ==
    ASSUME TypeInv, NEW r \in Requests, CommitApply(r), NEW n, n = req[r].to - req[r].from + 1
    PROVE  /\ n \in Nat /\ n >= 1
           /\ app' \in Seq(Row) /\ Len(app') = Len(app) + n /\ Len(app') <= MaxApps
           /\ \A i \in 1..Len(app) : app'[i] = app[i]
           /\ \A i \in (Len(app) + 1)..(Len(app) + n) :
                /\ app'[i].category = req[r].category
                /\ app'[i].date = req[r].from + (i - Len(app)) - 1
                /\ app'[i].status \in {"pending", "approved"}
<1> PICK x : x = req[r]
  OBVIOUS
<1>1. x \in ApplyCall /\ x.from <= x.to
  <2>1. x \in Calls /\ Refers(x) /\ x.step = "applying"
    BY ReqFacts DEF CommitApply
  <2> QED
    BY <2>1, CallFields DEF Refers
<1>2. /\ x.from \in 1..LastDay /\ x.to \in 1..LastDay /\ LastDay \in Nat
      /\ x.category \in Categories /\ x.origin \in {"self", "forced"}
  BY <1>1, Bounds DEF ApplyCall, Days
<1>3. n = x.to - x.from + 1 /\ n \in Nat /\ n >= 1
  BY <1>1, <1>2
<1>4. PICK st \in {"pending", "approved"} : st = IF x.origin = "self" THEN "pending" ELSE "approved"
  OBVIOUS
<1>5. PICK new : new = [k \in 1..n |-> [category |-> x.category, date |-> x.from + k - 1,
                                       status |-> st, origin |-> x.origin]]
  OBVIOUS
<1>6. ASSUME NEW k \in 1..n
      PROVE  /\ new[k] \in Row /\ new[k].category = x.category
             /\ new[k].date = x.from + k - 1 /\ new[k].status = st
  <2>1. x.from + k - 1 \in Days
    BY <1>2, <1>3 DEF Days
  <2> QED
    BY <1>2, <1>4, <1>5, <2>1 DEF Row, Status, Origin
<1>7. new \in [1..n -> Row]
  BY <1>5, <1>6
<1>8. new \in Seq(Row)
  BY <1>3, <1>7, SeqDef
<1>9. Len(new) = n
  <2>1. DOMAIN new = 1..n /\ DOMAIN new = 1..Len(new) /\ Len(new) \in Nat
    BY <1>7, <1>8, LenProperties
  <2> QED
    BY <1>3, <2>1
<1>10. app' = app \o new
  BY <1>3, <1>4, <1>5 DEF CommitApply
<1>11. app \in Seq(Row) /\ Len(app) \in Nat
  BY AppFacts DEF TypeInv, TypeOK
<1>12. /\ app' \in Seq(Row) /\ Len(app') = Len(app) + n
       /\ \A i \in 1..(Len(app) + n) : app'[i] = IF i <= Len(app) THEN app[i] ELSE new[i - Len(app)]
  BY <1>8, <1>9, <1>10, <1>11, ConcatProperties
<1>13. Len(app') <= MaxApps
  BY <1>2, <1>3, <1>11, <1>12, Bounds DEF CommitApply
<1>14. ASSUME NEW i \in 1..Len(app)
       PROVE  app'[i] = app[i]
  <2>1. i \in 1..(Len(app) + n) /\ i <= Len(app)
    BY <1>3, <1>11
  <2> QED
    BY <1>12, <2>1
<1>15. ASSUME NEW i \in (Len(app) + 1)..(Len(app) + n)
       PROVE  /\ app'[i].category = x.category
              /\ app'[i].date = x.from + (i - Len(app)) - 1
              /\ app'[i].status \in {"pending", "approved"}
  <2>1. i \in 1..(Len(app) + n) /\ ~(i <= Len(app)) /\ i - Len(app) \in 1..n
    BY <1>3, <1>11
  <2>2. app'[i] = new[i - Len(app)]
    BY <1>12, <2>1
  <2> QED
    BY <1>6, <2>1, <2>2
<1> QED
  BY <1>3, <1>12, <1>13, <1>14, <1>15
-----------------------------------------------------------------------------
(* How many applications are live.                                         *)

LEMMA LiveFinite ==
    ASSUME TypeOK, NEW c
    PROVE  /\ LiveApps(c) \subseteq Apps
           /\ IsFiniteSet(LiveApps(c)) /\ Cardinality(LiveApps(c)) \in Nat
<1>1. Apps = 1..Len(app) /\ Len(app) \in Nat
  BY AppFacts
<1>2. IsFiniteSet(Apps)
  BY <1>1, FS_Interval
<1>3. LiveApps(c) \in SUBSET Apps
  BY DEF LiveApps
<1> QED
  BY <1>2, <1>3, FS_Subset, FS_CardinalityType

\* A decision brings no application to life, and takes those it ends.
LEMMA LiveLess ==
    ASSUME TypeOK, Restated, \A j \in Apps : Live(j)' => Live(j), NEW c
    PROVE  /\ Cardinality(LiveApps(c)') \in Nat
           /\ Cardinality(LiveApps(c)') <= Cardinality(LiveApps(c))
           /\ \A i \in LiveApps(c) : ~Live(i)'
                => Cardinality(LiveApps(c)') + 1 <= Cardinality(LiveApps(c))
<1>1. LiveApps(c)' \subseteq LiveApps(c)
  BY DEF LiveApps, Restated
<1>2. /\ IsFiniteSet(LiveApps(c)') /\ Cardinality(LiveApps(c)') \in Nat
      /\ Cardinality(LiveApps(c)') <= Cardinality(LiveApps(c))
  BY <1>1, LiveFinite, FS_Subset, FS_CardinalityType
<1>3. ASSUME NEW i \in LiveApps(c), ~Live(i)'
      PROVE  Cardinality(LiveApps(c)') + 1 <= Cardinality(LiveApps(c))
  <2>1. LiveApps(c)' \subseteq LiveApps(c) \ {i}
    BY <1>1, <1>3 DEF LiveApps
  <2>2. /\ IsFiniteSet(LiveApps(c) \ {i})
        /\ Cardinality(LiveApps(c) \ {i}) = Cardinality(LiveApps(c)) - 1
    BY <1>3, LiveFinite, FS_RemoveElement
  <2>3. Cardinality(LiveApps(c)') <= Cardinality(LiveApps(c) \ {i})
    BY <2>1, <2>2, FS_Subset
  <2> QED
    BY <1>2, <2>2, <2>3, LiveFinite
<1> QED
  BY <1>2, <1>3

\* n rows of category c, all of them live, go to the end of the table.
Appended(n, c) ==
    /\ app' \in Seq(Row) /\ Len(app') = Len(app) + n
    /\ \A i \in 1..Len(app) : app'[i] = app[i]
    /\ \A i \in (Len(app) + 1)..(Len(app) + n) :
         app'[i].category = c /\ app'[i].status \in {"pending", "approved"}

LEMMA LiveMore ==
    ASSUME TypeOK, NEW n \in Nat, NEW c, Appended(n, c)
    PROVE  /\ Cardinality(LiveApps(c)') = Cardinality(LiveApps(c)) + n
           /\ \A d : d # c => LiveApps(d)' = LiveApps(d)
<1>1. Apps = 1..Len(app) /\ Len(app) \in Nat
  BY AppFacts
<1>2. Apps' = 1..(Len(app) + n)
  BY LenProperties DEF Appended, Apps
<1>3. PICK len \in Nat : len = Len(app)
  BY <1>1
<1>4. Apps = 1..len /\ Apps' = 1..(len + n)
  BY <1>1, <1>2, <1>3
<1>5. /\ \A i \in 1..len : app'[i] = app[i]
      /\ \A i \in (len + 1)..(len + n) :
           app'[i].category = c /\ app'[i].status \in {"pending", "approved"}
  BY <1>3 DEF Appended
<1>6. ASSUME NEW d PROVE LiveApps(d)' = {i \in 1..(len + n) : app'[i].category = d /\ Live(i)'}
  BY <1>4 DEF LiveApps
<1>7. LiveApps(c)' = LiveApps(c) \cup ((len + 1)..(len + n))
  BY <1>4, <1>5, <1>6 DEF LiveApps, Live
<1>8. \A d : d # c => LiveApps(d)' = LiveApps(d)
  BY <1>4, <1>5, <1>6 DEF LiveApps, Live
<1>9. LiveApps(c) \cap ((len + 1)..(len + n)) = {}
  BY <1>4, LiveFinite
<1>10. IsFiniteSet((len + 1)..(len + n)) /\ Cardinality((len + 1)..(len + n)) = n
  BY FS_Interval
<1>11. Cardinality(LiveApps(c)') = Cardinality(LiveApps(c)) + n - Cardinality({})
  BY <1>7, <1>9, <1>10, LiveFinite, FS_Union
<1> QED
  BY <1>8, <1>11, LiveFinite, FS_EmptySet
-----------------------------------------------------------------------------
(* Reads: what a request has learnt is true when it learns it.             *)

\* The request goes on with e, which refers to what is there and is as fresh
\* as what the request knew before.
Learns(r, e) ==
    /\ req' = [req EXCEPT ![r] = e]
    /\ Refers(e) /\ (Fresh(req[r]) => Fresh(e))

LEMMA LearnHolds ==
    ASSUME TypeInv, NEW r \in Requests, \E e \in Calls : Learns(r, e),
           UNCHANGED <<today, app, consumed, allocated, attendance>>
    PROVE  TypeInv' /\ (LedgerInv => LedgerInv')
<1>1. PICK e \in Calls : Learns(r, e)
  OBVIOUS
<1>2. TypeInv' /\ req'[r] = e /\ \A s \in Requests : s # r => req'[s] = req[s]
  BY <1>1, ReadTypes DEF Learns
<1>3. ASSUME LedgerInv PROVE LedgerInv'
  <2>1. \A c, d : LiveOn(c, d)' = LiveOn(c, d) /\ LiveApps(c)' = LiveApps(c)
    BY DEF LiveOn, LiveApps, Live, Apps
  <2>2. Fresh(e) /\ \A s \in Requests : Fresh(req[s])
    BY <1>1, <1>3 DEF LedgerInv, Learns
  <2>3. \A s \in Requests : Fresh(req[s])'
    <3> SUFFICES ASSUME NEW s \in Requests PROVE Fresh(req[s])'
      OBVIOUS
    <3>1. CASE s = r
      BY <1>2, <2>1, <2>2, <3>1 DEF Fresh
    <3>2. CASE s # r
      <4>1. Fresh(req[s]) /\ req'[s] = req[s]
        BY <1>2, <2>2, <3>2
      <4> QED
        BY <2>1, <4>1 DEF Fresh
    <3> QED
      BY <3>1, <3>2
  <2>4. ConsumedCoversLive' /\ LiveWithinAllocated'
    BY <1>3, <2>1 DEF LedgerInv, ConsumedCoversLive, LiveWithinAllocated
  <2>5. Once'
    BY <1>3 DEF LedgerInv, Once, Live, Apps
  <2> QED
    BY <1>2, <2>3, <2>4, <2>5 DEF LedgerInv
<1> QED
  BY <1>2, <1>3

LEMMA ReadBalanceHolds ==
    ASSUME TypeInv, NEW r \in Requests, NEW origin \in {"self", "forced"},
           NEW c \in Categories, NEW from \in Days, NEW to \in Days,
           ReadBalance(r, origin, c, from, to)
    PROVE  TypeInv' /\ (LedgerInv => LedgerInv')
<1>1. from <= to /\ from \in 1..LastDay /\ to \in 1..LastDay /\ LastDay \in Nat
  BY Bounds DEF ReadBalance, MayApply, Days
<1>2. consumed[c] \in Nat /\ allocated[c] \in Nat
  BY Bounds DEF TypeInv, TypeOK
<1>3. PICK st \in {"applying", "exhausted"} :
        /\ req' = [req EXCEPT ![r] =
             [step |-> st, origin |-> origin, category |-> c, from |-> from, to |-> to,
              next |-> from, consumed |-> consumed[c]]]
        /\ st = "applying" => Enough(c, to - from + 1)
  <2>1. CASE Enough(c, to - from + 1)
    BY <2>1 DEF ReadBalance
  <2>2. CASE ~Enough(c, to - from + 1)
    BY <2>2 DEF ReadBalance
  <2> QED
    BY <2>1, <2>2
<1>4. PICK e : e = [step |-> st, origin |-> origin, category |-> c, from |-> from, to |-> to,
                    next |-> from, consumed |-> consumed[c]]
  OBVIOUS
<1>5. /\ e \in ApplyCall /\ e.step = st /\ e.category = c /\ e.from = from /\ e.to = to
      /\ e.next = from /\ e.consumed = consumed[c]
  BY <1>1, <1>2, <1>4 DEF ApplyCall, Days
<1>6. Refers(e)
  BY <1>1, <1>5 DEF Refers
<1>7. Fresh(e)
  <2>1. st = "applying" => consumed[c] + (to - from + 1) <= allocated[c]
    BY <1>1, <1>2, <1>3 DEF Enough, Available
  <2>2. \A d \in Days : ~(from <= d /\ d < from)
    BY <1>1 DEF Days
  <2> QED
    BY <1>5, <2>1, <2>2 DEF Fresh
<1>8. e \in Calls /\ Learns(r, e)
  BY <1>3, <1>4, <1>5, <1>6, <1>7 DEF Learns, Calls
<1> QED
  BY <1>8, LearnHolds DEF ReadBalance

LEMMA CheckedHolds ==
    ASSUME TypeInv, NEW r \in Requests, CheckNextDate(r), ~Answer(r)
    PROVE  TypeInv' /\ (LedgerInv => LedgerInv')
<1>1. PICK x : x = req[r]
  OBVIOUS
<1>2. x \in ApplyCall /\ x.step = "applying" /\ Refers(x) /\ x.next <= x.to
  BY <1>1, ReqFacts, CallFields DEF CheckNextDate
<1>3. /\ x.from \in 1..LastDay /\ x.to \in 1..LastDay /\ LastDay \in Nat
      /\ x.next \in 1..(LastDay + 1)
  BY <1>2, Bounds DEF ApplyCall, Days
<1>4. PICK n \in 1..(LastDay + 1) : n = x.next + 1
  BY <1>2, <1>3
<1>5. PICK e : e = [x EXCEPT !.next = n]
  OBVIOUS
<1>6. /\ e \in ApplyCall /\ e.step = "applying" /\ e.category = x.category /\ e.from = x.from
      /\ e.to = x.to /\ e.next = n /\ e.consumed = x.consumed
  BY <1>2, <1>5 DEF ApplyCall
<1>7. req' = [req EXCEPT ![r] = e]
  BY <1>1, <1>4, <1>5, ReqFacts DEF CheckNextDate
<1>8. Refers(e)
  BY <1>2, <1>3, <1>4, <1>6 DEF Refers
<1>9. ASSUME Fresh(x) PROVE Fresh(e)
  <2>1. LiveOn(x.category, x.next) = {}
    BY <1>1 DEF CheckNextDate
  <2>2. \A d \in Days : d < n => d < x.next \/ d = x.next
    BY <1>3, <1>4 DEF Days
  <2>3. \A d \in Days : x.from <= d /\ d < n => LiveOn(x.category, d) = {}
    BY <1>2, <1>9, <2>1, <2>2 DEF Fresh
  <2> QED
    BY <1>2, <1>6, <1>9, <2>3 DEF Fresh
<1>10. e \in Calls /\ Learns(r, e)
  BY <1>1, <1>6, <1>7, <1>8, <1>9 DEF Learns, Calls
<1> QED
  BY <1>10, LearnHolds DEF CheckNextDate

LEMMA ReadApplicationHolds ==
    ASSUME TypeInv, NEW r \in Requests, NEW i \in Apps, NEW target \in Status,
           ReadApplication(r, i, target)
    PROVE  TypeInv' /\ (LedgerInv => LedgerInv')
<1>1. PICK day \in {"work", "none"} :
        req' = [req EXCEPT ![r] = [step |-> "deciding", id |-> i, target |-> target, day |-> day]]
  <2>1. CASE app[i].date <= today
    BY <2>1 DEF ReadApplication
  <2>2. CASE ~(app[i].date <= today)
    BY <2>2 DEF ReadApplication
  <2> QED
    BY <2>1, <2>2
<1>2. PICK e : e = [step |-> "deciding", id |-> i, target |-> target, day |-> day]
  OBVIOUS
<1>3. i \in 1..MaxApps
  BY AppFacts DEF TypeInv
<1>4. e \in DecideCall /\ e.step = "deciding" /\ e.id = i /\ e.target = target
  BY <1>2, <1>3 DEF DecideCall
<1>5. Refers(e) /\ Fresh(e)
  BY <1>4 DEF Refers, Fresh, ReadApplication
<1>6. e \in Calls /\ Learns(r, e)
  BY <1>1, <1>2, <1>4, <1>5 DEF Learns, Calls
<1> QED
  BY <1>6, LearnHolds DEF ReadApplication

LEMMA ReadDayHolds ==
    ASSUME TypeInv, NEW r \in Requests,
           \/ \E d \in Days, target \in {"work", "holiday"} : ReadLeaveDay(r, d, target)
           \/ \E d \in Days, c \in Categories : ReadWorkDay(r, d, c)
    PROVE  TypeInv' /\ (LedgerInv => LedgerInv')
<1>1. ASSUME NEW d \in Days, NEW target \in {"work", "holiday"}, ReadLeaveDay(r, d, target)
      PROVE  \E e \in Calls : Learns(r, e)
  <2>1. PICK e : e = [step |-> "dayRead", date |-> d, target |-> target, id |-> 0]
    OBVIOUS
  <2>2. e \in RevertCall /\ e.step = "dayRead"
    BY <2>1, Bounds DEF RevertCall
  <2>3. Refers(e) /\ Fresh(e)
    BY <2>2 DEF Refers, Fresh
  <2> QED
    BY <1>1, <2>1, <2>2, <2>3 DEF ReadLeaveDay, Learns, Calls
<1>2. ASSUME NEW d \in Days, NEW c \in Categories, ReadWorkDay(r, d, c)
      PROVE  \E e \in Calls : Learns(r, e)
  <2>1. PICK e : e = [step |-> "forcing", date |-> d, category |-> c]
    OBVIOUS
  <2>2. e \in ForceCall /\ e.step = "forcing"
    BY <2>1 DEF ForceCall
  <2>3. Refers(e) /\ Fresh(e)
    BY <2>2 DEF Refers, Fresh
  <2> QED
    BY <1>2, <2>1, <2>2, <2>3 DEF ReadWorkDay, Learns, Calls
<1> QED
  BY <1>1, <1>2, LearnHolds DEF ReadLeaveDay, ReadWorkDay

LEMMA FindApplicationHolds ==
    ASSUME TypeInv, NEW r \in Requests, FindApplication(r)
    PROVE  TypeInv' /\ (LedgerInv => LedgerInv')
<1>1. PICK x : x = req[r]
  OBVIOUS
<1>2. x \in RevertCall
  BY <1>1, ReqFacts, CallFields DEF FindApplication
<1>3. PICK i : /\ i = 0 \/ (i \in Apps /\ app[i].status = "approved")
               /\ req' = [req EXCEPT ![r].step = "applicationFound", ![r].id = i]
  <2> DEFINE found == {i \in Apps : app[i].status = "approved" /\ app[i].date = req[r].date}
  <2>1. PICK i \in IF found = {} THEN {0} ELSE found :
          req' = [req EXCEPT ![r].step = "applicationFound", ![r].id = i]
    BY DEF FindApplication
  <2> QED
    BY <2>1
<1>4. i \in 0..MaxApps
  BY <1>3, AppFacts, Bounds DEF TypeInv
<1>5. PICK e : e = [x EXCEPT !.step = "applicationFound", !.id = i]
  OBVIOUS
<1>6. e \in RevertCall /\ e.step = "applicationFound" /\ e.id = i
  BY <1>2, <1>4, <1>5 DEF RevertCall
<1>7. req' = [req EXCEPT ![r] = e]
  BY <1>1, <1>3, <1>5, ReqFacts
<1>8. Refers(e) /\ Fresh(e)
  BY <1>3, <1>6 DEF Refers, Fresh
<1>9. e \in Calls /\ Learns(r, e)
  BY <1>6, <1>7, <1>8 DEF Learns, Calls
<1> QED
  BY <1>9, LearnHolds DEF FindApplication

LEMMA BalanceCheckedHolds ==
    ASSUME TypeInv, NEW r \in Requests, CheckBalance(r), ~Answer(r)
    PROVE  TypeInv' /\ (LedgerInv => LedgerInv')
<1>1. PICK x : x = req[r]
  OBVIOUS
<1>2. x \in ForceCall
  BY <1>1, ReqFacts, CallFields DEF CheckBalance
<1>3. PICK e : e = [x EXCEPT !.step = "balanceChecked"]
  OBVIOUS
<1>4. e \in ForceCall /\ e.step = "balanceChecked" /\ e.category = x.category
  BY <1>2, <1>3 DEF ForceCall
<1>5. req' = [req EXCEPT ![r] = e]
  BY <1>1, <1>3, ReqFacts DEF CheckBalance
<1>6. consumed[x.category] < allocated[x.category]
  <2>1. consumed[x.category] \in Nat /\ allocated[x.category] \in Nat
    BY <1>2, Bounds DEF ForceCall, TypeInv, TypeOK
  <2> QED
    BY <1>1, <2>1 DEF CheckBalance, Available
<1>7. Refers(e) /\ Fresh(e)
  BY <1>4, <1>6 DEF Refers, Fresh
<1>8. e \in Calls /\ Learns(r, e)
  BY <1>4, <1>5, <1>7 DEF Learns, Calls
<1> QED
  BY <1>8, LearnHolds DEF CheckBalance

LEMMA CronReadHolds ==
    ASSUME TypeInv, NEW r \in Requests, ReadPending(r) \/ ReadForEntry(r)
    PROVE  TypeInv' /\ (LedgerInv => LedgerInv')
<1>1. CASE ReadPending(r)
  <2>1. PICK ids : /\ ids = {i \in Apps : app[i].status = "pending"
                                             /\ MonthOf(app[i].date) = MonthOf(today) - 1}
                   /\ req' = [req EXCEPT ![r] = [step |-> "autoApproving", ids |-> ids]]
    BY <1>1 DEF ReadPending
  <2>2. PICK e : e = [step |-> "autoApproving", ids |-> ids]
    OBVIOUS
  <2>3. ids \subseteq Apps /\ ids \subseteq 1..MaxApps /\ \A i \in ids : app[i].status = "pending"
    BY <2>1, AppFacts DEF TypeInv
  <2>4. e \in CronCall /\ e.step = "autoApproving" /\ e.ids = ids
    BY <2>2, <2>3 DEF CronCall
  <2>5. Refers(e) /\ Fresh(e)
    BY <2>3, <2>4 DEF Refers, Fresh
  <2>6. e \in Calls /\ Learns(r, e)
    BY <2>1, <2>2, <2>4, <2>5 DEF Learns, Calls
  <2> QED
    BY <1>1, <2>6, LearnHolds DEF ReadPending
<1>2. CASE ReadForEntry(r)
  <2>1. PICK st \in Day :
          req' = [req EXCEPT ![r] = [step |-> "entering", date |-> today, status |-> st]]
    <3>1. CASE today \in Holidays
      BY <1>2, <3>1 DEF ReadForEntry, Day
    <3>2. CASE today \notin Holidays /\ \E c \in Categories : LiveOn(c, today) # {}
      BY <1>2, <3>2 DEF ReadForEntry, Day
    <3>3. CASE today \notin Holidays /\ ~\E c \in Categories : LiveOn(c, today) # {}
      BY <1>2, <3>3 DEF ReadForEntry, Day
    <3> QED
      BY <3>1, <3>2, <3>3
  <2>2. PICK e : e = [step |-> "entering", date |-> today, status |-> st]
    OBVIOUS
  <2>3. e \in EntryCall /\ e.step = "entering"
    BY <2>2 DEF EntryCall, TypeInv, TypeOK
  <2>4. Refers(e) /\ Fresh(e)
    BY <2>3 DEF Refers, Fresh
  <2>5. e \in Calls /\ Learns(r, e)
    BY <2>1, <2>2, <2>3, <2>4 DEF Learns, Calls
  <2> QED
    BY <1>2, <2>5, LearnHolds DEF ReadForEntry
<1> QED
  BY <1>1, <1>2
-----------------------------------------------------------------------------
(* Answers: a request ends, with a transaction or without.                 *)

LEMMA AnswerHolds ==
    ASSUME TypeInv, NEW r \in Requests, req[r] # Idle, Answer(r),
           UNCHANGED <<today, allocated>>,
           app' \in Seq(Row), Len(app) <= Len(app'), Len(app') <= MaxApps,
           consumed' \in [Categories -> Nat], attendance' \in [Days -> Day],
           LedgerInv => ConsumedCoversLive' /\ LiveWithinAllocated' /\ Once'
    PROVE  TypeInv' /\ (LedgerInv /\ Alone => LedgerInv')
<1>1. TypeInv' /\ req'[r] = Idle /\ \A s \in Requests : s # r => req'[s] = req[s]
  BY AnswerTypes
<1>2. ASSUME LedgerInv, Alone PROVE LedgerInv'
  <2>1. \A s \in Requests : req'[s] = Idle
    BY <1>1, <1>2 DEF Alone
  <2>2. \A s \in Requests : Fresh(req[s])'
    BY <2>1 DEF Fresh, Idle
  <2> QED
    BY <1>1, <1>2, <2>2 DEF LedgerInv
<1> QED
  BY <1>1, <1>2

LEMMA AnswerOnlyHolds ==
    ASSUME TypeInv, NEW r \in Requests, req[r] # Idle, Answer(r),
           UNCHANGED <<today, allocated, app, consumed>>, attendance' \in [Days -> Day]
    PROVE  TypeInv' /\ (LedgerInv /\ Alone => LedgerInv')
<1>1. LedgerInv => ConsumedCoversLive' /\ LiveWithinAllocated' /\ Once'
  BY DEF LedgerInv, ConsumedCoversLive, LiveWithinAllocated, Once, LiveApps, Live, Apps
<1>2. app' \in Seq(Row) /\ Len(app) <= Len(app') /\ Len(app') <= MaxApps
      /\ consumed' \in [Categories -> Nat]
  BY AppFacts, Bounds DEF TypeInv, TypeOK
<1> QED
  BY <1>1, <1>2, AnswerHolds

LEMMA RefusedHolds ==
    ASSUME TypeInv, NEW r \in Requests,
           \/ AnswerExhausted(r)
           \/ CheckNextDate(r) /\ Answer(r)
           \/ CheckBalance(r) /\ Answer(r)
           \/ CommitEntry(r)
    PROVE  TypeInv' /\ (LedgerInv /\ Alone => LedgerInv')
<1>1. req[r] # Idle /\ Answer(r) /\ UNCHANGED <<today, allocated, app, consumed>>
  BY DEF AnswerExhausted, CheckNextDate, CheckBalance, CommitEntry, Idle
<1>2. attendance' \in [Days -> Day]
  <2>1. CASE CommitEntry(r)
    <3>1. req[r] \in EntryCall
      BY <2>1, ReqFacts, CallFields DEF CommitEntry
    <3>2. req[r].date \in Days /\ req[r].status \in Day
      BY <3>1 DEF EntryCall
    <3>3. attendance \in [Days -> Day]
          /\ attendance' = [attendance EXCEPT ![req[r].date] = req[r].status]
      BY <2>1 DEF TypeInv, TypeOK, CommitEntry
    <3> QED
      BY <3>2, <3>3
  <2>2. CASE ~CommitEntry(r)
    BY <2>2 DEF TypeInv, TypeOK, AnswerExhausted, CheckNextDate, CheckBalance
  <2> QED
    BY <2>1, <2>2
<1> QED
  BY <1>1, <1>2, AnswerOnlyHolds

LEMMA RestatedOnce ==
    ASSUME Once, Restated, \A j \in Apps : Live(j)' => Live(j)
    PROVE  Once'
BY DEF Once, Restated

\* The approval: the days it gives up are charged, as are those it grants.
LEMMA WriteDecisionHolds ==
    ASSUME TypeInv, NEW r \in Requests, WriteDecision(r)
    PROVE  TypeInv' /\ (LedgerInv /\ Alone => LedgerInv')
<1>1. PICK x : x = req[r]
  OBVIOUS
<1>2. x \in DecideCall /\ x.id \in Apps /\ x.step = "deciding" /\ x # Idle
  BY <1>1, ReqFacts, CallFields DEF WriteDecision, Refers, Idle
<1>3. x.target \in Status /\ TypeOK
  BY <1>2 DEF DecideCall, TypeInv
<1>4. PICK c, d : c = app[x.id].category /\ d = app[x.id].date /\ c \in Categories /\ d \in Days
  BY <1>2, <1>3, AppFacts DEF Row
<1>5. /\ Answer(r) /\ UNCHANGED <<today, allocated>>
      /\ consumed \in [Categories -> Nat] /\ attendance \in [Days -> Day]
  BY <1>3 DEF WriteDecision, TypeOK
<1>6. CASE UNCHANGED <<app, consumed, attendance>>
  BY <1>1, <1>2, <1>5, <1>6, AnswerOnlyHolds
<1>7. CASE /\ app' = [app EXCEPT ![x.id].status = x.target]
           /\ consumed' = ChargeDecision(c, x.target)
           /\ attendance' = attendance \/ attendance' = [attendance EXCEPT ![d] = "work"]
  <2>1. Restated /\ app'[x.id].status = x.target /\ \A j \in Apps : j # x.id => app'[j] = app[j]
    BY <1>2, <1>3, <1>7, OneStatus
  <2>2. attendance' \in [Days -> Day]
    BY <1>5, <1>7 DEF Day
  <2>3. /\ consumed' \in [Categories -> Nat]
        /\ \A b \in Categories : consumed'[b] >= consumed[b]
    BY <1>4, <1>5, <1>7 DEF ChargeDecision
  <2>4. app' \in Seq(Row) /\ Len(app) <= Len(app') /\ Len(app') <= MaxApps
    BY <1>3, <2>1, AppFacts, Bounds DEF Restated
  <2>5. ASSUME LedgerInv PROVE ConsumedCoversLive' /\ LiveWithinAllocated' /\ Once'
    <3>1. <<app[x.id].status, x.target>> \in Transitions
      BY <1>1, <1>2, <2>5 DEF LedgerInv, Fresh
    <3>2. \A j \in Apps : Live(j)' => Live(j)
      BY <2>1, <3>1 DEF Live, Transitions
    <3>3. \A b : Cardinality(LiveApps(b)') \in Nat
                 /\ Cardinality(LiveApps(b)') <= Cardinality(LiveApps(b))
      BY <1>3, <2>1, <3>2, LiveLess
    <3>4. \A b \in Categories : /\ Cardinality(LiveApps(b)) \in Nat
                                /\ consumed[b] \in Nat /\ consumed'[b] \in Nat /\ allocated[b] \in Nat
      BY <1>3, <2>3, LiveFinite, Bounds DEF TypeOK
    <3>5. ConsumedCoversLive'
      BY <2>3, <2>5, <3>3, <3>4 DEF LedgerInv, ConsumedCoversLive
    <3>6. LiveWithinAllocated'
      BY <1>5, <2>5, <3>3, <3>4 DEF LedgerInv, LiveWithinAllocated
    <3> QED
      BY <2>1, <2>5, <3>2, <3>5, <3>6, RestatedOnce DEF LedgerInv
  <2> QED
    BY <1>1, <1>2, <1>5, <2>2, <2>3, <2>4, <2>5, AnswerHolds
<1> QED
  BY <1>1, <1>4, <1>6, <1>7 DEF WriteDecision

\* The regularization away from leave: a day is given back, an application ends.
LEMMA CommitRevertHolds ==
    ASSUME TypeInv, NEW r \in Requests, CommitRevert(r)
    PROVE  TypeInv' /\ (LedgerInv /\ Alone => LedgerInv')
<1>1. PICK x : x = req[r]
  OBVIOUS
<1>2. /\ x \in RevertCall /\ x.id \in Apps \cup {0} /\ x.step = "applicationFound" /\ x # Idle
      /\ TypeOK
  BY <1>1, ReqFacts, CallFields DEF CommitRevert, Refers, Idle, TypeInv
<1>3. /\ Answer(r) /\ UNCHANGED <<today, allocated>>
      /\ consumed \in [Categories -> Nat]
  BY <1>2 DEF CommitRevert, TypeOK
<1>4. attendance' \in [Days -> Day]
  <2>1. attendance' = [attendance EXCEPT ![x.date] = x.target] /\ attendance \in [Days -> Day]
    BY <1>1, <1>2 DEF CommitRevert, TypeOK
  <2>2. x.date \in Days /\ x.target \in Day
    BY <1>2 DEF RevertCall, Day
  <2> QED
    BY <2>1, <2>2
<1>5. CASE x.id = 0
  BY <1>1, <1>2, <1>3, <1>4, <1>5, AnswerOnlyHolds DEF CommitRevert
<1>6. CASE x.id # 0
  <2>1. PICK c \in Categories : c = app[x.id].category
    BY <1>2, <1>6, AppFacts DEF Row
  <2>2. app' = [app EXCEPT ![x.id].status = "cancelled"] /\ consumed' = CreditOneDay(c)
    BY <1>1, <1>6, <2>1 DEF CommitRevert
  <2>3. /\ Restated /\ app'[x.id].status = "cancelled"
        /\ \A j \in Apps : j # x.id => app'[j] = app[j]
    BY <1>2, <1>6, <2>2, OneStatus DEF Status
  <2>4. /\ consumed' \in [Categories -> Nat]
        /\ consumed[c] \in Nat /\ consumed'[c] \in Nat
        /\ consumed'[c] + 1 >= consumed[c]
        /\ \A b \in Categories : b # c => consumed'[b] = consumed[b]
    BY <1>3, <2>1, <2>2 DEF CreditOneDay
  <2>5. app' \in Seq(Row) /\ Len(app) <= Len(app') /\ Len(app') <= MaxApps
    BY <1>2, <2>3, AppFacts, Bounds DEF Restated
  <2>6. ASSUME LedgerInv PROVE ConsumedCoversLive' /\ LiveWithinAllocated' /\ Once'
    <3>1. app[x.id].status = "approved"
      BY <1>1, <1>2, <1>6, <2>6 DEF LedgerInv, Fresh
    <3>2. (\A j \in Apps : Live(j)' => Live(j)) /\ x.id \in LiveApps(c) /\ ~Live(x.id)'
      BY <1>2, <1>6, <2>1, <2>3, <3>1 DEF Live, LiveApps
    <3>3. \A b : Cardinality(LiveApps(b)') \in Nat
                 /\ Cardinality(LiveApps(b)') <= Cardinality(LiveApps(b))
      BY <1>2, <2>3, <3>2, LiveLess
    <3>4. Cardinality(LiveApps(c)') + 1 <= Cardinality(LiveApps(c))
      BY <1>2, <2>3, <3>2, LiveLess
    <3>5. \A b \in Categories : /\ Cardinality(LiveApps(b)) \in Nat
                                /\ consumed[b] \in Nat /\ consumed'[b] \in Nat /\ allocated[b] \in Nat
      BY <1>2, <2>4, LiveFinite, Bounds DEF TypeOK
    <3>6. ConsumedCoversLive'
      <4> SUFFICES ASSUME NEW b \in Categories PROVE consumed'[b] >= Cardinality(LiveApps(b)')
        BY DEF ConsumedCoversLive
      <4>1. consumed[b] >= Cardinality(LiveApps(b))
        BY <2>6 DEF LedgerInv, ConsumedCoversLive
      <4>2. CASE b = c
        BY <2>4, <3>3, <3>4, <3>5, <4>1, <4>2
      <4>3. CASE b # c
        BY <2>4, <3>3, <3>5, <4>1, <4>3
      <4> QED
        BY <4>2, <4>3
    <3>7. LiveWithinAllocated'
      BY <1>3, <2>6, <3>3, <3>5 DEF LedgerInv, LiveWithinAllocated
    <3> QED
      BY <2>3, <2>6, <3>2, <3>6, <3>7, RestatedOnce DEF LedgerInv
  <2> QED
    BY <1>1, <1>2, <1>3, <1>4, <2>4, <2>5, <2>6, AnswerHolds
<1> QED
  BY <1>5, <1>6

\* The auto-approval of what was pending.
LEMMA CommitAutoApproveHolds ==
    ASSUME TypeInv, NEW r \in Requests, CommitAutoApprove(r)
    PROVE  TypeInv' /\ (LedgerInv /\ Alone => LedgerInv')
<1>1. PICK S : S = req[r].ids
  OBVIOUS
<1>2. S \subseteq Apps /\ req[r].step = "autoApproving" /\ req[r] # Idle /\ TypeOK
  BY <1>1, ReqFacts DEF CommitAutoApprove, Refers, Idle, TypeInv
<1>3. /\ Answer(r) /\ UNCHANGED <<today, allocated>>
      /\ consumed' = consumed /\ attendance' = attendance
      /\ consumed \in [Categories -> Nat] /\ attendance \in [Days -> Day]
  BY <1>2 DEF CommitAutoApprove, TypeOK
<1>4. Restated /\ \A j \in Apps \ S : app'[j] = app[j]
  BY <1>1, <1>2, ManyStatus DEF CommitAutoApprove
<1>5. app' \in Seq(Row) /\ Len(app) <= Len(app') /\ Len(app') <= MaxApps
  BY <1>2, <1>4, AppFacts, Bounds DEF Restated
<1>6. ASSUME LedgerInv PROVE ConsumedCoversLive' /\ LiveWithinAllocated' /\ Once'
  <2>1. \A i \in S : app[i].status = "pending"
    BY <1>1, <1>2, <1>6 DEF LedgerInv, Fresh
  <2>2. \A j \in Apps : Live(j)' => Live(j)
    BY <1>4, <2>1 DEF Live
  <2>3. \A b : Cardinality(LiveApps(b)') \in Nat
               /\ Cardinality(LiveApps(b)') <= Cardinality(LiveApps(b))
    BY <1>2, <1>4, <2>2, LiveLess
  <2>4. \A b \in Categories : /\ Cardinality(LiveApps(b)) \in Nat
                              /\ consumed[b] \in Nat /\ allocated[b] \in Nat
    BY <1>2, LiveFinite, Bounds DEF TypeOK
  <2>5. ConsumedCoversLive' /\ LiveWithinAllocated'
    BY <1>3, <1>6, <2>3, <2>4 DEF LedgerInv, ConsumedCoversLive, LiveWithinAllocated
  <2> QED
    BY <1>4, <1>6, <2>2, <2>5, RestatedOnce DEF LedgerInv
<1> QED
  BY <1>2, <1>3, <1>5, <1>6, AnswerHolds
\* n more days are debited for n more rows, which the balance allowed.
LEMMA DebitKeeps ==
    ASSUME TypeOK, LedgerInv, NEW n \in Nat, NEW c \in Categories, Appended(n, c),
           consumed' = [consumed EXCEPT ![c] = consumed[c] + n],
           consumed[c] + n <= allocated[c], allocated' = allocated
    PROVE  ConsumedCoversLive' /\ LiveWithinAllocated'
<1>1. /\ Cardinality(LiveApps(c)') = Cardinality(LiveApps(c)) + n
      /\ \A b : b # c => LiveApps(b)' = LiveApps(b)
  BY LiveMore
<1>2. \A b \in Categories : /\ Cardinality(LiveApps(b)) \in Nat
                            /\ consumed[b] \in Nat /\ allocated[b] \in Nat
                            /\ consumed[b] >= Cardinality(LiveApps(b))
                            /\ Cardinality(LiveApps(b)) <= allocated[b]
  BY LiveFinite, Bounds DEF TypeOK, LedgerInv, ConsumedCoversLive, LiveWithinAllocated
<1>3. consumed'[c] = consumed[c] + n /\ \A b \in Categories : b # c => consumed'[b] = consumed[b]
  BY DEF TypeOK
<1>4. ASSUME NEW b \in Categories
      PROVE  /\ consumed'[b] >= Cardinality(LiveApps(b)')
             /\ Cardinality(LiveApps(b)') <= allocated'[b]
  <2>1. CASE b = c
    BY <1>1, <1>2, <1>3, <2>1
  <2>2. CASE b # c
    BY <1>1, <1>2, <1>3, <2>2
  <2> QED
    BY <2>1, <2>2
<1> QED
  BY <1>4 DEF ConsumedCoversLive, LiveWithinAllocated

LEMMA CommitApplyHolds ==
    ASSUME TypeInv, NEW r \in Requests, CommitApply(r)
    PROVE  TypeInv' /\ (LedgerInv /\ Alone => LedgerInv')
<1>1. PICK x : x = req[r]
  OBVIOUS
<1>2. x \in ApplyCall /\ x.from <= x.to /\ x.step = "applying" /\ x # Idle /\ TypeOK
  BY <1>1, ReqFacts, CallFields DEF CommitApply, Refers, Idle, TypeInv
<1>3. /\ x.from \in 1..LastDay /\ x.to \in 1..LastDay /\ LastDay \in Nat
      /\ x.next \in Nat /\ x.consumed \in Nat /\ x.category \in Categories
  BY <1>2, Bounds DEF ApplyCall, Days
<1>4. PICK n : n = x.to - x.from + 1
  OBVIOUS
<1>5. PICK c : c = x.category
  OBVIOUS
<1>6. PICK len : len = Len(app) /\ len \in Nat
  BY <1>2, AppFacts
<1>7. /\ n \in Nat /\ n >= 1
      /\ app' \in Seq(Row) /\ Len(app') = len + n /\ Len(app') <= MaxApps
      /\ \A i \in 1..len : app'[i] = app[i]
      /\ \A i \in (len + 1)..(len + n) :
           /\ app'[i].category = c /\ app'[i].date = x.from + (i - len) - 1
           /\ app'[i].status \in {"pending", "approved"}
  BY <1>1, <1>4, <1>5, <1>6, RowsApplied
<1>8. Appended(n, c)
  BY <1>6, <1>7 DEF Appended
<1>9. consumed' = [consumed EXCEPT ![c] = x.consumed + n]
  <2>1. x.consumed + x.to - x.from + 1 = x.consumed + n
    BY <1>3, <1>4
  <2> QED
    BY <1>1, <1>5, <2>1 DEF CommitApply, DebitApplied
<1>10. /\ consumed' \in [Categories -> Nat] /\ attendance' \in [Days -> Day]
       /\ Answer(r) /\ UNCHANGED <<today, allocated>>
  BY <1>2, <1>3, <1>5, <1>7, <1>9 DEF TypeOK, CommitApply
<1>11. ASSUME LedgerInv PROVE ConsumedCoversLive' /\ LiveWithinAllocated' /\ Once'
  <2>1. /\ x.consumed = consumed[c] /\ consumed[c] + n <= allocated[c]
        /\ \A d \in Days : x.from <= d /\ d < x.next => LiveOn(c, d) = {}
    BY <1>1, <1>2, <1>4, <1>5, <1>11 DEF LedgerInv, Fresh
  <2>2. ConsumedCoversLive' /\ LiveWithinAllocated'
    BY <1>2, <1>3, <1>5, <1>7, <1>8, <1>9, <1>10, <1>11, <2>1, DebitKeeps
  <2>3. Once'
    <3>1. Apps = 1..len /\ Apps' = 1..(len + n)
      BY <1>2, <1>6, <1>7, AppFacts, LenProperties DEF Apps
    <3>2. x.next > x.to
      BY <1>1 DEF CommitApply
    <3>3. ASSUME NEW i \in 1..len, Live(i), app[i].category = c,
                 x.from <= app[i].date, app[i].date <= x.to
          PROVE  FALSE
      <4>1. app[i].date \in Days
        BY <1>2, <3>1, AppFacts DEF Row
      <4>2. app[i].date < x.next
        BY <1>3, <3>2, <3>3, <4>1 DEF Days
      <4>3. LiveOn(c, app[i].date) = {}
        BY <2>1, <3>3, <4>1, <4>2
      <4> QED
        BY <3>1, <3>3, <4>3 DEF LiveOn, LiveApps
    <3>4. ASSUME NEW i \in 1..len, NEW j \in (len + 1)..(len + n), Live(i)',
                 app'[i].category = app'[j].category, app'[i].date = app'[j].date
          PROVE  FALSE
      <4>1. app'[i] = app[i] /\ Live(i) /\ app[i].category = c
        BY <1>7, <3>4 DEF Live
      <4>2. j - len \in 1..n
        BY <1>6, <1>7
      <4>3. app[i].date = x.from + (j - len) - 1
        BY <1>7, <3>4, <4>1
      <4>4. x.from <= app[i].date /\ app[i].date <= x.to
        BY <1>3, <1>4, <4>2, <4>3
      <4> QED
        BY <3>3, <4>1, <4>4
    <3>5. ASSUME NEW i \in (len + 1)..(len + n), NEW j \in (len + 1)..(len + n),
                 app'[i].date = app'[j].date
          PROVE  i = j
      <4>1. x.from + (i - len) - 1 = x.from + (j - len) - 1
        BY <1>7, <3>5
      <4> QED
        BY <1>3, <1>6, <1>7, <4>1
    <3>6. ASSUME NEW i \in 1..len, NEW j \in 1..len,
                 Live(i)', app'[i].origin # "regularized", Live(j)', app'[j].origin # "regularized",
                 app'[i].category = app'[j].category, app'[i].date = app'[j].date
          PROVE  i = j
      BY <1>7, <1>11, <3>1, <3>6 DEF LedgerInv, Once, Live
    <3>7. \A i \in 1..(len + n) : i \in 1..len \/ i \in (len + 1)..(len + n)
      BY <1>6, <1>7
    <3> QED
      BY <3>1, <3>4, <3>5, <3>6, <3>7 DEF Once
  <2> QED
    BY <2>2, <2>3
<1>12. Len(app) <= Len(app')
  BY <1>6, <1>7
<1> QED
  BY <1>1, <1>2, <1>7, <1>10, <1>11, <1>12, AnswerHolds

LEMMA CommitForceHolds ==
    ASSUME TypeInv, NEW r \in Requests, CommitForce(r)
    PROVE  TypeInv' /\ (LedgerInv /\ Alone => LedgerInv')
<1>1. PICK x : x = req[r]
  OBVIOUS
<1>2. x \in ForceCall /\ x.step = "balanceChecked" /\ x # Idle /\ TypeOK
  BY <1>1, ReqFacts, CallFields DEF CommitForce, Idle, TypeInv
<1>3. PICK c \in Categories : c = x.category
  BY <1>2 DEF ForceCall
<1>4. PICK e : e = [category |-> c, date |-> x.date, status |-> "approved", origin |-> "regularized"]
  OBVIOUS
<1>5. e \in Row /\ e.category = c /\ e.status = "approved" /\ e.origin = "regularized"
  BY <1>2, <1>4 DEF ForceCall, Row, Status, Origin
<1>6. app \in Seq(Row) /\ Len(app) \in Nat /\ app' = Append(app, e)
  BY <1>1, <1>2, <1>3, <1>4, AppFacts DEF CommitForce, TypeOK
<1>7. /\ app' \in Seq(Row) /\ Len(app') = Len(app) + 1
      /\ \A i \in 1..Len(app) : app'[i] = app[i]
      /\ app'[Len(app) + 1] = e
  BY <1>5, <1>6, AppendProperties
<1>8. Appended(1, c)
  <2>1. \A i \in (Len(app) + 1)..(Len(app) + 1) : i = Len(app) + 1
    BY <1>6
  <2> QED
    BY <1>5, <1>7, <2>1 DEF Appended
<1>9. consumed' = [consumed EXCEPT ![c] = consumed[c] + 1]
  BY <1>1, <1>3 DEF CommitForce
<1>10. /\ consumed' \in [Categories -> Nat]
       /\ Answer(r) /\ UNCHANGED <<today, allocated>>
  <2>1. consumed \in [Categories -> Nat]
    BY <1>2 DEF TypeOK
  <2>2. consumed' \in [Categories -> Nat]
    BY <1>9, <2>1
  <2> QED
    BY <2>2 DEF CommitForce
<1>11. attendance' \in [Days -> Day]
  <2>1. attendance' = [attendance EXCEPT ![x.date] = "leave"] /\ attendance \in [Days -> Day]
    BY <1>1, <1>2 DEF CommitForce, TypeOK
  <2> QED
    BY <2>1 DEF Day
<1>12. ASSUME LedgerInv PROVE ConsumedCoversLive' /\ LiveWithinAllocated' /\ Once'
  <2>1. consumed[c] + 1 <= allocated[c]
    <3>1. consumed[c] < allocated[c]
      BY <1>1, <1>2, <1>3, <1>12 DEF LedgerInv, Fresh
    <3>2. consumed[c] \in Nat /\ allocated[c] \in Nat
      BY <1>2, <1>3, Bounds DEF TypeOK
    <3> QED
      BY <3>1, <3>2
  <2>2. ConsumedCoversLive' /\ LiveWithinAllocated'
    BY <1>2, <1>8, <1>9, <1>10, <1>12, <2>1, DebitKeeps
  <2>3. Once'
    <3>1. Apps = 1..Len(app) /\ Apps' = 1..(Len(app) + 1)
      BY <1>2, <1>7, AppFacts, LenProperties DEF Apps
    <3>2. \A i \in Apps' : app'[i].origin # "regularized" => i \in Apps /\ app'[i] = app[i]
      BY <1>5, <1>6, <1>7, <3>1
    <3> QED
      BY <1>12, <3>2 DEF LedgerInv, Once, Live
  <2> QED
    BY <2>2, <2>3
<1>13. Len(app) <= Len(app') /\ Len(app') <= MaxApps
  BY <1>6, <1>7, Bounds DEF CommitForce
<1> QED
  BY <1>1, <1>2, <1>7, <1>10, <1>11, <1>12, <1>13, AnswerHolds

-----------------------------------------------------------------------------
(* What happens beside the requests.                                       *)

LEMMA AsideHolds ==
    ASSUME TypeInv,
           \/ \E c \in Categories : Accrue(c)
           \/ \E d \in Days : RegularizeOther(d)
           \/ NextDay
           \/ UNCHANGED vars
    PROVE  TypeInv' /\ (LedgerInv => LedgerInv')
<1>1. UNCHANGED <<app, consumed, req>>
  BY DEF Accrue, RegularizeOther, NextDay, vars
<1>2. /\ allocated' \in [Categories -> 0..MaxAllocated]
      /\ \A c \in Categories : allocated[c] <= allocated'[c]
  <2>1. allocated \in [Categories -> 0..MaxAllocated]
    BY DEF TypeInv, TypeOK
  <2>2. CASE \E c \in Categories : Accrue(c)
    <3>1. PICK c \in Categories : Accrue(c)
      BY <2>2
    <3>2. PICK n \in (allocated[c] + 1)..MaxAllocated : allocated' = [allocated EXCEPT ![c] = n]
      BY <3>1 DEF Accrue
    <3>3. allocated[c] \in Nat /\ n \in 0..MaxAllocated /\ allocated[c] <= n
      BY <2>1, <3>2, Bounds
    <3> QED
      BY <2>1, <3>2, <3>3, Bounds
  <2>3. CASE allocated' = allocated
    BY <2>1, <2>3, Bounds
  <2> QED
    BY <2>2, <2>3 DEF RegularizeOther, NextDay, vars
<1>3. attendance' \in [Days -> Day] /\ today' \in Days
  <2>1. attendance \in [Days -> Day] /\ today \in 1..LastDay /\ LastDay \in Nat
    BY Bounds DEF TypeInv, TypeOK, Days
  <2>2. today' = today \/ (today < LastDay /\ today' = today + 1)
    BY DEF Accrue, RegularizeOther, NextDay, vars
  <2>3. attendance' = attendance \/ \E d \in Days, st \in Day : attendance' = [attendance EXCEPT ![d] = st]
    BY DEF Accrue, RegularizeOther, NextDay, vars, Day
  <2> QED
    BY <2>1, <2>2, <2>3 DEF Days
<1>4. TypeInv'
  <2>1. TypeOK'
    BY <1>1, <1>2, <1>3 DEF TypeInv, TypeOK
  <2>2. \A r \in Requests : Refers(req[r])'
    BY <1>1 DEF TypeInv, Refers, Apps
  <2> QED
    BY <2>1, <2>2 DEF TypeInv
<1>5. ASSUME LedgerInv PROVE LedgerInv'
  <2>1. \A c, d : LiveOn(c, d)' = LiveOn(c, d) /\ LiveApps(c)' = LiveApps(c)
    BY <1>1 DEF LiveOn, LiveApps, Live, Apps
  <2>2. ASSUME NEW r \in Requests PROVE Fresh(req[r])'
    <3>1. PICK x : x = req[r]
      OBVIOUS
    <3>2. x \in Calls /\ Fresh(x) /\ req'[r] = x
      BY <1>1, <1>5, <3>1, ReqFacts DEF LedgerInv
    <3>3. ASSUME x.step = "applying"
          PROVE  x.consumed + (x.to - x.from + 1) <= allocated'[x.category]
      <4>1. x \in ApplyCall
        BY <3>2, <3>3, CallFields
      <4>2. x.category \in Categories /\ x.consumed + (x.to - x.from + 1) \in Int
        BY <4>1, Bounds DEF ApplyCall, Days
      <4>3. allocated[x.category] \in Int /\ allocated'[x.category] \in Int
        BY <1>2, <4>2, Bounds DEF TypeInv, TypeOK
      <4>4. x.consumed + (x.to - x.from + 1) <= allocated[x.category]
        BY <3>2, <3>3 DEF Fresh
      <4> QED
        BY <1>2, <4>2, <4>3, <4>4
    <3>4. ASSUME x.step = "balanceChecked"
          PROVE  consumed[x.category] < allocated'[x.category]
      <4>1. x \in ForceCall
        BY <3>2, <3>4, CallFields
      <4>2. x.category \in Categories
        BY <4>1 DEF ForceCall
      <4>3. consumed[x.category] \in Int /\ allocated[x.category] \in Int /\ allocated'[x.category] \in Int
        BY <1>2, <4>2, Bounds DEF TypeInv, TypeOK
      <4>4. consumed[x.category] < allocated[x.category]
        BY <3>2, <3>4 DEF Fresh
      <4> QED
        BY <1>2, <4>2, <4>3, <4>4
    <3> QED
      BY <1>1, <2>1, <3>2, <3>3, <3>4 DEF Fresh
  <2>3. ConsumedCoversLive'
    BY <1>1, <1>5, <2>1 DEF LedgerInv, ConsumedCoversLive
  <2>4. LiveWithinAllocated'
    <3> SUFFICES ASSUME NEW c \in Categories PROVE Cardinality(LiveApps(c)') <= allocated'[c]
      BY DEF LiveWithinAllocated
    <3>1. Cardinality(LiveApps(c)) \in Nat
      BY LiveFinite DEF TypeInv
    <3>2. allocated[c] \in Int /\ allocated'[c] \in Int
      BY <1>2, Bounds DEF TypeInv, TypeOK
    <3>3. Cardinality(LiveApps(c)) <= allocated[c]
      BY <1>5 DEF LedgerInv, LiveWithinAllocated
    <3> QED
      BY <1>2, <2>1, <3>1, <3>2, <3>3
  <2>5. Once'
    BY <1>1, <1>5 DEF LedgerInv, Once, Live, Apps
  <2> QED
    BY <1>4, <2>2, <2>3, <2>4, <2>5 DEF LedgerInv
<1> QED
  BY <1>4, <1>5

-----------------------------------------------------------------------------
(* The theorems.                                                           *)

LEMMA AtMostOne ==
    ASSUME NEW S, \A x, y \in S : x = y
    PROVE  Cardinality(S) <= 1
<1>1. CASE S = {}
  BY <1>1, FS_EmptySet
<1>2. CASE S # {}
  <2>1. PICK x \in S : TRUE
    BY <1>2
  <2>2. S = {x}
    BY <2>1
  <2>3. Cardinality({x}) = 1
    BY FS_Singleton
  <2> QED
    BY <2>2, <2>3
<1> QED
  BY <1>1, <1>2

LEMMA InitHolds == Init => LedgerInv
<1> SUFFICES ASSUME Init PROVE LedgerInv
  OBVIOUS
<1>1. Apps = {} /\ Len(app) = 0
  BY DEF Init, Apps
<1>2. \A r \in Requests : req[r] = Idle
  BY DEF Init
<1>3. TypeInv
  <2>1. app \in Seq(Row) /\ Len(app) <= MaxApps
    BY <1>1, Bounds DEF Init
  <2>2. today \in Days
    BY Bounds DEF Init, Days
  <2>3. TypeOK
    BY <2>1, <2>2, Bounds DEF Init, TypeOK, Day
  <2> QED
    BY <1>2, <2>3 DEF TypeInv, Refers, Idle
<1>4. \A r \in Requests : Fresh(req[r])
  BY <1>2 DEF Fresh, Idle
<1>5. \A c : Cardinality(LiveApps(c)) = 0
  <2>1. \A c : LiveApps(c) = {}
    BY <1>1 DEF LiveApps
  <2> QED
    BY <2>1, FS_EmptySet
<1>6. ConsumedCoversLive /\ LiveWithinAllocated /\ Once
  BY <1>1, <1>5 DEF Init, ConsumedCoversLive, LiveWithinAllocated, Once
<1> QED
  BY <1>3, <1>4, <1>6 DEF LedgerInv

LEMMA StepHolds ==
    ASSUME TypeInv, [Next]_vars
    PROVE  TypeInv' /\ (LedgerInv /\ Alone => LedgerInv')
<1>1. ASSUME NEW r \in Requests, Call(r) PROVE TypeInv' /\ (LedgerInv => LedgerInv')
  BY <1>1, ReadBalanceHolds, ReadApplicationHolds, ReadDayHolds, CronReadHolds DEF Call
<1>2. ASSUME NEW r \in Requests, Advance(r) PROVE TypeInv' /\ (LedgerInv /\ Alone => LedgerInv')
  <2>1. CASE AnswerExhausted(r) \/ CommitEntry(r)
    BY <2>1, RefusedHolds
  <2>2. CASE CheckNextDate(r)
    BY <2>2, RefusedHolds, CheckedHolds
  <2>3. CASE CheckBalance(r)
    BY <2>3, RefusedHolds, BalanceCheckedHolds
  <2>4. CASE CommitApply(r) \/ WriteDecision(r)
    BY <2>4, CommitApplyHolds, WriteDecisionHolds
  <2>5. CASE FindApplication(r)
    BY <2>5, FindApplicationHolds
  <2>6. CASE CommitRevert(r) \/ CommitForce(r) \/ CommitAutoApprove(r)
    BY <2>6, CommitRevertHolds, CommitForceHolds, CommitAutoApproveHolds
  <2> QED
    BY <1>2, <2>1, <2>2, <2>3, <2>4, <2>5, <2>6 DEF Advance
<1> QED
  BY <1>1, <1>2, AsideHolds DEF Next

LEMMA TypesInductive == Spec => []TypeInv
<1>1. Init => TypeInv
  BY InitHolds DEF LedgerInv
<1>2. TypeInv /\ [Next]_vars => TypeInv'
  BY StepHolds
<1> QED
  BY <1>1, <1>2, PTL DEF Spec

LEMMA LedgerInductive == Spec /\ []Alone => []LedgerInv
<1>1. LedgerInv /\ Alone /\ [Next]_vars => LedgerInv'
  BY StepHolds DEF LedgerInv
<1> QED
  BY InitHolds, <1>1, PTL DEF Spec

\* The tables and what requests carry have their types, whatever overlaps.
THEOREM TypeCorrect == Spec => []TypeOK
<1>1. TypeInv => TypeOK
  BY DEF TypeInv
<1> QED
  BY <1>1, TypesInductive, PTL

\* Requests that do not overlap leave every live application paid for: by
\* applyLeave, by force, by a regularization, after any decisions and reverts.
THEOREM LiveIsPaid == Spec /\ []Alone => []ConsumedCoversLive
<1>1. LedgerInv => ConsumedCoversLive
  BY DEF LedgerInv
<1> QED
  BY <1>1, LedgerInductive, PTL

\* They grant no more leave than accrual has allocated.
THEOREM NoLeaveBeyondAllocated == Spec /\ []Alone => []LiveWithinAllocated
<1>1. LedgerInv => LiveWithinAllocated
  BY DEF LedgerInv
<1> QED
  BY <1>1, LedgerInductive, PTL

\* They apply for no day twice, however ranges of days and decisions follow
\* each other.
THEOREM NoDayTwice == Spec /\ []Alone => []AppliedOncePerDay
<1>1. LedgerInv => AppliedOncePerDay
  <2> SUFFICES ASSUME LedgerInv, NEW c \in Categories, NEW d \in Days
               PROVE  Cardinality({i \in LiveOn(c, d) : app[i].origin # "regularized"}) <= 1
    BY DEF AppliedOncePerDay
  <2>1. \A i, j \in {i \in LiveOn(c, d) : app[i].origin # "regularized"} : i = j
    BY DEF LedgerInv, Once, LiveOn, LiveApps
  <2> QED
    BY <2>1, AtMostOne
<1> QED
  BY <1>1, LedgerInductive, PTL

\* And what was rejected or cancelled stays so: no approval, revert or
\* auto-approval that does not overlap the decision undoes it.
THEOREM NoWayBack == Spec /\ []Alone => DecidedIsFinal
<1>1. ASSUME LedgerInv, [Next]_vars
      PROVE  [\A i \in Apps : ~Live(i) => app'[i].status = app[i].status]_vars
  <2> SUFFICES ASSUME Next, NEW i \in Apps, ~Live(i) PROVE app'[i].status = app[i].status
    BY <1>1
  <2>1. TypeInv /\ TypeOK /\ i \in 1..Len(app) /\ Len(app) \in Nat
    BY <1>1, AppFacts DEF LedgerInv, TypeInv
  <2>2. ASSUME NEW r \in Requests, CommitApply(r) PROVE app'[i] = app[i]
    BY <2>1, <2>2, RowsApplied
  <2>3. ASSUME NEW r \in Requests, WriteDecision(r) PROVE app'[i].status = app[i].status
    <3>1. Refers(req[r]) /\ Fresh(req[r]) /\ req[r].step = "deciding" /\ req[r] \in DecideCall
      BY <1>1, <2>1, <2>3, ReqFacts, CallFields DEF LedgerInv, WriteDecision
    <3>2. req[r].id \in Apps /\ Live(req[r].id) /\ req[r].target \in Status
      BY <3>1 DEF Refers, Fresh, Transitions, Live, DecideCall
    <3>3. CASE app' = [app EXCEPT ![req[r].id].status = req[r].target]
      <4>1. \A j \in Apps : j # req[r].id => app'[j] = app[j]
        BY <2>1, <3>2, <3>3, OneStatus
      <4> QED
        BY <3>2, <4>1
    <3> QED
      BY <2>3, <3>3 DEF WriteDecision
  <2>4. ASSUME NEW r \in Requests, CommitRevert(r) PROVE app'[i].status = app[i].status
    <3>1. CASE req[r].id = 0
      BY <2>4, <3>1 DEF CommitRevert
    <3>2. CASE req[r].id # 0
      <4>1. Refers(req[r]) /\ Fresh(req[r])
        BY <1>1, <2>1, ReqFacts DEF LedgerInv
      <4>2. req[r].id \in Apps /\ Live(req[r].id)
        BY <2>4, <3>2, <4>1 DEF CommitRevert, Refers, Fresh, Live
      <4>3. app' = [app EXCEPT ![req[r].id].status = "cancelled"]
        BY <2>4, <3>2 DEF CommitRevert
      <4>4. \A j \in Apps : j # req[r].id => app'[j] = app[j]
        BY <2>1, <4>2, <4>3, OneStatus DEF Status
      <4> QED
        BY <4>2, <4>4
    <3> QED
      BY <3>1, <3>2
  <2>5. ASSUME NEW r \in Requests, CommitForce(r) PROVE app'[i] = app[i]
    <3>1. req[r] \in ForceCall
      BY <2>1, <2>5, ReqFacts, CallFields DEF CommitForce
    <3>2. PICK e \in Row : app' = Append(app, e)
      BY <2>5, <3>1 DEF CommitForce, ForceCall, Row, Status, Origin
    <3>3. app \in Seq(Row)
      BY <2>1 DEF TypeOK
    <3> QED
      BY <2>1, <3>2, <3>3, AppendProperties
  <2>6. ASSUME NEW r \in Requests, CommitAutoApprove(r) PROVE app'[i] = app[i]
    <3>1. Refers(req[r]) /\ Fresh(req[r]) /\ req[r].step = "autoApproving"
      BY <1>1, <2>1, <2>6, ReqFacts DEF LedgerInv, CommitAutoApprove
    <3>2. req[r].ids \subseteq Apps /\ i \notin req[r].ids
      BY <3>1 DEF Refers, Fresh, Live
    <3>3. \A j \in Apps \ req[r].ids : app'[j] = app[j]
      BY <2>1, <2>6, <3>2, ManyStatus DEF CommitAutoApprove
    <3> QED
      BY <3>2, <3>3
  <2>7. ASSUME NEW r \in Requests, Call(r) PROVE app' = app
    BY <2>7 DEF Call, ReadBalance, ReadApplication, ReadLeaveDay, ReadWorkDay, ReadPending,
       ReadForEntry
  <2>8. ASSUME NEW r \in Requests,
               \/ AnswerExhausted(r) \/ CheckNextDate(r) \/ FindApplication(r)
               \/ CheckBalance(r) \/ CommitEntry(r)
        PROVE  app' = app
    BY <2>8 DEF AnswerExhausted, CheckNextDate, FindApplication, CheckBalance, CommitEntry
  <2>9. CASE \/ \E c \in Categories : Accrue(c)
             \/ \E d \in Days : RegularizeOther(d)
             \/ NextDay
    BY <2>9 DEF Accrue, RegularizeOther, NextDay
  <2> QED
    BY <2>2, <2>3, <2>4, <2>5, <2>6, <2>7, <2>8, <2>9 DEF Next, Advance
<1> QED
  BY <1>1, LedgerInductive, PTL DEF Spec, DecidedIsFinal

-----------------------------------------------------------------------------
(* II. The attendance rows of a day: types and the last active row for     *)
(* whatever overlaps, and the number of active rows, the food and the      *)
(* decision of the day for requests and jobs that do not overlap, whatever *)
(* they do and wherever they are interrupted.                              *)

JobTypes == [step : {"due", "notCheckedIn", "missing", "commit", "done"},
             writes : SUBSET [id : 1..MaxRows, status : DayStatus \cup {"KEEP"},
                              approval : Approval \cup {"KEEP"}],
             add : SUBSET Rows]

\* The commits in a list, and kinds of them: those that name a row, those
\* that insert one, those that say what a row will be.
Commits(q) == {q[k] : k \in DOMAIN q}
Has(q, kinds) == \E w \in Commits(q) : w.do \in kinds
Naming == {"off", "set", "swap", "revive"}
Growing == {"add", "swap", "renew"}
Telling == {"add", "swap", "renew", "revive"}

\* Requests and jobs name rows that exist.
DayTypeInv ==
    /\ DayTypeOK
    /\ todo \in [Callers -> Seq(Todo)]
    /\ job \in JobTypes
    /\ \A r \in Callers : \A w \in Commits(todo[r]) : w.do \in Naming => w.id \in Ids
    /\ \A w \in job.writes : w.id \in Ids
    /\ ~JobRuns => job.writes = {} /\ job.add = {}

-----------------------------------------------------------------------------
(* Lists of commits.                                                       *)

LEMMA DayBounds ==
    /\ Multiple \in BOOLEAN /\ Manual \in BOOLEAN /\ Forced \subseteq DayStatus
    /\ NotNull \subseteq BOOLEAN
    /\ MaxRows \in Nat /\ MaxRaced \in Nat /\ MaxFood \in Nat /\ MaxFood >= 1 /\ MaxFaults \in Nat
BY AttendanceAssumption

\* What a commit of each kind carries.
LEMMA CommitFields ==
    ASSUME NEW w \in Todo
    PROVE  /\ w.do \in {"food", "off", "add", "set", "swap", "renew", "revive"}
           /\ w.do = "food" => w.amount \in {-1, 1} /\ w = Food(w.amount)
           /\ w.do \in Naming => w.id \in 1..MaxRows
           /\ w.do \in Telling => w.row \in Rows
           /\ w.do = "set" => w.status \in DayStatus /\ w.approval \in Approval \cup {"KEEP"}
BY DEF Todo, Food, Off, Add, Set, Swap, Renew, Revive, Naming, Telling

LEMMA CommitsAre ==
    /\ \A a \in {-1, 1} : Food(a) \in Todo /\ Food(a).do = "food" /\ Food(a).amount = a
    /\ \A i \in 1..MaxRows : Off(i) \in Todo /\ Off(i).do = "off" /\ Off(i).id = i
    /\ \A row \in Rows : /\ Add(row) \in Todo /\ Add(row).do = "add" /\ Add(row).row = row
                         /\ Renew(row) \in Todo /\ Renew(row).do = "renew" /\ Renew(row).row = row
    /\ \A i \in 1..MaxRows, row \in Rows :
         /\ Swap(i, row) \in Todo /\ Swap(i, row).do = "swap"
         /\ Swap(i, row).id = i /\ Swap(i, row).row = row
         /\ Revive(i, row) \in Todo /\ Revive(i, row).do = "revive"
         /\ Revive(i, row).id = i /\ Revive(i, row).row = row
    /\ \A i \in 1..MaxRows, s \in DayStatus, a \in Approval \cup {"KEEP"} :
         /\ Set(i, s, a) \in Todo /\ Set(i, s, a).do = "set" /\ Set(i, s, a).id = i
         /\ Set(i, s, a).status = s /\ Set(i, s, a).approval = a
<1>1. \A a \in {-1, 1} : Food(a) \in Todo /\ Food(a).do = "food" /\ Food(a).amount = a
  BY DEF Todo, Food
<1>2. \A i \in 1..MaxRows : Off(i) \in Todo /\ Off(i).do = "off" /\ Off(i).id = i
  BY DEF Todo, Off
<1>3. \A row \in Rows : Add(row) \in Todo /\ Add(row).do = "add" /\ Add(row).row = row
  BY DEF Todo, Add
<1>7. \A row \in Rows : Renew(row) \in Todo /\ Renew(row).do = "renew" /\ Renew(row).row = row
  BY DEF Todo, Renew
<1>4. \A i \in 1..MaxRows, row \in Rows :
         /\ Swap(i, row) \in Todo /\ Swap(i, row).do = "swap"
         /\ Swap(i, row).id = i /\ Swap(i, row).row = row
  BY DEF Todo, Swap
<1>5. \A i \in 1..MaxRows, row \in Rows :
         /\ Revive(i, row) \in Todo /\ Revive(i, row).do = "revive"
         /\ Revive(i, row).id = i /\ Revive(i, row).row = row
  BY DEF Todo, Revive
<1>6. \A i \in 1..MaxRows, s \in DayStatus, a \in Approval \cup {"KEEP"} :
         /\ Set(i, s, a) \in Todo /\ Set(i, s, a).do = "set" /\ Set(i, s, a).id = i
         /\ Set(i, s, a).status = s /\ Set(i, s, a).approval = a
  BY DEF Todo, Set
<1> QED
  BY <1>1, <1>2, <1>3, <1>4, <1>5, <1>6, <1>7

\* Two commits of one list: all but food stand alone, except that one switches
\* a row off and the other inserts one.
Pair(v, w) ==
    \/ v.do = "food" \/ w.do = "food"
    \/ v.do = "off" /\ w.do = "add"
    \/ v.do = "add" /\ w.do = "off"
Neat(q) == \A k, m \in DOMAIN q : k # m => Pair(q[k], q[m])
OneFood(q) == \A k, m \in DOMAIN q : k # m => q[k].do # "food" \/ q[m].do # "food"

LEMMA ListFacts ==
    ASSUME NEW q \in Seq(Todo), q # Nothing
    PROVE  /\ Head(q) \in Todo /\ Tail(q) \in Seq(Todo)
           /\ Commits(q) = {Head(q)} \cup Commits(Tail(q))
           /\ Neat(q) => Neat(Tail(q)) /\ \A w \in Commits(Tail(q)) : Pair(Head(q), w)
           /\ OneFood(q) => /\ OneFood(Tail(q))
                            /\ Head(q).do = "food" => \A w \in Commits(Tail(q)) : w.do # "food"
<1> DEFINE t == Tail(q)
<1>1. Len(q) \in Nat /\ Len(q) > 0 /\ DOMAIN q = 1..Len(q)
  BY EmptySeq, LenProperties DEF Nothing
<1>2. /\ Head(q) \in Todo /\ t \in Seq(Todo) /\ Len(t) = Len(q) - 1
      /\ Head(q) = q[1] /\ \A k \in 1..Len(t) : t[k] = q[k + 1]
  BY HeadTailProperties DEF Nothing
<1>3. DOMAIN t = 1..Len(t)
  BY <1>2, LenProperties
<1>4. \A k \in DOMAIN t : k + 1 \in DOMAIN q /\ t[k] = q[k + 1] /\ k + 1 # 1
  BY <1>1, <1>2, <1>3
<1>5. \A k \in DOMAIN q : k # 1 => k - 1 \in DOMAIN t /\ t[k - 1] = q[k]
  BY <1>1, <1>2, <1>3
<1>6. 1 \in DOMAIN q
  BY <1>1
<1> HIDE DEF t
<1>7. Commits(q) = {Head(q)} \cup Commits(t)
  <2>1. \A w \in Commits(q) : w = Head(q) \/ w \in Commits(t)
    BY <1>2, <1>5 DEF Commits
  <2>2. \A w \in Commits(t) : w \in Commits(q)
    BY <1>4 DEF Commits
  <2>3. Head(q) \in Commits(q)
    BY <1>2, <1>6 DEF Commits
  <2> QED
    BY <2>1, <2>2, <2>3
<1>8. \A k, m \in DOMAIN t : k # m => k + 1 # m + 1
  BY <1>3, <1>2
<1>9. ASSUME Neat(q) PROVE Neat(t) /\ \A w \in Commits(t) : Pair(Head(q), w)
  <2>1. \A k, m \in DOMAIN t : k # m => Pair(t[k], t[m])
    BY <1>4, <1>8, <1>9 DEF Neat
  <2>2. \A k \in DOMAIN t : Pair(q[1], t[k])
    BY <1>4, <1>6, <1>9 DEF Neat
  <2> QED
    BY <1>2, <2>1, <2>2 DEF Neat, Commits
<1>10. ASSUME OneFood(q)
       PROVE  OneFood(t) /\ (Head(q).do = "food" => \A w \in Commits(t) : w.do # "food")
  <2>1. \A k, m \in DOMAIN t : k # m => t[k].do # "food" \/ t[m].do # "food"
    BY <1>4, <1>8, <1>10 DEF OneFood
  <2>2. \A k \in DOMAIN t : q[1].do # "food" \/ t[k].do # "food"
    BY <1>4, <1>6, <1>10 DEF OneFood
  <2> QED
    BY <1>2, <2>1, <2>2 DEF OneFood, Commits
<1> QED
  BY <1>2, <1>7, <1>9, <1>10 DEF t

\* The lists handlers make.
LEMMA ShortConcats ==
    ASSUME NEW a, NEW b, NEW c
    PROVE  /\ <<a>> \o <<b>> = <<a, b>> /\ <<a, b>> \o <<c>> = <<a, b, c>>
           /\ Append(<<a>>, b) = <<a, b>> /\ Append(<<>>, a) = <<a>>
           /\ <<>> \o <<>> = <<>> /\ <<>> \o <<a>> = <<a>>
           /\ <<a>> \o <<>> = <<a>> /\ <<a, b>> \o <<>> = <<a, b>>
<1> DEFINE S == {a, b, c}
<1>1. /\ <<a>> \in Seq(S) /\ <<b>> \in Seq(S) /\ <<c>> \in Seq(S)
      /\ <<a, b>> \in Seq(S) /\ <<a, b, c>> \in Seq(S)
  OBVIOUS
<1>5. /\ Len(<<a>>) = 1 /\ Len(<<b>>) = 1 /\ Len(<<c>>) = 1 /\ Len(<<a, b>>) = 2 /\ Len(<<a, b, c>>) = 3
      /\ <<a>>[1] = a /\ <<b>>[1] = b /\ <<c>>[1] = c
      /\ <<a, b>>[1] = a /\ <<a, b>>[2] = b
      /\ <<a, b, c>>[1] = a /\ <<a, b, c>>[2] = b /\ <<a, b, c>>[3] = c
  OBVIOUS
<1> HIDE DEF S
<1>2. <<a>> \o <<b>> = <<a, b>>
  <2> DEFINE s == <<a>> \o <<b>>
             t == <<a, b>>
  <2>1. s \in Seq(S) /\ Len(s) = 2 /\ s[1] = <<a>>[1] /\ s[2] = <<b>>[1]
    BY <1>1, <1>5, ConcatProperties
  <2>2. t \in Seq(S) /\ Len(t) = 2 /\ t[1] = a /\ t[2] = b
    BY <1>1, <1>5
  <2> HIDE DEF s, t
  <2>3. s = t
    BY <1>5, <2>1, <2>2, SeqEqual
  <2> QED
    BY <2>3 DEF s, t
<1>3. Append(<<a>>, b) = <<a, b>>
  BY <1>1, <1>2, AppendIsConcat DEF S
<1>4. <<a, b>> \o <<c>> = <<a, b, c>>
  <2> DEFINE s == <<a, b>> \o <<c>>
             t == <<a, b, c>>
  <2>1. s \in Seq(S) /\ Len(s) = 3 /\ s[1] = <<a, b>>[1] /\ s[2] = <<a, b>>[2] /\ s[3] = <<c>>[1]
    BY <1>1, <1>5, ConcatProperties
  <2>2. t \in Seq(S) /\ Len(t) = 3 /\ t[1] = a /\ t[2] = b /\ t[3] = c
    BY <1>1, <1>5
  <2> HIDE DEF s, t
  <2>3. s = t
    BY <1>5, <2>1, <2>2, SeqEqual
  <2> QED
    BY <2>3 DEF s, t
<1>6. /\ Append(<<>>, a) = <<a>> /\ <<>> \o <<>> = <<>> /\ <<>> \o <<a>> = <<a>>
      /\ <<a>> \o <<>> = <<a>> /\ <<a, b>> \o <<>> = <<a, b>>
  OBVIOUS
<1> QED
  BY <1>2, <1>3, <1>4, <1>6

LEMMA NoList ==
    Nothing \in Seq(Todo) /\ Commits(Nothing) = {} /\ Neat(Nothing) /\ OneFood(Nothing)
BY DEF Nothing, Commits, Neat, OneFood

LEMMA OneList ==
    ASSUME NEW a \in Todo
    PROVE  <<a>> \in Seq(Todo) /\ Commits(<<a>>) = {a} /\ Neat(<<a>>) /\ OneFood(<<a>>)
<1>1. DOMAIN <<a>> = {1} /\ <<a>>[1] = a /\ <<a>> \in Seq(Todo)
  OBVIOUS
<1> QED
  BY <1>1 DEF Commits, Neat, OneFood

LEMMA ShortLists ==
    ASSUME NEW a \in Todo, NEW b \in Todo, NEW c \in Todo
    PROVE  /\ <<a, b>> \in Seq(Todo) /\ Commits(<<a, b>>) = {a, b}
           /\ Pair(a, b) => Neat(<<a, b>>)
           /\ a.do # "food" \/ b.do # "food" => OneFood(<<a, b>>)
           /\ <<a, b, c>> \in Seq(Todo) /\ Commits(<<a, b, c>>) = {a, b, c}
           /\ Pair(a, b) /\ Pair(a, c) /\ Pair(b, c) => Neat(<<a, b, c>>)
           /\ /\ a.do # "food" \/ b.do # "food"
              /\ a.do # "food" \/ c.do # "food"
              /\ b.do # "food" \/ c.do # "food"
              => OneFood(<<a, b, c>>)
<1>2. DOMAIN <<a, b>> = {1, 2} /\ <<a, b>>[1] = a /\ <<a, b>>[2] = b
  OBVIOUS
<1>3. DOMAIN <<a, b, c>> = {1, 2, 3} /\ <<a, b, c>>[1] = a /\ <<a, b, c>>[2] = b /\ <<a, b, c>>[3] = c
  OBVIOUS
<1>4. <<a, b>> \in Seq(Todo) /\ <<a, b, c>> \in Seq(Todo)
  OBVIOUS
<1>6. Commits(<<a, b>>) = {a, b} 
  BY <1>2 DEF Commits
<1>7. Pair(a, b) => Neat(<<a, b>>)
  BY <1>2 DEF Neat, Pair
<1>8. a.do # "food" \/ b.do # "food" => OneFood(<<a, b>>)
  BY <1>2 DEF OneFood
<1>9. Commits(<<a, b, c>>) = {a, b, c}
  BY <1>3 DEF Commits
<1>10. Pair(a, b) /\ Pair(a, c) /\ Pair(b, c) => Neat(<<a, b, c>>)
  BY <1>3 DEF Neat, Pair
<1>11. /\ a.do # "food" \/ b.do # "food"
       /\ a.do # "food" \/ c.do # "food"
       /\ b.do # "food" \/ c.do # "food"
       => OneFood(<<a, b, c>>)
  BY <1>3 DEF OneFood
<1> QED
  BY <1>4, <1>6, <1>7, <1>8, <1>9, <1>10, <1>11
-----------------------------------------------------------------------------
(* What a handler begins with.                                             *)

WorkedRows == {i \in Active : Worked(rows[i])}
Plus(b) == IF b THEN 1 ELSE 0

\* A commit makes a day worked and approved, or makes it no longer so.
Brings(w) ==
    \/ w.do \in Telling /\ Worked(w.row)
    \/ w.do = "set" /\ Worked(Updated(rows[w.id], w.status, w.approval))
Costs(w) == w.do \in Naming /\ Worked(rows[w.id])

\* What a list still credits, beyond what it still makes worked.
Owed(q) ==
    Plus(\E w \in Commits(q) : w.do = "food" /\ w.amount = 1)
      - Plus(\E w \in Commits(q) : w.do = "food" /\ w.amount = -1)
      - Plus(\E w \in Commits(q) : Brings(w)) + Plus(\E w \in Commits(q) : Costs(w))

Decided == {"APPROVED", "REJECTED"}
Approves(w) ==
    /\ w.do \in Telling => w.row.approval # "NONE"
    /\ w.do = "set" => /\ w.approval # "NONE"
                       /\ w.approval = "KEEP" => rows[w.id].approval # "NONE"
Decides(w) ==
    /\ w.do \in Telling => w.row.approval \in Decided
    /\ w.do = "set" => w.approval \in Decided

\* Only a holiday and a day not checked in yet have no approval.
Unasked == \A i \in Active : rows[i].approval = "NONE"
                               => rows[i].status \in {"HOLIDAY", "NOT_CHECKED_IN_YET"}

Plan(q, wrong) ==
    /\ q \in Seq(Todo) /\ Neat(q)
    /\ \A w \in Commits(q) : w.do \in Naming => w.id \in Active
    /\ Has(q, {"off"}) => Has(q, {"add"})
    /\ Multiple /\ Has(q, {"add"}) => Has(q, {"off"}) \/ Active = {}
    /\ ~wrong => OneFood(q) /\ Owed(q) = 0 /\ (Has(q, {"renew"}) => WorkedRows = {})
    /\ Unasked => \A w \in Commits(q) : Approves(w)
    /\ Hour # "shift" => \A w \in Commits(q) : Decides(w)

LEMMA RowFacts ==
    ASSUME DayTypeOK
    PROVE  /\ Len(rows) \in Nat /\ Len(rows) <= MaxRows /\ Ids = 1..Len(rows)
           /\ rows \in [Ids -> Rows \cup {Inactive}]
           /\ \A i \in Ids : i \in 1..MaxRows /\ rows[i].active \in BOOLEAN
           /\ \A i \in Active : i \in Ids /\ i \in 1..MaxRows /\ rows[i] \in Rows
           /\ Inactive \notin Rows /\ Inactive.active = FALSE
           /\ \A row \in Rows : row.active = TRUE
<1>1. rows \in Seq(Rows \cup {Inactive}) /\ Len(rows) <= MaxRows
  BY DEF DayTypeOK
<1>2. Len(rows) \in Nat /\ Ids = 1..Len(rows) /\ rows \in [Ids -> Rows \cup {Inactive}]
  BY <1>1, LenProperties DEF Ids
<1>3. Inactive \notin Rows /\ Inactive.active = FALSE /\ \A row \in Rows : row.active = TRUE
  BY DEF Inactive, Rows
<1>4. \A i \in Ids : i \in 1..MaxRows
  BY <1>1, <1>2, DayBounds
<1>5. \A i \in Ids : rows[i].active \in BOOLEAN
  BY <1>2, <1>3
<1>6. \A i \in Active : i \in Ids /\ rows[i] \in Rows
  BY <1>2, <1>3 DEF Active
<1> QED
  BY <1>1, <1>2, <1>3, <1>4, <1>5, <1>6

LEMMA NewRow ==
    ASSUME NEW status \in DayStatus, NEW approval \in Approval
    PROVE  /\ DayRow(status, approval) \in Rows
           /\ DayRow(status, approval).status = status
           /\ DayRow(status, approval).approval = approval
BY DEF DayRow, Rows

LEMMA Words ==
    /\ {"PRESENT", "ABSENT", "LEAVE", "HOLIDAY", "CHECKED_IN", "APPROVAL_PENDING",
        "CHECKED_OUT", "NOT_CHECKED_IN_YET", "LEAVE_WITHOUT_PAY"} \subseteq DayStatus
    /\ {"NONE", "PENDING", "APPROVED", "REJECTED"} \subseteq Approval
BY DEF DayStatus, Approval

\* A single commit of a row.
LEMMA OneCommit ==
    ASSUME DayTypeOK, NEW w \in Todo, NEW wrong \in BOOLEAN,
           w.do # "food", w.do # "off",
           w.do \in Naming => w.id \in Active,
           Multiple /\ w.do = "add" => Active = {},
           ~wrong => /\ w.do = "renew" => WorkedRows = {}
                     /\ Brings(w) <=> Costs(w),
           Unasked => Approves(w), Hour # "shift" => Decides(w)
    PROVE  Plan(<<w>>, wrong)
<1>1. <<w>> \in Seq(Todo) /\ Commits(<<w>>) = {w} /\ Neat(<<w>>) /\ OneFood(<<w>>)
  BY OneList
<1>2. ~wrong => Owed(<<w>>) = 0
  BY <1>1 DEF Owed, Plus
<1>3. Multiple /\ Has(<<w>>, {"add"}) => Active = {}
  BY <1>1 DEF Has
<1>4. ~Has(<<w>>, {"off"})
  BY <1>1 DEF Has
<1>5. ~wrong /\ Has(<<w>>, {"renew"}) => WorkedRows = {}
  BY <1>1 DEF Has
<1> QED
  BY <1>1, <1>2, <1>3, <1>4, <1>5 DEF Plan

\* A commit of food, and one of a row.
LEMMA FoodAndCommit ==
    ASSUME DayTypeOK, NEW f \in Todo, NEW w \in Todo, NEW wrong \in BOOLEAN,
           f.do = "food", w.do \notin {"food", "off", "renew"},
           w.do \in Naming => w.id \in Active,
           Multiple /\ w.do = "add" => Active = {},
           ~wrong => /\ Brings(w) <=> f.amount = 1
                     /\ Costs(w) <=> f.amount = -1,
           Unasked => Approves(w), Hour # "shift" => Decides(w)
    PROVE  Plan(<<f, w>>, wrong)
<1> DEFINE q == <<f, w>>
           a == f.amount
<1>1. a \in {-1, 1} /\ f.do = "food" /\ f.amount = a
  BY CommitFields
<1>2. q \in Seq(Todo) /\ Commits(q) = {f, w} /\ Neat(q) /\ OneFood(q)
  BY <1>1, ShortLists DEF Pair
<1> HIDE DEF q, a
<1>3. ~Brings(f) /\ ~Costs(f) /\ Approves(f) /\ Decides(f)
  BY <1>1 DEF Brings, Costs, Naming, Telling, Approves, Decides
<1>4. ~wrong => Owed(q) = 0
  <2> SUFFICES ASSUME ~wrong PROVE Owed(q) = 0
    OBVIOUS
  <2>1. (\E v \in Commits(q) : v.do = "food" /\ v.amount = 1) <=> a = 1
    BY <1>1, <1>2
  <2>2. (\E v \in Commits(q) : v.do = "food" /\ v.amount = -1) <=> a = -1
    BY <1>1, <1>2
  <2>3. (\E v \in Commits(q) : Brings(v)) <=> a = 1
    BY <1>1, <1>2, <1>3
  <2>4. (\E v \in Commits(q) : Costs(v)) <=> a = -1
    BY <1>1, <1>2, <1>3
  <2> QED
    BY <2>1, <2>2, <2>3, <2>4 DEF Owed, Plus
<1>5. Multiple /\ Has(q, {"add"}) => Active = {}
  BY <1>1, <1>2 DEF Has
<1>6. ~Has(q, {"off"}) /\ ~Has(q, {"renew"})
  BY <1>1, <1>2 DEF Has
<1>7. \A v \in Commits(q) : v.do \in Naming => v.id \in Active
  BY <1>1, <1>2 DEF Naming
<1>8. Plan(q, wrong)
  BY <1>2, <1>3, <1>4, <1>5, <1>6, <1>7 DEF Plan
<1> QED
  BY <1>8 DEF q

\* Commits of food only, for a change of status without a branch.
LEMMA FoodOnly ==
    ASSUME DayTypeOK, NEW q \in Seq(Todo), Neat(q), \A w \in Commits(q) : w.do = "food"
    PROVE  Plan(q, TRUE)
BY DEF Plan, Has, Naming, Telling, Approves, Decides

\* A row is replaced by a new one in two commits, with or without food.
LEMMA Replaced ==
    ASSUME DayTypeOK, NEW i \in Active, NEW new \in Rows, new.approval = "APPROVED",
           NEW f \in Todo, f.do = "food", NEW wrong \in BOOLEAN
    PROVE  /\ (~wrong => ~Worked(new) /\ ~Worked(rows[i])) => Plan(<<Off(i), Add(new)>>, wrong)
           /\ (~wrong => /\ Worked(new) <=> f.amount = 1
                         /\ Worked(rows[i]) <=> f.amount = -1)
                => /\ Plan(<<Off(i), Add(new), f>>, wrong)
                   /\ Plan(<<Add(new), f, Off(i)>>, wrong)
<1> DEFINE a == f.amount
           o == Off(i)
           n == Add(new)
<1>1. /\ f.do = "food" /\ f.amount = a /\ a \in {-1, 1}
      /\ o \in Todo /\ o.do = "off" /\ o.id = i
      /\ n \in Todo /\ n.do = "add" /\ n.row = new
  BY CommitsAre, RowFacts, CommitFields
<1> HIDE DEF a, o, n
<1>2. /\ ~Brings(f) /\ ~Costs(f) /\ ~Brings(o) /\ ~Costs(n)
      /\ Brings(n) <=> Worked(new)
      /\ Costs(o) <=> Worked(rows[i])
  BY <1>1 DEF Brings, Costs, Naming, Telling
<1>3. \A w \in {f, o, n} : /\ w.do \in Naming => w.id \in Active
                           /\ Approves(w) /\ Decides(w)
  BY <1>1 DEF Naming, Telling, Approves, Decides, Decided
<1>4. /\ <<o, n>> \in Seq(Todo) /\ Commits(<<o, n>>) = {o, n} /\ Neat(<<o, n>>) /\ OneFood(<<o, n>>)
      /\ <<o, n, f>> \in Seq(Todo) /\ Commits(<<o, n, f>>) = {o, n, f}
      /\ Neat(<<o, n, f>>) /\ OneFood(<<o, n, f>>)
      /\ <<n, f, o>> \in Seq(Todo) /\ Commits(<<n, f, o>>) = {o, n, f}
      /\ Neat(<<n, f, o>>) /\ OneFood(<<n, f, o>>)
  <2>1. Pair(o, n) /\ Pair(o, f) /\ Pair(n, f) /\ Pair(n, o) /\ Pair(f, o)
    BY <1>1 DEF Pair
  <2>2. <<o, n>> \in Seq(Todo) /\ Commits(<<o, n>>) = {o, n} /\ Neat(<<o, n>>) /\ OneFood(<<o, n>>)
    BY <1>1, <2>1, ShortLists
  <2>3. /\ <<o, n, f>> \in Seq(Todo) /\ Commits(<<o, n, f>>) = {o, n, f}
        /\ Neat(<<o, n, f>>) /\ OneFood(<<o, n, f>>)
    BY <1>1, <2>1, ShortLists
  <2>4. /\ <<n, f, o>> \in Seq(Todo) /\ Commits(<<n, f, o>>) = {n, f, o}
        /\ Neat(<<n, f, o>>) /\ OneFood(<<n, f, o>>)
    BY <1>1, <2>1, ShortLists
  <2> QED
    BY <2>2, <2>3, <2>4
<1>5. ASSUME NEW q, q \in {<<o, n>>, <<o, n, f>>, <<n, f, o>>}, ~wrong => Owed(q) = 0
      PROVE  Plan(q, wrong)
  <2>1. /\ q \in Seq(Todo) /\ Neat(q) /\ OneFood(q) /\ Commits(q) \subseteq {f, o, n}
        /\ o \in Commits(q) /\ n \in Commits(q)
    BY <1>4, <1>5
  <2>2. Has(q, {"off"}) /\ Has(q, {"add"}) /\ ~Has(q, {"renew"})
    BY <1>1, <2>1 DEF Has
  <2> QED
    BY <1>3, <1>5, <2>1, <2>2 DEF Plan
<1>6. (~wrong => ~Worked(new) /\ ~Worked(rows[i])) => Plan(<<o, n>>, wrong)
  <2> SUFFICES ASSUME ~wrong => ~Worked(new) /\ ~Worked(rows[i]), ~wrong
               PROVE  Owed(<<o, n>>) = 0
    BY <1>5
  <2>1. \A w \in Commits(<<o, n>>) : w.do # "food" /\ ~Brings(w) /\ ~Costs(w)
    BY <1>1, <1>2, <1>4
  <2> QED
    BY <2>1 DEF Owed, Plus
<1>7. ASSUME ~wrong => /\ Worked(new) <=> a = 1
                       /\ Worked(rows[i]) <=> a = -1
      PROVE  Plan(<<o, n, f>>, wrong) /\ Plan(<<n, f, o>>, wrong)
  <2>1. ASSUME ~wrong, NEW q \in {<<o, n, f>>, <<n, f, o>>} PROVE Owed(q) = 0
    <3>0. Commits(q) = {o, n, f}
      BY <1>4
    <3>1. (\E v \in Commits(q) : v.do = "food" /\ v.amount = 1) <=> a = 1
      BY <1>1, <3>0
    <3>2. (\E v \in Commits(q) : v.do = "food" /\ v.amount = -1) <=> a = -1
      BY <1>1, <3>0
    <3>3. (\E v \in Commits(q) : Brings(v)) <=> a = 1
      BY <1>2, <1>7, <2>1, <3>0
    <3>4. (\E v \in Commits(q) : Costs(v)) <=> a = -1
      BY <1>2, <1>7, <2>1, <3>0
    <3> QED
      BY <3>1, <3>2, <3>3, <3>4 DEF Owed, Plus
  <2> QED
    BY <1>5, <2>1
<1> QED
  BY <1>6, <1>7 DEF a, o, n

Credit == Food(1)
Reversal == Food(-1)

\* The food of a change of status, and the commits of food there are.
LEMMA FoodCommits ==
    /\ Credit \in Todo /\ Credit.do = "food" /\ Credit.amount = 1
    /\ Reversal \in Todo /\ Reversal.do = "food" /\ Reversal.amount = -1
BY CommitsAre DEF Credit, Reversal

LEMMA FoodForIs ==
    \A from, to \in DayStatus :
        /\ from # "PRESENT" /\ to # "PRESENT" => FoodFor(from, to) = <<>>
        /\ from # "PRESENT" /\ to = "PRESENT" => FoodFor(from, to) = <<Credit>>
        /\ from = "PRESENT" /\ to # "PRESENT" => FoodFor(from, to) = <<Reversal>>
        /\ from = "PRESENT" /\ to = "PRESENT" => FoodFor(from, to) = <<>>
<1>1. ASSUME NEW from \in DayStatus, NEW to \in DayStatus, from # "PRESENT", to # "PRESENT"
      PROVE  FoodFor(from, to) = <<>>
  BY <1>1 DEF FoodFor
<1>2. ASSUME NEW from \in DayStatus, NEW to \in DayStatus, from # "PRESENT", to = "PRESENT"
      PROVE  FoodFor(from, to) = <<Credit>>
  BY <1>2 DEF FoodFor, Credit
<1>3. ASSUME NEW from \in DayStatus, NEW to \in DayStatus, from = "PRESENT", to # "PRESENT"
      PROVE  FoodFor(from, to) = <<Reversal>>
  BY <1>3 DEF FoodFor, Reversal
<1>4. ASSUME NEW from \in DayStatus, NEW to \in DayStatus, from = "PRESENT", to = "PRESENT"
      PROVE  FoodFor(from, to) = <<>>
  BY <1>4 DEF FoodFor
<1> QED
  BY <1>1, <1>2, <1>3, <1>4

\* A leave forced on a day that was present: its food is reversed twice.
LEMMA ReversedTwice ==
    ASSUME DayTypeOK, NEW i \in Active, NEW new \in Rows, new.approval = "APPROVED"
    PROVE  Plan(<<Reversal, Reversal, Swap(i, new)>>, TRUE)
<1> DEFINE f == Reversal
           s == Swap(i, new)
           q == <<f, f, s>>
<1>1. /\ f \in Todo /\ f.do = "food"
      /\ s \in Todo /\ s.do = "swap" /\ s.id = i /\ s.row = new
  BY CommitsAre, RowFacts DEF Reversal
<1> HIDE DEF f, s
<1>2. Pair(f, f) /\ Pair(f, s)
  BY <1>1 DEF Pair
<1>3. q \in Seq(Todo) /\ Commits(q) = {f, s} /\ Neat(q)
  <2>1. \A a, b, c \in Todo :
          /\ <<a, b, c>> \in Seq(Todo) /\ Commits(<<a, b, c>>) = {a, b, c}
          /\ Pair(a, b) /\ Pair(a, c) /\ Pair(b, c) => Neat(<<a, b, c>>)
    BY ShortLists
  <2>2. /\ q \in Seq(Todo) /\ Commits(q) = {f, f, s}
        /\ Pair(f, f) /\ Pair(f, s) /\ Pair(f, s) => Neat(q)
    BY <1>1, <2>1
  <2>3. {f, f, s} = {f, s}
    OBVIOUS
  <2> QED
    BY <1>2, <2>2, <2>3
<1> HIDE DEF q
<1>4. ~Has(q, {"off"}) /\ ~Has(q, {"add"})
  BY <1>1, <1>3 DEF Has
<1>5. \A w \in Commits(q) : /\ w.do \in Naming => w.id \in Active
                            /\ Approves(w) /\ Decides(w)
  BY <1>1, <1>3 DEF Naming, Telling, Approves, Decides, Decided
<1>6. Plan(q, TRUE)
  BY <1>3, <1>4, <1>5 DEF Plan
<1> QED
  BY <1>6 DEF q, f, s
-----------------------------------------------------------------------------
(* Every handler begins with such a list.                                  *)

Begun(r) == \E wrong \in BOOLEAN, q \in Seq(Todo) : Take(r, q, wrong) /\ Plan(q, wrong)

LEMMA CheckInBegins ==
    ASSUME DayTypeOK, NEW r \in Callers, NEW i \in Active, CheckIn(r, i)
    PROVE  Begun(r)
<1> DEFINE wrong == \E j \in Active : Worked(rows[j])
           in == DayRow("CHECKED_IN", "PENDING")
<1>1. Hour = "shift" /\ Take(r, Punch(i), wrong)
  BY DEF CheckIn
<1>0. in \in Rows /\ in.status = "CHECKED_IN" /\ in.approval = "PENDING"
  BY NewRow, Words
<1>2. /\ in \in Rows /\ ~Worked(in) /\ in.approval = "PENDING"
      /\ i \in 1..MaxRows /\ rows[i] \in Rows /\ rows[i].active = TRUE
  BY <1>0, RowFacts DEF Worked
<1>3. wrong \in BOOLEAN
  OBVIOUS
<1>4. ~wrong => WorkedRows = {}
  BY DEF WorkedRows
<1> HIDE DEF wrong, in
<1>5. Plan(Punch(i), wrong)
  <2>1. CASE rows[i].status \in {"NOT_CHECKED_IN_YET", "HOLIDAY"}
    <3> DEFINE w == Set(i, "CHECKED_IN", "PENDING")
    <3>1. /\ w \in Todo /\ w.do = "set" /\ w.id = i
          /\ w.status = "CHECKED_IN" /\ w.approval = "PENDING"
      BY <1>2, CommitsAre, Words
    <3> HIDE DEF w
    <3>2. ~Brings(w) /\ ~Costs(w) /\ Approves(w)
      BY <1>2, <2>1, <3>1
         DEF Brings, Costs, Approves, Worked, Updated, DayRow, Telling, Naming
    <3>3. Plan(<<w>>, wrong)
      BY <1>1, <1>3, <3>1, <3>2, OneCommit DEF Naming
    <3> QED
      BY <2>1, <3>3 DEF Punch, w
  <2>2. CASE rows[i].status \notin {"NOT_CHECKED_IN_YET", "HOLIDAY"} /\ Multiple
    <3> DEFINE w == Renew(in)
    <3>1. w \in Todo /\ w.do = "renew" /\ w.row = in
      BY <1>2, CommitsAre
    <3> HIDE DEF w
    <3>2. ~Brings(w) /\ ~Costs(w) /\ Approves(w)
      BY <1>2, <3>1 DEF Brings, Costs, Approves, Telling, Naming
    <3>3. Plan(<<w>>, wrong)
      BY <1>1, <1>3, <1>4, <3>1, <3>2, OneCommit DEF Naming
    <3> QED
      BY <2>2, <3>3 DEF Punch, w, in
  <2>3. CASE rows[i].status \notin {"NOT_CHECKED_IN_YET", "HOLIDAY"} /\ ~Multiple
    <3> DEFINE w == Add(in)
    <3>1. w \in Todo /\ w.do = "add" /\ w.row = in
      BY <1>2, CommitsAre
    <3> HIDE DEF w
    <3>2. ~Brings(w) /\ ~Costs(w) /\ Approves(w)
      BY <1>2, <3>1 DEF Brings, Costs, Approves, Telling, Naming
    <3>3. Plan(<<w>>, wrong)
      BY <1>1, <1>3, <2>3, <3>1, <3>2, OneCommit DEF Naming
    <3> QED
      BY <2>3, <3>3 DEF Punch, w, in
  <2> QED
    BY <2>1, <2>2, <2>3
<1>6. Punch(i) \in Seq(Todo)
  BY <1>5 DEF Plan
<1> QED
  BY <1>1, <1>3, <1>5, <1>6 DEF Begun

LEMMA CheckInUnenteredBegins ==
    ASSUME DayTypeOK, NEW r \in Callers, CheckInUnentered(r)
    PROVE  Begun(r)
<1> DEFINE w == Add(DayRow("CHECKED_IN", "PENDING"))
<1>1. Hour = "shift" /\ Active = {} /\ Take(r, <<w>>, FALSE)
  BY DEF CheckInUnentered
<1>2. /\ w \in Todo /\ w.do = "add"
      /\ w.row.status = "CHECKED_IN" /\ w.row.approval = "PENDING"
  BY CommitsAre, NewRow, Words
<1> HIDE DEF w
<1>3. ~Brings(w) /\ ~Costs(w) /\ Approves(w)
  BY <1>2 DEF Brings, Costs, Approves, Worked, Telling, Naming
<1>4. Plan(<<w>>, FALSE)
  BY <1>1, <1>2, <1>3, OneCommit DEF Naming
<1>5. <<w>> \in Seq(Todo)
  BY <1>4 DEF Plan
<1> QED
  BY <1>1, <1>4, <1>5 DEF Begun

LEMMA CheckOutBegins ==
    ASSUME DayTypeOK, NEW r \in Callers, NEW i \in Active, CheckOut(r, i)
    PROVE  Begun(r)
<1> DEFINE status == IF rows[i].approval = "PENDING" THEN "APPROVAL_PENDING" ELSE "CHECKED_IN"
           w == Set(i, status, "KEEP")
<1>1. Hour = "shift" /\ rows[i].status = "CHECKED_IN" /\ Take(r, <<w>>, FALSE)
  BY DEF CheckOut
<1>2. i \in 1..MaxRows /\ rows[i] \in Rows /\ rows[i].active = TRUE
  BY RowFacts
<1>3. status \in {"APPROVAL_PENDING", "CHECKED_IN"}
  OBVIOUS
<1> HIDE DEF status
<1>4. w \in Todo /\ w.do = "set" /\ w.id = i /\ w.status = status /\ w.approval = "KEEP"
  BY <1>2, <1>3, CommitsAre, Words
<1> HIDE DEF w
<1>5. ~Brings(w) /\ ~Costs(w)
  BY <1>1, <1>2, <1>3, <1>4 DEF Brings, Costs, Worked, Updated, DayRow, Telling, Naming
<1>6. Unasked => Approves(w)
  BY <1>1, <1>4 DEF Unasked, Approves, Telling
<1>7. Plan(<<w>>, FALSE)
  BY <1>1, <1>2, <1>4, <1>5, <1>6, OneCommit DEF Naming
<1>8. <<w>> \in Seq(Todo)
  BY <1>7 DEF Plan
<1> QED
  BY <1>1, <1>7, <1>8 DEF Begun

LEMMA DecideLeaveBegins ==
    ASSUME DayTypeOK, NEW r \in Callers, NEW i \in Active, NEW status \in {"PRESENT", "ABSENT"},
           DecideLeave(r, i, status)
    PROVE  Begun(r)
<1> DEFINE new == DayRow(status, "APPROVED")
           wrong == Worked(rows[i]) # (status = "PRESENT")
           w == Revive(i, new)
<1>1. Take(r, <<w>>, wrong)
  BY DEF DecideLeave
<1>2. new \in Rows /\ new.status = status /\ new.approval = "APPROVED"
  BY NewRow, Words
<1>3. i \in 1..MaxRows
  BY RowFacts
<1>4. w \in Todo /\ w.do = "revive" /\ w.id = i /\ w.row = new
  BY <1>2, <1>3, CommitsAre
<1>5. wrong \in BOOLEAN
  OBVIOUS
<1>6. ~wrong => (Worked(rows[i]) <=> status = "PRESENT")
  BY DEF Worked
<1>7. Approves(w) /\ Decides(w)
  BY <1>2, <1>4 DEF Approves, Decides, Decided
<1>8. (Brings(w) <=> status = "PRESENT") /\ (Costs(w) <=> Worked(rows[i]))
  BY <1>2, <1>4 DEF Brings, Costs, Worked, Telling, Naming
<1> HIDE DEF w, new, wrong
<1>9. Plan(<<w>>, wrong)
  BY <1>4, <1>5, <1>6, <1>7, <1>8, OneCommit DEF Naming
<1>10. <<w>> \in Seq(Todo)
  BY <1>9 DEF Plan
<1> QED
  BY <1>1, <1>5, <1>9, <1>10 DEF Begun

LEMMA ApproveBegins ==
    ASSUME DayTypeOK, NEW r \in Callers, NEW i \in Active, NEW approval \in Decided,
           Approve(r, i, approval)
    PROVE  Begun(r)
<1> DEFINE status == IF approval = "APPROVED" THEN "PRESENT" ELSE "ABSENT"
           wrong == approval = "REJECTED" /\ rows[i].approval = "APPROVED"
                                          /\ rows[i].status # "PRESENT"
           w == Set(i, status, approval)
           q == Append(FoodForApproval(rows[i], approval), w)
<1>1. rows[i].approval # approval /\ Take(r, q, wrong)
  BY DEF Approve
<1>2. i \in 1..MaxRows /\ rows[i] \in Rows /\ rows[i].active = TRUE
  BY RowFacts
<1>3. /\ w \in Todo /\ w.do = "set" /\ w.id = i
      /\ w.status = status /\ w.approval = approval
  BY <1>2, CommitsAre, Words DEF Decided
<1>4. wrong \in BOOLEAN
  OBVIOUS
<1>5. Approves(w) /\ Decides(w)
  BY <1>3 DEF Approves, Decides, Decided, Telling
<1>6. Brings(w) <=> approval = "APPROVED"
  <2>1. w.status # "KEEP" /\ w.approval # "KEEP"
    BY <1>3 DEF Decided
  <2>2. Updated(rows[w.id], w.status, w.approval) = DayRow(status, approval)
    BY <1>2, <1>3, <2>1 DEF Updated
  <2> QED
    BY <1>3, <2>2 DEF Brings, Worked, DayRow, Telling, Decided
<1>7. Costs(w) <=> Worked(rows[i])
  BY <1>3 DEF Costs, Naming
<1> HIDE DEF w, wrong, status
<1>f. /\ Credit \in Todo /\ Credit.do = "food" /\ Credit.amount = 1
      /\ Reversal \in Todo /\ Reversal.do = "food" /\ Reversal.amount = -1
  BY FoodCommits
<1>8. CASE approval = "APPROVED"
  <2>1. q = <<Credit, w>>
    BY <1>8, ShortConcats DEF FoodForApproval, Credit, Reversal
  <2>2. ~Worked(rows[i])
    BY <1>1, <1>8 DEF Worked
  <2>3. Plan(<<Credit, w>>, wrong)
    BY <1>3, <1>4, <1>5, <1>6, <1>7, <1>8, <1>f, <2>2, FoodAndCommit DEF Naming
  <2> QED
    BY <1>1, <1>4, <2>1, <2>3 DEF Begun, Plan
<1>9. CASE approval = "REJECTED" /\ rows[i].approval = "APPROVED"
  <2>1. q = <<Reversal, w>>
    BY <1>9, ShortConcats DEF FoodForApproval, Credit, Reversal
  <2>2. ~wrong => Worked(rows[i])
    BY <1>9 DEF Worked, wrong
  <2>3. Plan(<<Reversal, w>>, wrong)
    BY <1>3, <1>4, <1>5, <1>6, <1>7, <1>9, <1>f, <2>2, FoodAndCommit DEF Naming
  <2> QED
    BY <1>1, <1>4, <2>1, <2>3 DEF Begun, Plan
<1>10. CASE approval = "REJECTED" /\ rows[i].approval # "APPROVED"
  <2>1. q = <<w>>
    BY <1>10, ShortConcats DEF FoodForApproval, Credit, Reversal
  <2>2. ~Worked(rows[i])
    BY <1>10 DEF Worked
  <2>3. Plan(<<w>>, wrong)
    BY <1>3, <1>4, <1>5, <1>6, <1>7, <1>10, <2>2, OneCommit DEF Naming
  <2> QED
    BY <1>1, <1>4, <2>1, <2>3 DEF Begun, Plan
<1> QED
  BY <1>8, <1>9, <1>10 DEF Decided

LEMMA EnterByForceBegins ==
    ASSUME DayTypeOK, NEW r \in Callers, NEW status \in Forced, EnterByForce(r, status)
    PROVE  Begun(r)
<1>1. Active = {} /\ Take(r, ForceEntry(status), FALSE) /\ status \in DayStatus
  BY DayBounds DEF EnterByForce
<1>f. Credit \in Todo /\ Credit.do = "food" /\ Credit.amount = 1
  BY FoodCommits
<1>2. Plan(ForceEntry(status), FALSE)
  <2>1. CASE Hour = "shift"
    <3> DEFINE w == Add(DayRow(status, "PENDING"))
    <3>1. w \in Todo /\ w.do = "add" /\ w.row.approval = "PENDING"
      BY <1>1, CommitsAre, NewRow, Words
    <3> HIDE DEF w
    <3>2. ~Brings(w) /\ ~Costs(w) /\ Approves(w)
      BY <3>1 DEF Brings, Costs, Approves, Worked, Telling, Naming
    <3>3. Plan(<<w>>, FALSE)
      BY <1>1, <2>1, <3>1, <3>2, OneCommit DEF Naming
    <3> QED
      BY <2>1, <3>3 DEF ForceEntry, w
  <2>2. CASE Hour # "shift"
    <3> DEFINE w == Add(DayRow(status, "APPROVED"))
    <3>1. w \in Todo /\ w.do = "add" /\ w.row.status = status /\ w.row.approval = "APPROVED"
      BY <1>1, CommitsAre, NewRow, Words
    <3> HIDE DEF w
    <3>2. /\ Brings(w) <=> status = "PRESENT"
          /\ ~Costs(w) /\ Approves(w) /\ Decides(w)
      BY <3>1 DEF Brings, Costs, Approves, Decides, Decided, Worked, Telling, Naming
    <3>3. CASE status = "PRESENT"
      <4>1. Plan(<<Credit, w>>, FALSE)
        <5>1. /\ Brings(w) <=> Credit.amount = 1
              /\ Costs(w) <=> Credit.amount = -1
          BY <1>f, <3>2, <3>3
        <5>2. w.do \notin Naming /\ w.do \notin {"food", "off", "renew"}
          BY <3>1 DEF Naming
        <5> QED
          BY <1>1, <1>f, <3>1, <3>2, <5>1, <5>2, FoodAndCommit
      <4>2. ForceEntry(status) = <<Credit, w>>
        <5>1. FoodFor("NOT_CHECKED_IN_YET", status) = <<Credit>>
          BY <1>1, <3>3, Words, FoodForIs
        <5>2. <<Credit>> \o <<w>> = <<Credit, w>>
          BY ShortConcats
        <5> QED
          BY <2>2, <5>1, <5>2 DEF ForceEntry, w
      <4> QED
        BY <4>1, <4>2
    <3>4. CASE status # "PRESENT"
      <4>1. Plan(<<w>>, FALSE)
        BY <1>1, <3>1, <3>2, <3>4, OneCommit DEF Naming
      <4>2. ForceEntry(status) = <<w>>
        <5>1. FoodFor("NOT_CHECKED_IN_YET", status) = <<>>
          BY <1>1, <3>4, Words, FoodForIs
        <5>2. <<>> \o <<w>> = <<w>>
          BY ShortConcats
        <5> QED
          BY <2>2, <5>1, <5>2 DEF ForceEntry, w
      <4> QED
        BY <4>1, <4>2
    <3> QED
      BY <3>3, <3>4
  <2> QED
    BY <2>1, <2>2
<1> QED
  BY <1>1, <1>2 DEF Begun, Plan

LEMMA RegularizeBegins ==
    ASSUME DayTypeOK, NEW r \in Callers, NEW i \in Active, NEW to \in DOMAIN Branches,
           Regularize(r, i, to)
    PROVE  Begun(r)
<1> DEFINE from == rows[i].status
           new == DayRow(to, "APPROVED")
           s == Swap(i, new)
           wrong == \/ from \notin Branches[to]
                    \/ from = "PRESENT" /\ (to = "LEAVE" \/ rows[i].approval # "APPROVED")
           q == Regularization(i, to)
<1>1. from # to /\ Take(r, q, wrong)
  BY DEF Regularize
<1>2. i \in 1..MaxRows /\ rows[i] \in Rows /\ rows[i].active = TRUE
  BY RowFacts
<1>3. to \in {"PRESENT", "ABSENT", "LEAVE", "HOLIDAY"}
  BY DEF Branches
<1>d. from \in DayStatus /\ to \in DayStatus
  BY <1>2, <1>3, Words DEF Rows
<1>4. new \in Rows /\ new.status = to /\ new.approval = "APPROVED"
  BY <1>3, NewRow, Words
<1>5. s \in Todo /\ s.do = "swap" /\ s.id = i /\ s.row = new
  BY <1>2, <1>4, CommitsAre
<1>6. wrong \in BOOLEAN
  OBVIOUS
<1>7. Approves(s) /\ Decides(s)
  BY <1>4, <1>5 DEF Approves, Decides, Decided
<1>8. /\ Worked(new) <=> to = "PRESENT"
      /\ Brings(s) <=> to = "PRESENT"
      /\ Costs(s) <=> Worked(rows[i])
      /\ ~wrong => (Worked(rows[i]) <=> from = "PRESENT")
  BY <1>4, <1>5 DEF Brings, Costs, Worked, Telling, Naming
<1>f. /\ Credit \in Todo /\ Credit.do = "food" /\ Credit.amount = 1
      /\ Reversal \in Todo /\ Reversal.do = "food" /\ Reversal.amount = -1
  BY FoodCommits
<1>g. /\ from # "PRESENT" /\ to # "PRESENT" => FoodFor(from, to) = <<>>
      /\ from # "PRESENT" /\ to = "PRESENT" => FoodFor(from, to) = <<Credit>>
      /\ from = "PRESENT" /\ to # "PRESENT" => FoodFor(from, to) = <<Reversal>>
      /\ from = "PRESENT" /\ to = "PRESENT" => FoodFor(from, to) = <<>>
  BY <1>d, FoodForIs
<1>h. /\ <<Reversal>> \o <<Reversal>> = <<Reversal, Reversal>>
      /\ <<Reversal, Reversal>> \o <<s>> = <<Reversal, Reversal, s>>
      /\ <<>> \o <<>> = <<>> /\ <<>> \o <<s>> = <<s>>
      /\ <<Credit>> \o <<s>> = <<Credit, s>>
      /\ <<Add(new)>> \o <<Credit>> = <<Add(new), Credit>>
      /\ <<Add(new), Credit>> \o <<Off(i)>> = <<Add(new), Credit, Off(i)>>
      /\ <<Off(i), Add(new)>> \o <<Credit>> = <<Off(i), Add(new), Credit>>
      /\ <<Off(i), Add(new)>> \o <<Reversal>> = <<Off(i), Add(new), Reversal>>
      /\ <<Off(i), Add(new)>> \o <<>> = <<Off(i), Add(new)>>
  BY ShortConcats
<1> HIDE DEF wrong, s, new, from, q
<1>9. Plan(q, wrong)
  <2>1. CASE from \notin Branches[to]
    <3>1. q \in {<<>>, <<Credit>>, <<Reversal>>}
      BY <1>3, <2>1, <1>g, <1>h DEF Regularization, s, new, from, q
    <3>3. q \in Seq(Todo) /\ Neat(q) /\ \A w \in Commits(q) : w.do = "food"
      <4>1. CASE q = <<>>
        BY <4>1, NoList DEF Nothing
      <4>2. CASE q = <<Credit>>
        BY <4>2, <1>f, OneList
      <4>3. CASE q = <<Reversal>>
        BY <4>3, <1>f, OneList
      <4> QED
        BY <3>1, <4>1, <4>2, <4>3
    <3>4. wrong = TRUE
      BY <2>1 DEF wrong
    <3> QED
      BY <3>3, <3>4, FoodOnly
  <2>2. CASE from \in Branches[to] /\ to = "LEAVE" /\ from = "PRESENT"
    <3>1. q = <<Reversal, Reversal, s>>
      BY <1>3, <2>2, <1>g, <1>h DEF Regularization, s, new, from, q
    <3>2. wrong = TRUE
      BY <2>2 DEF wrong
    <3>3. Plan(<<Reversal, Reversal, s>>, TRUE)
      BY <1>4, ReversedTwice DEF s, new
    <3> QED
      BY <3>1, <3>2, <3>3
  <2>3. CASE from \in Branches[to] /\ to = "LEAVE" /\ from # "PRESENT"
    <3>1. q = <<s>>
      BY <1>3, <2>3, <1>g, <1>h DEF Regularization, s, new, from, q
    <3>2. Plan(<<s>>, wrong)
      BY <1>5, <1>6, <1>7, <1>8, <2>3, OneCommit DEF Naming
    <3> QED
      BY <3>1, <3>2
  <2>4. CASE from \in Branches[to] /\ from = "LEAVE" /\ to = "PRESENT"
    <3>1. q = <<Credit, s>>
      BY <1>3, <2>4, <1>g, <1>h DEF Regularization, s, new, from, q
    <3>2. Plan(<<Credit, s>>, wrong)
      BY <1>5, <1>6, <1>7, <1>8, <2>4, <1>f, FoodAndCommit DEF Naming
    <3> QED
      BY <3>1, <3>2
  <2>5. CASE from \in Branches[to] /\ from = "LEAVE" /\ to \notin {"PRESENT", "LEAVE"}
    <3>1. q = <<s>>
      BY <1>3, <2>5, <1>g, <1>h DEF Regularization, s, new, from, q
    <3>2. Plan(<<s>>, wrong)
      BY <1>5, <1>6, <1>7, <1>8, <2>5, OneCommit DEF Naming
    <3> QED
      BY <3>1, <3>2
  <2>6. CASE /\ from \in Branches[to] /\ from # "LEAVE" /\ to = "PRESENT"
    <3>0. ~wrong => Worked(new) /\ ~Worked(rows[i])
      BY <1>1, <1>8, <2>6
    <3>1. Plan(<<Off(i), Add(new), Credit>>, wrong) /\ Plan(<<Add(new), Credit, Off(i)>>, wrong)
      <4>1. ~wrong => /\ Worked(new) <=> Credit.amount = 1
                      /\ Worked(rows[i]) <=> Credit.amount = -1
        BY <1>f, <3>0
      <4> QED
        BY <1>4, <1>6, <1>f, <4>1, Replaced
    <3>2. q \in {<<Off(i), Add(new), Credit>>, <<Add(new), Credit, Off(i)>>}
      BY <1>1, <1>3, <2>6, <1>g, <1>h DEF Regularization, s, new, from, q
    <3> QED
      BY <3>1, <3>2
  <2>7. CASE /\ from \in Branches[to] /\ from = "PRESENT" /\ to \notin {"PRESENT", "LEAVE"}
    <3>1. Plan(<<Off(i), Add(new), Reversal>>, wrong)
      <4>1. ~wrong => /\ Worked(new) <=> Reversal.amount = 1
                      /\ Worked(rows[i]) <=> Reversal.amount = -1
        BY <1>f, <1>8, <2>7
      <4> QED
        BY <1>4, <1>6, <1>f, <4>1, Replaced
    <3>2. q = <<Off(i), Add(new), Reversal>>
      BY <1>3, <2>7, <1>g, <1>h DEF Regularization, s, new, from, q
    <3> QED
      BY <3>1, <3>2
  <2>8. CASE /\ from \in Branches[to] /\ from \notin {"PRESENT", "LEAVE"}
             /\ to \notin {"PRESENT", "LEAVE"}
    <3>1. Plan(<<Off(i), Add(new)>>, wrong)
      BY <1>4, <1>6, <1>8, <2>8, <1>f, Replaced
    <3>2. q = <<Off(i), Add(new)>>
      BY <1>3, <2>8, <1>g, <1>h DEF Regularization, s, new, from, q
    <3> QED
      BY <3>1, <3>2
  <2> QED
    BY <1>1, <2>1, <2>2, <2>3, <2>4, <2>5, <2>6, <2>7, <2>8
<1>10. q \in Seq(Todo)
  BY <1>9 DEF Plan
<1> QED
  BY <1>1, <1>6, <1>9, <1>10 DEF Begun

LEMMA BeginBegins ==
    ASSUME DayTypeOK, NEW r \in Callers, Begin(r)
    PROVE  Begun(r)
BY CheckInBegins, CheckInUnenteredBegins, CheckOutBegins, DecideLeaveBegins, ApproveBegins,
   EnterByForceBegins, RegularizeBegins DEF Begin, Decided
-----------------------------------------------------------------------------
(* What one commit of a request does.                                      *)

\* The row i after the commit w, if it existed before.
After(w, i) ==
    IF w.do = "renew" THEN Inactive
    ELSE IF w.do \notin Naming \/ i # w.id THEN rows[i]
    ELSE IF w.do = "set" THEN Updated(rows[i], w.status, w.approval)
    ELSE IF w.do = "revive" THEN w.row
    ELSE Inactive

LEMMA UpdatedType ==
    ASSUME NEW row \in Rows \cup {Inactive}, NEW status \in DayStatus \cup {"KEEP"},
           NEW approval \in Approval \cup {"KEEP"}
    PROVE  /\ Updated(row, status, approval) \in Rows \cup {Inactive}
           /\ Updated(row, status, approval).active = row.active
<1>1. CASE row = Inactive
  BY <1>1 DEF Updated, Inactive
<1>2. CASE row \in Rows
  <2>1. row.active = TRUE /\ row.status \in DayStatus /\ row.approval \in Approval
    BY <1>2 DEF Rows
  <2> DEFINE s == IF status = "KEEP" THEN row.status ELSE status
             a == IF approval = "KEEP" THEN row.approval ELSE approval
  <2>2. s \in DayStatus /\ a \in Approval
    BY <2>1
  <2>3. Updated(row, status, approval) = DayRow(s, a)
    BY <2>1 DEF Updated
  <2>4. DayRow(s, a) \in Rows
    BY <2>2, NewRow
  <2>5. DayRow(s, a).active = TRUE
    BY DEF DayRow
  <2> HIDE DEF s, a
  <2> QED
    BY <2>1, <2>3, <2>4, <2>5
<1> QED
  BY <1>1, <1>2

LEMMA AfterType ==
    ASSUME DayTypeOK, NEW w \in Todo, NEW i \in Ids
    PROVE  After(w, i) \in Rows \cup {Inactive}
<1>1. rows[i] \in Rows \cup {Inactive}
  BY RowFacts
<1>2. w.do = "set" => Updated(rows[i], w.status, w.approval) \in Rows \cup {Inactive}
  BY <1>1, CommitFields, UpdatedType
<1> QED
  BY <1>1, <1>2, CommitFields DEF After, Telling

\* Rows written by their numbers.
LEMMA RowsChanged ==
    ASSUME DayTypeOK, NEW w \in Todo, NEW new \in Rows
    PROVE  /\ [i \in Ids |-> After(w, i)] \in Seq(Rows \cup {Inactive})
           /\ Len([i \in Ids |-> After(w, i)]) = Len(rows)
           /\ Append([i \in Ids |-> After(w, i)], new) \in Seq(Rows \cup {Inactive})
           /\ Len(Append([i \in Ids |-> After(w, i)], new)) = Len(rows) + 1
           /\ \A i \in Ids : Append([j \in Ids |-> After(w, j)], new)[i] = After(w, i)
           /\ Append([j \in Ids |-> After(w, j)], new)[Len(rows) + 1] = new
<1> DEFINE S == Rows \cup {Inactive}
           s == [i \in Ids |-> After(w, i)]
<1>1. Len(rows) \in Nat /\ Ids = 1..Len(rows)
  BY RowFacts
<1>2. s \in [1..Len(rows) -> S]
  BY <1>1, AfterType
<1>3. s \in Seq(S)
  BY <1>1, <1>2, SeqDef
<1>4. Len(s) = Len(rows)
  BY <1>1, <1>2, <1>3, LenProperties
<1>5. new \in S /\ \A i \in Ids : s[i] = After(w, i)
  OBVIOUS
<1> HIDE DEF s, S
<1>6. /\ Append(s, new) \in Seq(S) /\ Len(Append(s, new)) = Len(s) + 1
      /\ \A i \in 1..Len(s) : Append(s, new)[i] = s[i]
      /\ Append(s, new)[Len(s) + 1] = new
  BY <1>3, <1>5, AppendProperties
<1>7. \A i \in Ids : Append(s, new)[i] = After(w, i)
  BY <1>1, <1>4, <1>5, <1>6
<1> QED
  BY <1>3, <1>4, <1>6, <1>7 DEF s, S

Committed(r) ==
    LET w == Head(todo[r]) IN
    /\ todo[r] # Nothing
    /\ todo' = [todo EXCEPT ![r] = Tail(todo[r])]
    /\ UNCHANGED <<clock, job, notNull, raced, unmatched, faults>>
    /\ w.do = "food" => food' = food + w.amount /\ food' \in Foods
    /\ w.do # "food" => food' = food
    /\ w.do \notin Growing => rows' = [i \in Ids |-> After(w, i)]
    /\ w.do \in Growing => /\ Room
                           /\ rows' = Append([i \in Ids |-> After(w, i)], w.row)

LEMMA ContinueCommits ==
    ASSUME DayTypeInv, NEW r \in Callers, Continue(r)
    PROVE  Committed(r)
<1> DEFINE q == todo[r]
           w == Head(q)
           s == [i \in Ids |-> After(w, i)]
<1>1. rows \in [Ids -> Rows \cup {Inactive}] /\ q \in Seq(Todo)
  BY RowFacts DEF DayTypeInv
<1>2. ASSUME q # Nothing
      PROVE  w \in Todo /\ (w.do \in Naming => w.id \in Ids)
  <2>1. w \in Todo /\ w \in Commits(q)
    BY <1>1, <1>2, ListFacts
  <2> QED
    BY <2>1 DEF DayTypeInv
<1>3. \A do : Do(r, do) => /\ q # Nothing /\ w.do = do
                           /\ todo' = [todo EXCEPT ![r] = Tail(q)]
                           /\ UNCHANGED <<clock, job, notNull, raced, unmatched, faults>>
  BY DEF Do
<1>4. ASSUME w.do \in {"food", "add"} PROVE s = rows
  BY <1>1, <1>4 DEF After, Naming
<1>5. ASSUME w.do \in {"off", "swap"}, w.id \in Ids
      PROVE  s = [rows EXCEPT ![w.id] = Inactive]
  BY <1>1, <1>5 DEF After, Naming
<1>6. ASSUME w.do = "set", w.id \in Ids
      PROVE  s = [rows EXCEPT ![w.id] = Updated(@, w.status, w.approval)]
  BY <1>1, <1>6 DEF After, Naming
<1>7. ASSUME w.do = "revive", w.id \in Ids
      PROVE  s = [rows EXCEPT ![w.id] = w.row]
  BY <1>1, <1>7 DEF After, Naming
<1>8. ASSUME w.do = "renew" PROVE s = [i \in Ids |-> Inactive]
  BY <1>8 DEF After
<1> HIDE DEF s, q, w
<1>9. CASE CreditFood(r)
  BY <1>3, <1>4, <1>9 DEF CreditFood, Committed, Growing, q, w, s
<1>10. CASE SwitchOff(r)
  BY <1>2, <1>3, <1>5, <1>10 DEF SwitchOff, Committed, Growing, Naming, q, w, s
<1>11. CASE AddRow(r)
  BY <1>3, <1>4, <1>11 DEF AddRow, Committed, Growing, q, w, s
<1>12. CASE SetRow(r)
  BY <1>2, <1>3, <1>6, <1>12 DEF SetRow, Committed, Growing, Naming, q, w, s
<1>13. CASE SwapRow(r)
  BY <1>2, <1>3, <1>5, <1>13 DEF SwapRow, Committed, Growing, Naming, q, w, s
<1>14. CASE RenewRows(r)
  BY <1>3, <1>8, <1>14 DEF RenewRows, Committed, Growing, q, w, s
<1>15. CASE ReviveRow(r)
  BY <1>2, <1>3, <1>7, <1>15 DEF ReviveRow, Committed, Growing, Naming, q, w, s
<1> QED
  BY <1>9, <1>10, <1>11, <1>12, <1>13, <1>14, <1>15 DEF Continue
-----------------------------------------------------------------------------
(* Types.                                                                  *)

LEMMA TodoTypes ==
    ASSUME NEW q \in Seq(Todo)
    PROVE  \A k \in DOMAIN q : q[k] \in Todo
BY LenProperties

\* A handler begins.
LEMMA TakeTypes ==
    ASSUME DayTypeInv, NEW r \in Callers, NEW q \in Seq(Todo), NEW wrong \in BOOLEAN,
           Take(r, q, wrong), \A w \in Commits(q) : w.do \in Naming => w.id \in Ids
    PROVE  /\ DayTypeInv'
           /\ todo'[r] = q /\ \A s \in Callers : s # r => todo'[s] = todo[s]
<1>1. /\ todo' = [todo EXCEPT ![r] = q]
      /\ raced' \in BOOLEAN /\ unmatched' \in BOOLEAN
      /\ UNCHANGED <<rows, food, clock, job, notNull, faults>>
  BY DEF Take, Overlap
<1>2. /\ todo' \in [Callers -> Seq(Todo)] /\ todo'[r] = q
      /\ \A s \in Callers : s # r => todo'[s] = todo[s]
  BY <1>1 DEF DayTypeInv
<1>3. \A s \in Callers : \A k \in DOMAIN todo'[s] : todo'[s][k] \in Todo
  BY <1>2, TodoTypes
<1>4. DayTypeOK'
  BY <1>1, <1>3 DEF DayTypeInv, DayTypeOK
<1>5. \A s \in Callers : \A w \in Commits(todo'[s]) : w.do \in Naming => w.id \in Ids'
  <2> SUFFICES ASSUME NEW s \in Callers, NEW w \in Commits(todo'[s]), w.do \in Naming
               PROVE  w.id \in Ids
    BY <1>1 DEF Ids
  <2>1. CASE s = r
    BY <1>2, <2>1
  <2>2. CASE s # r
    BY <1>2, <2>2 DEF DayTypeInv
  <2> QED
    BY <2>1, <2>2
<1> QED
  BY <1>1, <1>2, <1>4, <1>5 DEF DayTypeInv, Commits, Ids, JobRuns

\* A request commits.
LEMMA CommitTypes ==
    ASSUME DayTypeInv, NEW r \in Callers, Committed(r)
    PROVE  /\ DayTypeInv'
           /\ Head(todo[r]) \in Todo /\ Head(todo[r]) \in Commits(todo[r])
           /\ todo'[r] = Tail(todo[r])
           /\ \A s \in Callers : s # r => todo'[s] = todo[s]
           /\ Len(rows') = IF Head(todo[r]).do \in Growing THEN Len(rows) + 1 ELSE Len(rows)
           /\ Ids' = 1..Len(rows')
           /\ \A i \in Ids : rows'[i] = After(Head(todo[r]), i)
           /\ Head(todo[r]).do \in Growing => rows'[Len(rows) + 1] = Head(todo[r]).row
<1> DEFINE q == todo[r]
           w == Head(q)
           t == Tail(q)
           s == [i \in Ids |-> After(w, i)]
<1>1. /\ q # Nothing /\ todo' = [todo EXCEPT ![r] = t]
      /\ UNCHANGED <<clock, job, notNull, raced, unmatched, faults>>
      /\ food' \in Foods
      /\ w.do \notin Growing => rows' = s
      /\ w.do \in Growing => Room /\ rows' = Append(s, w.row)
  BY DEF Committed, DayTypeInv, DayTypeOK
<1>2. DayTypeOK /\ q \in Seq(Todo)
  BY DEF DayTypeInv
<1>3. w \in Todo /\ t \in Seq(Todo) /\ Commits(q) = {w} \cup Commits(t)
  BY <1>1, <1>2, ListFacts
<1>4. /\ todo' \in [Callers -> Seq(Todo)] /\ todo'[r] = t
      /\ \A p \in Callers : p # r => todo'[p] = todo[p]
  BY <1>1, <1>3 DEF DayTypeInv
<1>5. w.do \in Growing => w.row \in Rows
  BY <1>3, CommitFields DEF Growing, Telling
<1>6. Len(rows) \in Nat /\ Len(rows) <= MaxRows /\ Ids = 1..Len(rows) /\ MaxRows \in Nat
  BY <1>2, RowFacts, DayBounds
<1>7. /\ rows' \in Seq(Rows \cup {Inactive})
      /\ Len(rows') = IF w.do \in Growing THEN Len(rows) + 1 ELSE Len(rows)
      /\ \A i \in Ids : rows'[i] = After(w, i)
      /\ w.do \in Growing => rows'[Len(rows) + 1] = w.row
  <2>1. CASE w.do \in Growing
    <3>1. w.row \in Rows
      BY <1>5, <2>1
    <3>2. /\ Append(s, w.row) \in Seq(Rows \cup {Inactive})
          /\ Len(Append(s, w.row)) = Len(rows) + 1
          /\ \A i \in Ids : Append(s, w.row)[i] = After(w, i)
          /\ Append(s, w.row)[Len(rows) + 1] = w.row
      BY <1>2, <1>3, <3>1, RowsChanged
    <3>3. rows' = Append(s, w.row)
      BY <1>1, <2>1
    <3> HIDE DEF s, w
    <3> QED
      BY <2>1, <3>2, <3>3
  <2>2. CASE w.do \notin Growing
    <3>1. \E row \in Rows : TRUE
      BY NewRow, Words
    <3>2. s \in Seq(Rows \cup {Inactive}) /\ Len(s) = Len(rows)
      BY <1>2, <1>3, <3>1, RowsChanged
    <3> QED
      BY <1>1, <2>2, <3>2
  <2> QED
    BY <2>1, <2>2
<1>8. Ids' = 1..Len(rows')
  BY <1>7, LenProperties DEF Ids
<1>9. Len(rows') <= MaxRows /\ Len(rows) <= Len(rows') /\ Ids \subseteq Ids'
  BY <1>1, <1>6, <1>7, <1>8 DEF Room
<1>10. \A p \in Callers : \A k \in DOMAIN todo'[p] : todo'[p][k] \in Todo
  BY <1>4, TodoTypes
<1>11. DayTypeOK'
  BY <1>1, <1>2, <1>7, <1>9, <1>10 DEF DayTypeOK, Foods
<1>12. \A p \in Callers : \A v \in Commits(todo'[p]) : v.do \in Naming => v.id \in Ids'
  <2> SUFFICES ASSUME NEW p \in Callers, NEW v \in Commits(todo'[p]), v.do \in Naming
               PROVE  v.id \in Ids
    BY <1>9
  <2>1. v \in Commits(todo[p])
    BY <1>3, <1>4
  <2> QED
    BY <2>1 DEF DayTypeInv
<1>13. DayTypeInv'
  BY <1>1, <1>4, <1>9, <1>11, <1>12 DEF DayTypeInv, Commits, JobRuns, JobTypes
<1> QED
  BY <1>3, <1>4, <1>7, <1>8, <1>13

\* A job reads.
LEMMA JobStepTypes ==
    ASSUME DayTypeInv, NEW step \in {"notCheckedIn", "missing", "commit"},
           NEW writes, NEW add, JobStep(step, writes, add),
           writes \subseteq [id : Ids, status : DayStatus \cup {"KEEP"},
                             approval : Approval \cup {"KEEP"}],
           add \subseteq Rows, unmatched' \in BOOLEAN
    PROVE  DayTypeInv'
<1>1. /\ job' = [step |-> step, writes |-> writes, add |-> add] /\ raced' \in BOOLEAN
      /\ UNCHANGED <<rows, food, clock, todo, notNull, faults>>
  BY DEF JobStep, Overlap
<1>2. Ids \subseteq 1..MaxRows
  BY RowFacts DEF DayTypeInv
<1>3. job' \in JobTypes /\ job'.step = step /\ job'.writes = writes /\ job'.add = add
  BY <1>1, <1>2 DEF JobTypes
<1>4. DayTypeOK'
  BY <1>1, <1>3 DEF DayTypeInv, DayTypeOK, JobTypes
<1>5. JobRuns'
  BY <1>3 DEF JobRuns
<1> QED
  BY <1>1, <1>3, <1>4, <1>5 DEF DayTypeInv, Ids, Commits

\* What each job has found to write.
Forgotten ==
    {Write(i, "CHECKED_OUT", IF rows[i].approval = "APPROVED" THEN "KEEP" ELSE "PENDING") :
       i \in {j \in Active : rows[j].status = "CHECKED_IN" /\ rows[j].approval # "REJECTED"}}
Missed ==
    {MarkedAbsent(i) : i \in {j \in Active : rows[j].status = "NOT_CHECKED_IN_YET"}}
LeftOpen ==
    {Write(i, "APPROVAL_PENDING", "KEEP") :
       i \in {j \in Active : rows[j].status = "CHECKED_OUT" /\ rows[j].approval = "PENDING"}}
Undecided == {AutoApproved(i) : i \in {j \in Active : rows[j].approval = "PENDING"}}

Writes == [id : Ids, status : DayStatus \cup {"KEEP"}, approval : Approval \cup {"KEEP"}]

LEMMA JobWrites ==
    ASSUME DayTypeOK
    PROVE  Forgotten \subseteq Writes /\ Missed \subseteq Writes
           /\ LeftOpen \subseteq Writes /\ Undecided \subseteq Writes
<1>1. \A i \in Active : i \in Ids /\ rows[i].status \in DayStatus
  BY RowFacts DEF Rows
<1>2. Forgotten \subseteq Writes
  BY <1>1, Words DEF Forgotten, Write, Writes
<1>3. Missed \subseteq Writes
  BY <1>1, Words DEF Missed, MarkedAbsent, Write, Writes
<1>4. LeftOpen \subseteq Writes
  BY <1>1, Words DEF LeftOpen, Write, Writes
<1>5. Undecided \subseteq Writes
  BY <1>1, Words DEF Undecided, AutoApproved, Write, Writes
<1> QED
  BY <1>2, <1>3, <1>4, <1>5

LEMMA EntryRows ==
    ASSUME NEW row \in Entries
    PROVE  /\ row \in Rows /\ row.status # "PRESENT"
           /\ row.approval = "NONE" => row.status \in {"HOLIDAY", "NOT_CHECKED_IN_YET"}
<1>1. PICK s \in DayStatus, a \in Approval :
        /\ row = DayRow(s, a) /\ s # "PRESENT"
        /\ a = "NONE" => s \in {"HOLIDAY", "NOT_CHECKED_IN_YET"}
  BY Words DEF Entries
<1> QED
  BY <1>1, NewRow

\* A job of one hour that reads once, or the last read of the evening's.
Found(step, writes, add) ==
    /\ JobStep(step, writes, add)
    /\ Hour \in JobHours
    /\ \/ /\ Hour = "night" /\ job.step = "due" /\ step = "commit"
          /\ writes = {} /\ add \subseteq Entries /\ unmatched' = unmatched
          /\ add # {} => rows = <<>>
       \/ /\ Hour = "evening" /\ job.step = "due" /\ step = "notCheckedIn"
          /\ writes = Forgotten /\ add = {} /\ unmatched' = unmatched
       \/ /\ job.step = "notCheckedIn" /\ step = "missing"
          /\ writes = job.writes \cup Missed /\ add = {} /\ unmatched' = unmatched
       \/ /\ job.step = "missing" /\ step = "commit" /\ writes = job.writes
          /\ add = (IF rows = <<>> THEN {DayRow("ABSENT", "PENDING")} ELSE {})
          /\ unmatched' = unmatched
       \/ /\ Hour = "midnight" /\ job.step = "due" /\ step = "commit"
          /\ writes = LeftOpen /\ add = {} /\ unmatched' = unmatched
       \/ /\ Hour = "month" /\ job.step = "due" /\ step = "commit"
          /\ writes = Undecided /\ add = {}
          /\ unmatched' = (unmatched \/ \E i \in Active :
               /\ rows[i].approval = "PENDING"
               /\ rows[i].status \in {"PRESENT", "CHECKED_OUT", "HALF_DAY", "APPROVAL_PENDING"})

\* The evening's job is the only one of several steps.
StepsInv ==
    /\ job.step \in {"notCheckedIn", "missing"} => Hour = "evening" /\ job.add = {}
    /\ JobRuns => Hour \in JobHours

Reads ==
    \/ \E entry \in Entries : ReadToEnter(entry)
    \/ ReadCheckedIn \/ ReadNotCheckedIn \/ ReadMissing \/ ReadCheckedOut \/ ReadUndecided

LEMMA ReadsFind ==
    ASSUME DayTypeInv, StepsInv, Reads
    PROVE  \E step \in {"notCheckedIn", "missing", "commit"}, writes \in SUBSET Writes,
              add \in SUBSET Rows : Found(step, writes, add)
<1>0. /\ Forgotten \in SUBSET Writes /\ Missed \in SUBSET Writes
      /\ LeftOpen \in SUBSET Writes /\ Undecided \in SUBSET Writes
      /\ {} \in SUBSET Writes /\ {} \in SUBSET Rows
  BY JobWrites DEF DayTypeInv
<1>w. job.writes \in SUBSET Writes
  BY DEF DayTypeInv, JobTypes, Writes
<1>h. {"night", "evening", "midnight", "month"} = JobHours
  BY DEF JobHours
<1>1. CASE \E entry \in Entries : ReadToEnter(entry)
  <2>1. PICK entry \in Entries : ReadToEnter(entry)
    BY <1>1
  <2> DEFINE add == IF rows = <<>> THEN {entry} ELSE {}
  <2>2. add \in SUBSET Rows /\ add \subseteq Entries /\ (add # {} => rows = <<>>)
    BY <2>1, EntryRows
  <2>3. Found("commit", {}, add)
    BY <1>h, <2>1, <2>2 DEF ReadToEnter, Found
  <2> QED
    BY <1>0, <2>2, <2>3
<1>2. CASE ReadCheckedIn
  <2>1. Found("notCheckedIn", Forgotten, {})
    BY <1>h, <1>2 DEF ReadCheckedIn, Found, Forgotten
  <2> QED
    BY <1>0, <2>1
<1>3. CASE ReadNotCheckedIn
  <2>1. Found("missing", job.writes \cup Missed, {})
    BY <1>h, <1>3 DEF ReadNotCheckedIn, Found, Missed, StepsInv
  <2>2. job.writes \cup Missed \in SUBSET Writes
    BY <1>0, <1>w
  <2> QED
    BY <1>0, <2>1, <2>2
<1>4. CASE ReadMissing
  <2> DEFINE add == IF rows = <<>> THEN {DayRow("ABSENT", "PENDING")} ELSE {}
  <2>1. Found("commit", job.writes, add)
    BY <1>h, <1>4 DEF ReadMissing, Found, StepsInv
  <2>2. add \in SUBSET Rows
    BY NewRow, Words
  <2> QED
    BY <1>w, <2>1, <2>2
<1>5. CASE ReadCheckedOut
  <2>1. Found("commit", LeftOpen, {})
    BY <1>h, <1>5 DEF ReadCheckedOut, Found, LeftOpen
  <2> QED
    BY <1>0, <2>1
<1>6. CASE ReadUndecided
  <2>1. Found("commit", Undecided, {})
    BY <1>h, <1>6 DEF ReadUndecided, Found, Undecided
  <2> QED
    BY <1>0, <2>1
<1> QED
  BY <1>1, <1>2, <1>3, <1>4, <1>5, <1>6 DEF Reads

LEMMA FoundTypes ==
    ASSUME DayTypeInv, NEW step \in {"notCheckedIn", "missing", "commit"},
           NEW writes \in SUBSET Writes, NEW add \in SUBSET Rows, Found(step, writes, add)
    PROVE  /\ DayTypeInv'
           /\ job' = [step |-> step, writes |-> writes, add |-> add]
           /\ UNCHANGED <<rows, food, clock, todo, notNull, faults>>
<1>1. unmatched' \in BOOLEAN
  BY Zenon DEF Found, DayTypeInv, DayTypeOK
<1>2. JobStep(step, writes, add)
  BY DEF Found
<1> QED
  BY <1>1, <1>2, JobStepTypes DEF Writes, JobStep

\* A job commits.
LEMMA JobCommitTypes ==
    ASSUME DayTypeInv, CommitJob
    PROVE  /\ DayTypeInv'
           /\ job' = [NoWrites EXCEPT !.step = "done"]
           /\ UNCHANGED <<food, clock, todo, notNull, raced, unmatched, faults>>
           /\ \A i \in Ids : /\ rows'[i] = Written(i)
                             /\ Written(i) \in Rows \cup {Inactive}
                             /\ Written(i).active = rows[i].active
           /\ job.add = {} => Len(rows') = Len(rows)
           /\ job.add # {} => Len(rows') = Len(rows) + 1 /\ rows'[Len(rows) + 1] \in job.add
           /\ Ids' = 1..Len(rows')
<1> DEFINE S == Rows \cup {Inactive}
           u == [i \in Ids |-> Written(i)]
           row == CHOOSE x \in job.add : TRUE
<1>1. /\ job.add # {} => Room
      /\ rows' = IF job.add = {} THEN u ELSE Append(u, row)
      /\ job' = [NoWrites EXCEPT !.step = "done"]
      /\ UNCHANGED <<food, clock, todo, notNull, raced, unmatched, faults>>
  BY DEF CommitJob
<1>2. Len(rows) \in Nat /\ Len(rows) <= MaxRows /\ Ids = 1..Len(rows) /\ MaxRows \in Nat
  BY RowFacts, DayBounds DEF DayTypeInv
<1>3. ASSUME NEW i \in Ids
      PROVE  Written(i) \in S /\ Written(i).active = rows[i].active
  <2> DEFINE ws == {w \in job.writes : w.id = i}
             w == CHOOSE x \in ws : TRUE
  <2>1. rows[i] \in S
    BY RowFacts DEF DayTypeInv
  <2>2. CASE ws = {}
    BY <2>1, <2>2 DEF Written
  <2>3. CASE ws # {}
    <3>1. w \in ws
      BY <2>3
    <3>2. w.status \in DayStatus \cup {"KEEP"} /\ w.approval \in Approval \cup {"KEEP"}
      BY <3>1 DEF DayTypeInv, JobTypes
    <3>3. Written(i) = Updated(rows[i], w.status, w.approval)
      BY <2>3 DEF Written
    <3> HIDE DEF w
    <3> QED
      BY <2>1, <3>2, <3>3, UpdatedType
  <2> QED
    BY <2>2, <2>3
<1>4. u \in Seq(S) /\ Len(u) = Len(rows) /\ \A i \in Ids : u[i] = Written(i)
  <2>1. u \in [1..Len(rows) -> S]
    BY <1>2, <1>3
  <2>2. u \in Seq(S)
    BY <1>2, <2>1, SeqDef
  <2> QED
    BY <1>2, <2>1, <2>2, LenProperties
<1>5. job.add # {} => row \in job.add /\ row \in S
  BY DEF DayTypeInv, JobTypes
<1> HIDE DEF u, S, row
<1>6. job.add # {} => /\ Append(u, row) \in Seq(S) /\ Len(Append(u, row)) = Len(u) + 1
                      /\ \A i \in 1..Len(u) : Append(u, row)[i] = u[i]
                      /\ Append(u, row)[Len(u) + 1] = row
  BY <1>4, <1>5, AppendProperties
<1>7. /\ rows' \in Seq(S)
      /\ \A i \in Ids : rows'[i] = Written(i)
      /\ job.add = {} => Len(rows') = Len(rows)
      /\ job.add # {} => Len(rows') = Len(rows) + 1 /\ rows'[Len(rows) + 1] \in job.add
  BY <1>1, <1>2, <1>4, <1>5, <1>6
<1>8. Ids' = 1..Len(rows')
  BY <1>7, LenProperties DEF Ids
<1>9. Len(rows') <= MaxRows /\ Ids \subseteq Ids'
  BY <1>1, <1>2, <1>7, <1>8 DEF Room
<1>10. /\ job' \in JobTypes /\ job'.step = "done" /\ job'.writes = {} /\ job'.add = {}
  BY <1>1 DEF NoWrites, JobTypes
<1>11. DayTypeOK'
  BY <1>1, <1>7, <1>9, <1>10 DEF DayTypeInv, DayTypeOK, Foods, JobTypes, S
<1>12. DayTypeInv'
  BY <1>1, <1>9, <1>10, <1>11 DEF DayTypeInv, Commits
<1> QED
  BY <1>1, <1>3, <1>7, <1>8, <1>12 DEF S

LEMMA DayStarts ==
    ASSUME DayInit
    PROVE  DayTypeInv /\ StepsInv
<1>1. /\ rows = <<>> /\ food = 0 /\ clock = 1 /\ job = NoWrites /\ faults = 0
      /\ todo = [r \in Callers |-> Nothing]
      /\ notNull \in BOOLEAN /\ raced \in BOOLEAN /\ unmatched \in BOOLEAN
  BY DayBounds DEF DayInit
<1>2. Len(rows) = 0 /\ rows \in Seq(Rows \cup {Inactive}) /\ Len(rows) <= MaxRows
  BY <1>1, DayBounds
<1>3. food \in Foods /\ clock \in DOMAIN Hours /\ faults \in 0..MaxFaults
  BY <1>1, DayBounds DEF Foods, Hours
<1>4. job \in JobTypes /\ job.step = "due" /\ job.writes = {} /\ job.add = {}
  BY <1>1 DEF NoWrites, JobTypes
<1>5. todo \in [Callers -> Seq(Todo)] /\ \A r \in Callers : Commits(todo[r]) = {}
  BY <1>1, NoList
<1>6. \A r \in Callers : \A k \in DOMAIN todo[r] : todo[r][k] \in Todo
  BY <1>5, TodoTypes
<1>7. DayTypeOK
  BY <1>1, <1>2, <1>3, <1>4, <1>6 DEF DayTypeOK, JobTypes
<1> QED
  BY <1>4, <1>5, <1>7 DEF DayTypeInv, StepsInv, JobRuns

\* What stops in the middle, and the passing of an hour.
LEMMA StopTypes ==
    ASSUME DayTypeInv, NEW r \in Callers, Stop(r)
    PROVE  /\ DayTypeInv'
           /\ todo'[r] = Nothing /\ \A s \in Callers : s # r => todo'[s] = todo[s]
<1>1. /\ todo' = [todo EXCEPT ![r] = Nothing]
      /\ faults < MaxFaults /\ faults' = faults + 1
      /\ UNCHANGED <<rows, food, clock, job, notNull, raced, unmatched>>
  BY DEF Stop
<1>2. /\ todo' \in [Callers -> Seq(Todo)] /\ todo'[r] = Nothing
      /\ \A s \in Callers : s # r => todo'[s] = todo[s]
  BY <1>1, NoList DEF DayTypeInv
<1>3. faults' \in 0..MaxFaults
  BY <1>1, DayBounds DEF DayTypeInv, DayTypeOK
<1>4. \A s \in Callers : \A k \in DOMAIN todo'[s] : todo'[s][k] \in Todo
  BY <1>2, TodoTypes
<1>5. DayTypeOK'
  BY <1>1, <1>3, <1>4 DEF DayTypeInv, DayTypeOK, Foods
<1>6. \A s \in Callers : \A w \in Commits(todo'[s]) : w \in Commits(todo[s])
  <2>1. Commits(todo'[r]) = {}
    BY <1>2, NoList
  <2> QED
    BY <1>2, <2>1
<1> QED
  BY <1>1, <1>2, <1>5, <1>6 DEF DayTypeInv, Ids, Commits, JobRuns

LEMMA JobStopTypes ==
    ASSUME DayTypeInv, AbortEntry \/ StopJob
    PROVE  DayTypeInv' /\ job' = [NoWrites EXCEPT !.step = "done"]
<1>1. /\ job' = [NoWrites EXCEPT !.step = "done"] /\ faults' \in 0..MaxFaults
      /\ UNCHANGED <<rows, food, clock, todo, notNull, raced, unmatched>>
  BY DayBounds DEF AbortEntry, StopJob, DayTypeInv, DayTypeOK
<1>2. job' \in JobTypes /\ job'.step = "done" /\ job'.writes = {} /\ job'.add = {}
  BY <1>1 DEF NoWrites, JobTypes
<1>3. DayTypeOK'
  BY <1>1, <1>2 DEF DayTypeInv, DayTypeOK, Foods, JobTypes
<1> QED
  BY <1>1, <1>2, <1>3 DEF DayTypeInv, Ids, Commits

LEMMA TickTypes ==
    ASSUME DayTypeInv, Tick
    PROVE  DayTypeInv' /\ job' = NoWrites /\ clock' = clock + 1
<1>1. /\ job' = NoWrites /\ clock < Len(Hours) /\ clock' = clock + 1
      /\ UNCHANGED <<rows, food, todo, notNull, raced, unmatched, faults>>
  BY DEF Tick
<1>2. job' \in JobTypes /\ job'.step = "due" /\ job'.writes = {} /\ job'.add = {}
  BY <1>1 DEF NoWrites, JobTypes
<1>3. clock' \in DOMAIN Hours
  BY <1>1 DEF DayTypeInv, DayTypeOK, Hours
<1>4. DayTypeOK'
  BY <1>1, <1>2, <1>3 DEF DayTypeInv, DayTypeOK, Foods, JobTypes
<1> QED
  BY <1>1, <1>2, <1>4 DEF DayTypeInv, Ids, Commits

LEMMA PlanNames ==
    ASSUME DayTypeInv, NEW q, NEW wrong, Plan(q, wrong)
    PROVE  \A w \in Commits(q) : w.do \in Naming => w.id \in Ids
BY RowFacts DEF Plan, DayTypeInv

\* The steps there are.
LEMMA DaySteps ==
    ASSUME DayTypeInv, StepsInv, [DayNext]_dayVars
    PROVE  \/ \E r \in Callers : Begun(r) \/ Committed(r) \/ Stop(r)
           \/ \E step \in {"notCheckedIn", "missing", "commit"}, writes \in SUBSET Writes,
                 add \in SUBSET Rows : Found(step, writes, add)
           \/ CommitJob \/ AbortEntry \/ StopJob \/ Tick \/ UNCHANGED dayVars
<1>1. CASE \E r \in Callers : Begin(r) \/ Continue(r) \/ Stop(r)
  BY <1>1, BeginBegins, ContinueCommits DEF DayTypeInv
<1>2. CASE Job
  BY <1>2, ReadsFind DEF Job, Reads
<1> QED
  BY <1>1, <1>2 DEF DayNext

LEMMA StepsStep ==
    ASSUME DayTypeInv, StepsInv, [DayNext]_dayVars
    PROVE  DayTypeInv' /\ StepsInv'
<1>1. CASE \E r \in Callers : Begun(r)
  <2>1. PICK r \in Callers, wrong \in BOOLEAN, q \in Seq(Todo) : Take(r, q, wrong) /\ Plan(q, wrong)
    BY <1>1 DEF Begun
  <2>2. DayTypeInv'
    BY <2>1, PlanNames, TakeTypes
  <2>3. UNCHANGED <<clock, job>>
    BY <2>1 DEF Take
  <2> QED
    BY <2>2, <2>3 DEF StepsInv, JobRuns, Hour
<1>2. CASE \E r \in Callers : Committed(r)
  <2>1. UNCHANGED <<clock, job>>
    BY <1>2 DEF Committed
  <2> QED
    BY <1>2, <2>1, CommitTypes DEF StepsInv, JobRuns, Hour
<1>3. CASE \E r \in Callers : Stop(r)
  <2>1. UNCHANGED <<clock, job>>
    BY <1>3 DEF Stop
  <2> QED
    BY <1>3, <2>1, StopTypes DEF StepsInv, JobRuns, Hour
<1>4. ASSUME NEW step \in {"notCheckedIn", "missing", "commit"}, NEW writes \in SUBSET Writes,
             NEW add \in SUBSET Rows, Found(step, writes, add)
      PROVE  DayTypeInv' /\ StepsInv'
  <2>1. /\ DayTypeInv' /\ clock' = clock
        /\ job' = [step |-> step, writes |-> writes, add |-> add]
    BY <1>4, FoundTypes
  <2>2. Hour \in JobHours /\ (step \in {"notCheckedIn", "missing"} => Hour = "evening" /\ add = {})
    BY <1>4 DEF Found, StepsInv
  <2> QED
    BY <2>1, <2>2 DEF StepsInv, Hour
<1>5. CASE CommitJob \/ AbortEntry \/ StopJob
  <2>1. DayTypeInv' /\ job'.step = "done"
    BY <1>5, JobCommitTypes, JobStopTypes DEF NoWrites
  <2> QED
    BY <2>1 DEF StepsInv, JobRuns
<1>6. CASE Tick
  <2>1. DayTypeInv' /\ job'.step = "due"
    BY <1>6, TickTypes DEF NoWrites
  <2> QED
    BY <2>1 DEF StepsInv, JobRuns
<1>7. CASE UNCHANGED dayVars
  BY <1>7 DEF dayVars, DayTypeInv, DayTypeOK, StepsInv, JobTypes, JobRuns, Hour, Ids, Commits, Foods
<1> QED
  BY <1>1, <1>2, <1>3, <1>4, <1>5, <1>6, <1>7, DaySteps

\* What requests and jobs are about to write fits the rows there are,
\* whatever overlaps.
THEOREM DayTypesHold == DaySpec => [](DayTypeInv /\ StepsInv)
<1>1. DayInit => DayTypeInv /\ StepsInv
  BY DayStarts
<1>2. DayTypeInv /\ StepsInv /\ [DayNext]_dayVars => (DayTypeInv /\ StepsInv)'
  BY StepsStep
<1> QED
  BY <1>1, <1>2, PTL DEF DaySpec

\* The rows of the day, its food, its job and its requests have their types,
\* for any number of requests that overlap each other and the jobs.
THEOREM DayTypeCorrect == DaySpec => []DayTypeOK
<1>1. DayTypeInv /\ StepsInv => DayTypeOK
  BY DEF DayTypeInv
<1> QED
  BY <1>1, DayTypesHold, PTL
-----------------------------------------------------------------------------
(* A day that was entered keeps an active row.                             *)

\* A row is switched off before or after its successor was inserted, which is
\* a later one; so if no successor of the last row is on its way, it is active.
LastInv ==
    /\ \A r \in Callers : \A w \in Commits(todo[r]) :
         w.do = "off" => w.id < Len(rows) \/ Has(todo[r], Growing)
    /\ faults = 0 /\ rows # <<>> =>
         rows[Len(rows)].active \/ \E r \in Callers : Has(todo[r], Growing)

LEMMA EmptyRows ==
    ASSUME DayTypeOK
    PROVE  /\ rows = <<>> <=> Len(rows) = 0
           /\ rows # <<>> => Len(rows) \in Ids
<1>1. rows \in Seq(Rows \cup {Inactive})
  BY DEF DayTypeOK
<1> QED
  BY <1>1, EmptySeq, RowFacts

LEMMA LastTaken ==
    ASSUME DayTypeInv, LastInv, NEW r \in Callers, Begun(r)
    PROVE  LastInv'
<1>1. PICK wrong \in BOOLEAN, q \in Seq(Todo) : Take(r, q, wrong) /\ Plan(q, wrong)
  BY DEF Begun
<1>2. /\ todo'[r] = q /\ \A s \in Callers : s # r => todo'[s] = todo[s]
      /\ todo[r] = Nothing /\ rows' = rows /\ faults' = faults
  BY <1>1, PlanNames, TakeTypes DEF Take
<1>3. Has(q, {"off"}) => Has(q, Growing)
  BY <1>1 DEF Plan, Has, Growing
<1>4. ~Has(todo[r], Growing)
  BY <1>2, NoList DEF Has
<1>5. ASSUME NEW s \in Callers, NEW w \in Commits(todo'[s]), w.do = "off"
      PROVE  w.id < Len(rows) \/ Has(todo'[s], Growing)
  <2>1. CASE s = r
    BY <1>2, <1>3, <1>5, <2>1 DEF Has
  <2>2. CASE s # r
    BY <1>2, <1>5, <2>2 DEF LastInv
  <2> QED
    BY <2>1, <2>2
<1>6. ASSUME NEW s \in Callers, Has(todo[s], Growing)
      PROVE  Has(todo'[s], Growing)
  BY <1>2, <1>4, <1>6
<1> QED
  BY <1>2, <1>5, <1>6 DEF LastInv, Has, Commits

LEMMA LastCommitted ==
    ASSUME DayTypeInv, LastInv, NEW r \in Callers, Committed(r)
    PROVE  LastInv'
<1> DEFINE q == todo[r]
           w == Head(q)
           t == Tail(q)
           L == Len(rows)
<1>1. /\ w \in Todo /\ todo'[r] = t
      /\ \A s \in Callers : s # r => todo'[s] = todo[s]
      /\ Len(rows') = IF w.do \in Growing THEN L + 1 ELSE L
      /\ \A i \in Ids : rows'[i] = After(w, i)
      /\ w.do \in Growing => rows'[L + 1] = w.row
      /\ DayTypeOK'
  BY CommitTypes DEF DayTypeInv
<1>2. faults' = faults /\ q # Nothing /\ q \in Seq(Todo) /\ DayTypeOK
  BY DEF Committed, DayTypeInv
<1>3. Commits(q) = {w} \cup Commits(t)
  BY <1>2, ListFacts
<1>4. L \in Nat /\ Ids = 1..L /\ (rows # <<>> => L \in Ids) /\ (rows = <<>> <=> L = 0)
  BY <1>2, RowFacts, EmptyRows
<1>5. \A s \in Callers : \A v \in Commits(todo'[s]) : v \in Commits(todo[s])
  BY <1>1, <1>3
<1>6. w.do \notin Growing /\ Has(q, Growing) => Has(t, Growing)
  BY <1>3 DEF Has
<1> HIDE DEF q, w, t, L
<1>7. ASSUME NEW s \in Callers, NEW v \in Commits(todo'[s]), v.do = "off"
      PROVE  v.id < Len(rows') \/ Has(todo'[s], Growing)
  <2>1. v \in Commits(todo[s]) /\ v.id \in Ids
    BY <1>5, <1>7 DEF DayTypeInv, Naming
  <2>2. v.id < L \/ Has(todo[s], Growing)
    BY <1>7, <2>1 DEF LastInv, L
  <2>3. CASE w.do \in Growing
    BY <1>1, <1>4, <2>1, <2>3
  <2>4. CASE w.do \notin Growing
    BY <1>1, <1>6, <2>2, <2>4 DEF q
  <2> QED
    BY <2>3, <2>4
<1>8. ASSUME faults = 0, rows' # <<>>
      PROVE  rows'[Len(rows')].active \/ \E s \in Callers : Has(todo'[s], Growing)
  <2>1. CASE w.do \in Growing
    <3>1. w.row \in Rows
      BY <1>1, <2>1, CommitFields DEF Growing, Telling
    <3> QED
      BY <1>1, <1>2, <2>1, <3>1, RowFacts
  <2>2. CASE w.do \notin Growing
    <3>1. rows # <<>>
      <4>1. rows' \in Seq(Rows \cup {Inactive})
        BY <1>1 DEF DayTypeOK
      <4>2. Len(rows') # 0
        BY <1>8, <4>1, EmptySeq
      <4> QED
        BY <1>1, <1>4, <2>2, <4>2
    <3>2. Len(rows') = L /\ L \in Ids /\ rows'[L] = After(w, L)
      BY <1>1, <1>4, <2>2, <3>1
    <3>3. CASE \E s \in Callers : Has(todo[s], Growing)
      BY <1>1, <1>6, <2>2, <3>3 DEF q
    <3>4. CASE rows[L].active /\ ~(w.do = "off" /\ w.id = L)
      <4>1. rows[L] \in Rows
        BY <1>2, <3>2, <3>4, RowFacts DEF Active
      <4>2. w.do = "set" => Updated(rows[L], w.status, w.approval).active = rows[L].active
        BY <1>1, <4>1, CommitFields, UpdatedType
      <4>3. w.do = "revive" => w.row.active = TRUE
        BY <1>1, <1>2, CommitFields, RowFacts DEF Telling
      <4>4. After(w, L).active
        BY <1>1, <2>2, <3>4, <4>2, <4>3, CommitFields DEF After, Growing, Naming
      <4> QED
        BY <3>2, <4>4
    <3>5. CASE w.do = "off" /\ w.id = L
      <4>1. w.id < L \/ Has(q, Growing)
        BY <1>3, <3>5 DEF LastInv, q, L
      <4>2. Has(t, Growing)
        BY <1>4, <1>6, <2>2, <3>5, <4>1
      <4> QED
        BY <1>1, <4>2
    <3> QED
      BY <1>8, <3>1, <3>3, <3>4, <3>5 DEF LastInv, L
  <2> QED
    BY <2>1, <2>2
<1> QED
  BY <1>2, <1>7, <1>8 DEF LastInv, Has, Commits

LEMMA LastStep ==
    ASSUME DayTypeInv, StepsInv, LastInv, [DayNext]_dayVars
    PROVE  LastInv'
<1>1. CASE \E r \in Callers : Begun(r)
  BY <1>1, LastTaken
<1>2. CASE \E r \in Callers : Committed(r)
  BY <1>2, LastCommitted
<1>3. CASE \E r \in Callers : Stop(r)
  <2>1. PICK r \in Callers : Stop(r)
    BY <1>3
  <2>2. faults' # 0 /\ rows' = rows
    BY <2>1 DEF Stop, DayTypeInv, DayTypeOK
  <2>3. \A s \in Callers : s # r => todo'[s] = todo[s]
    BY <2>1, StopTypes
  <2>4. Commits(todo'[r]) = {}
    BY <2>1, StopTypes, NoList
  <2> QED
    BY <2>2, <2>3, <2>4 DEF LastInv, Has, Commits
<1>4. CASE UNCHANGED <<rows, todo>> /\ (faults' = faults \/ faults' = faults + 1)
  BY <1>4 DEF LastInv, Has, Commits, DayTypeInv, DayTypeOK
<1>5. CASE CommitJob
  <2>1. /\ UNCHANGED <<todo, faults>> /\ DayTypeOK /\ DayTypeOK'
        /\ \A i \in Ids : rows'[i].active = rows[i].active
        /\ job.add = {} => Len(rows') = Len(rows)
        /\ job.add # {} => Len(rows') = Len(rows) + 1 /\ rows'[Len(rows) + 1] \in job.add
    BY <1>5, JobCommitTypes DEF DayTypeInv
  <2>2. Len(rows) \in Nat /\ (rows # <<>> => Len(rows) \in Ids) /\ (rows = <<>> <=> Len(rows) = 0)
    BY <2>1, RowFacts, EmptyRows
  <2>3. rows' # <<>> => Len(rows') # 0
    <3>1. rows' \in Seq(Rows \cup {Inactive})
      BY <2>1 DEF DayTypeOK
    <3> QED
      BY <3>1, EmptySeq
  <2>4. \A row \in job.add : row.active
    BY <2>1, RowFacts DEF DayTypeOK
  <2>5. CASE job.add = {}
    BY <2>1, <2>2, <2>3, <2>5 DEF LastInv, Has, Commits
  <2>6. CASE job.add # {}
    <3>1. Len(rows') = Len(rows) + 1 /\ rows'[Len(rows')].active
      BY <2>1, <2>4, <2>6
    <3>2. \A s \in Callers : \A w \in Commits(todo[s]) :
             w.do = "off" => w.id < Len(rows') \/ Has(todo[s], Growing)
      <4> SUFFICES ASSUME NEW s \in Callers, NEW w \in Commits(todo[s]), w.do = "off"
                   PROVE  w.id < Len(rows') \/ Has(todo[s], Growing)
        OBVIOUS
      <4>1. w.id \in 1..Len(rows)
        BY <2>1, RowFacts DEF DayTypeInv, Naming
      <4> QED
        BY <2>2, <3>1, <4>1
    <3> QED
      BY <2>1, <3>1, <3>2 DEF LastInv, Has, Commits
  <2> QED
    BY <2>5, <2>6
<1>6. ASSUME NEW step \in {"notCheckedIn", "missing", "commit"}, NEW writes \in SUBSET Writes,
             NEW add \in SUBSET Rows, Found(step, writes, add)
      PROVE  LastInv'
  BY <1>4, <1>6, FoundTypes
<1>7. CASE AbortEntry \/ StopJob \/ Tick \/ UNCHANGED dayVars
  BY <1>4, <1>7 DEF AbortEntry, StopJob, Tick, dayVars
<1> QED
  BY <1>1, <1>2, <1>3, <1>5, <1>6, <1>7, DaySteps

LEMMA LastMeans ==
    ASSUME DayTypeInv, LastInv
    PROVE  SomethingActive
<1> SUFFICES ASSUME Quiet, faults = 0, rows # <<>> PROVE Active # {}
  BY DEF SomethingActive
<1>1. \A r \in Callers : ~Has(todo[r], Growing)
  BY NoList DEF Quiet, Has
<1>2. Len(rows) \in Ids /\ rows[Len(rows)].active
  BY <1>1, EmptyRows DEF LastInv, DayTypeInv
<1> QED
  BY <1>2 DEF Active

\* A day that has been entered does not get lost, however requests and jobs
\* overlap: SomethingActive.
THEOREM DayKeepsARow == DaySpec => []SomethingActive
<1>1. DayInit => LastInv
  <2> SUFFICES ASSUME DayInit PROVE LastInv
    OBVIOUS
  <2>1. \A r \in Callers : Commits(todo[r]) = {}
    BY NoList DEF DayInit
  <2> QED
    BY <2>1 DEF DayInit, LastInv
<1>2. DayTypeInv /\ StepsInv /\ LastInv /\ [DayNext]_dayVars => LastInv'
  BY LastStep
<1>3. DayTypeInv /\ LastInv => SomethingActive
  BY LastMeans
<1> QED
  BY <1>1, <1>2, <1>3, DayTypesHold, PTL DEF DaySpec
-----------------------------------------------------------------------------
(* Which rows are active, and which worked, after a commit.                *)

\* Rows a commit switches off or writes over, and where it puts what it says.
Left(w) == IF w.do \in Naming THEN {w.id} ELSE IF w.do = "renew" THEN Active ELSE {}
Place(w) == IF w.do \in Growing THEN Len(rows) + 1 ELSE w.id

LEMMA RowsAfter ==
    ASSUME DayTypeInv, NEW r \in Callers, Committed(r),
           Head(todo[r]).do \in Naming => Head(todo[r]).id \in Active
    PROVE  LET w == Head(todo[r]) IN
           /\ Active' = (Active \ Left(w)) \cup (IF w.do \in Telling \cup {"set"} THEN {Place(w)} ELSE {})
           /\ WorkedRows' = (WorkedRows \ Left(w)) \cup (IF Brings(w) THEN {Place(w)} ELSE {})
<1> DEFINE w == Head(todo[r])
           L == Len(rows)
           new == IF w.do \in Telling \cup {"set"} THEN {Place(w)} ELSE {}
           worked == IF Brings(w) THEN {Place(w)} ELSE {}
<1>1. /\ w \in Todo
      /\ Len(rows') = IF w.do \in Growing THEN L + 1 ELSE L
      /\ Ids' = 1..Len(rows')
      /\ \A i \in Ids : rows'[i] = After(w, i)
      /\ w.do \in Growing => rows'[L + 1] = w.row
  BY CommitTypes
<1>2. L \in Nat /\ Ids = 1..L /\ Inactive.active = FALSE
  BY RowFacts DEF DayTypeInv
<1>3. w.do \in {"food", "off", "add", "set", "swap", "renew", "revive"}
  BY <1>1, CommitFields
<1>4. w.do \in Telling => w.row \in Rows /\ w.row.active = TRUE
  BY <1>1, CommitFields, RowFacts DEF DayTypeInv
<1>5. \A i \in Active : i \in Ids /\ rows[i] \in Rows /\ rows[i].active = TRUE
  BY RowFacts DEF DayTypeInv
<1>6. w.do \in Naming => w.id \in Active /\ w.id \in Ids
  BY <1>5
<1>7. w.do = "set" => Updated(rows[w.id], w.status, w.approval).active = TRUE
  BY <1>1, <1>5, <1>6, CommitFields, UpdatedType DEF Naming
<1>9. L + 1 \notin Ids
  BY <1>2
<1> HIDE DEF w, L
<1>8. Ids' = IF w.do \in Growing THEN Ids \cup {L + 1} ELSE Ids
  <2>1. 1..(L + 1) = 1..L \cup {L + 1}
    BY <1>2
  <2>2. CASE w.do \in Growing
    BY <1>1, <1>2, <2>1, <2>2
  <2>3. CASE w.do \notin Growing
    BY <1>1, <1>2, <2>3
  <2> QED
    BY <2>2, <2>3
<1>10. ASSUME NEW i \in Ids
       PROVE  /\ i \in Active' <=> i \in (Active \ Left(w)) \cup new
              /\ i \in WorkedRows' <=> i \in (WorkedRows \ Left(w)) \cup worked
  <2>1. i \in Ids' /\ rows'[i] = After(w, i) /\ i # L + 1
    BY <1>1, <1>8, <1>9
  <2>2. /\ i \in Active' <=> After(w, i).active
        /\ i \in WorkedRows' <=> After(w, i).active /\ Worked(After(w, i))
    BY <2>1 DEF Active, WorkedRows
  <2>3. i \in Active <=> rows[i].active
    BY DEF Active
  <2>4. i \in WorkedRows <=> rows[i].active /\ Worked(rows[i])
    BY <2>3 DEF WorkedRows
  <2>5. CASE w.do = "renew"
    BY <1>2, <2>1, <2>2, <2>3, <2>4, <2>5
       DEF After, Left, Place, Brings, WorkedRows, Naming, Telling, Growing, L
  <2>6. CASE w.do \in {"food", "add"} \/ (w.do \in Naming /\ i # w.id)
    BY <1>3, <2>1, <2>2, <2>3, <2>4, <2>6
       DEF After, Left, Place, Brings, Naming, Telling, Growing, L
  <2>7. CASE w.do = "set" /\ i = w.id
    BY <1>7, <2>2, <2>3, <2>4, <2>7 DEF After, Left, Place, Brings, Naming, Telling, Growing
  <2>8. CASE w.do = "revive" /\ i = w.id
    BY <1>4, <2>2, <2>3, <2>4, <2>8 DEF After, Left, Place, Brings, Naming, Telling, Growing
  <2>9. CASE w.do \in {"off", "swap"} /\ i = w.id
    BY <1>2, <2>1, <2>2, <2>3, <2>4, <2>9
       DEF After, Left, Place, Brings, Naming, Telling, Growing, L
  <2> QED
    BY <1>3, <2>5, <2>6, <2>7, <2>8, <2>9 DEF Naming
<1>11. ASSUME w.do \in Growing
       PROVE  L + 1 \in Active' /\ L + 1 \in new
              /\ (L + 1 \in WorkedRows' <=> L + 1 \in worked)
  <2>1. L + 1 \in Ids' /\ rows'[L + 1] = w.row
    BY <1>1, <1>8, <1>11
  <2>2. w.do \in Telling /\ w.do # "set" /\ Place(w) = L + 1
    BY <1>11 DEF Growing, Telling, Place, L
  <2> QED
    BY <1>4, <2>1, <2>2 DEF Active, WorkedRows, Brings
<1>12. /\ Active' \subseteq Ids' /\ WorkedRows' \subseteq Ids'
       /\ Active \subseteq Ids /\ WorkedRows \subseteq Ids
  BY DEF Active, WorkedRows
<1>13. /\ new \subseteq Ids' /\ (w.do \notin Growing => new \subseteq Ids)
       /\ worked \subseteq Ids' /\ (w.do \notin Growing => worked \subseteq Ids)
  BY <1>6, <1>8 DEF Place, L, Brings, Telling, Growing, Naming
<1> HIDE DEF new, worked
<1>14. CASE w.do \in Growing
  BY <1>8, <1>9, <1>10, <1>11, <1>12, <1>13, <1>14 DEF w, new, worked
<1>15. CASE w.do \notin Growing
  BY <1>8, <1>10, <1>12, <1>13, <1>15 DEF w, new, worked
<1> QED
  BY <1>14, <1>15

LEMMA DayFinite ==
    ASSUME DayTypeOK
    PROVE  IsFiniteSet(Active) /\ IsFiniteSet(WorkedRows) /\ Cardinality(WorkedRows) \in Nat
           /\ Cardinality(Active) \in Nat
           /\ \A i \in Active : i \in 1..Len(rows)
<1>1. Active \subseteq 1..Len(rows) /\ WorkedRows \subseteq 1..Len(rows) /\ Len(rows) \in Nat
  BY RowFacts DEF Active, WorkedRows
<1>2. IsFiniteSet(1..Len(rows))
  BY <1>1, FS_Interval
<1> QED
  BY <1>1, <1>2, FS_Subset, FS_CardinalityType

\* One element goes and one comes.
LEMMA Exchange ==
    ASSUME NEW S, IsFiniteSet(S), NEW x, NEW y
    PROVE  /\ IsFiniteSet(S \ {x})
           /\ Cardinality(S \ {x}) = Cardinality(S) - Plus(x \in S)
           /\ Cardinality(S \cup {y}) = Cardinality(S) + Plus(y \notin S)
           /\ Cardinality((S \ {x}) \cup {y})
                = Cardinality(S) - Plus(x \in S) + Plus(y \notin S \ {x})
<1>1. ASSUME NEW T, IsFiniteSet(T), NEW z
      PROVE  /\ Cardinality(T \ {z}) = Cardinality(T) - Plus(z \in T)
             /\ Cardinality(T \cup {z}) = Cardinality(T) + Plus(z \notin T)
             /\ IsFiniteSet(T \ {z})
  <2>1. Cardinality(T) \in Nat
    BY <1>1, FS_CardinalityType
  <2>2. CASE z \in T
    <3>1. T \cup {z} = T
      BY <2>2
    <3>2. IsFiniteSet(T \ {z}) /\ Cardinality(T \ {z}) = Cardinality(T) - 1
      BY <1>1, <2>2, FS_RemoveElement
    <3>3. Cardinality(T \cup {z}) = Cardinality(T) + 0
      BY <2>1, <3>1
    <3> QED
      BY <2>2, <3>2, <3>3 DEF Plus
  <2>3. CASE z \notin T
    <3>1. T \ {z} = T
      BY <2>3
    <3>2. Cardinality(T \cup {z}) = Cardinality(T) + 1
      BY <1>1, <2>3, FS_AddElement
    <3>3. IsFiniteSet(T \ {z}) /\ Cardinality(T \ {z}) = Cardinality(T) - 0
      BY <1>1, <2>1, <3>1
    <3> QED
      BY <2>3, <3>2, <3>3 DEF Plus
  <2> QED
    BY <2>2, <2>3
<1>2. /\ Cardinality(S \ {x}) = Cardinality(S) - Plus(x \in S)
      /\ Cardinality(S \cup {y}) = Cardinality(S) + Plus(y \notin S)
      /\ IsFiniteSet(S \ {x})
  BY <1>1
<1>3. Cardinality((S \ {x}) \cup {y}) = Cardinality(S \ {x}) + Plus(y \notin S \ {x})
  BY <1>1, <1>2
<1> QED
  BY <1>2, <1>3
-----------------------------------------------------------------------------
(* Steps that overlap with nothing.                                        *)

\* One request or one job at a time; a list fits together and names active rows.
OrderInv ==
    ~raced =>
        /\ \A r, s \in Callers : todo[r] # Nothing /\ todo[s] # Nothing => r = s
        /\ JobRuns => \A r \in Callers : todo[r] = Nothing
        /\ \A r \in Callers : /\ Neat(todo[r])
                              /\ \A w \in Commits(todo[r]) : w.do \in Naming => w.id \in Active
        /\ job.add # {} => rows = <<>>

LEMMA BegunAlone ==
    ASSUME DayTypeInv, NEW r \in Callers, Begun(r), ~raced'
    PROVE  /\ ~raced /\ ~JobRuns /\ \A s \in Callers : todo[s] = Nothing
           /\ \A s \in Callers : s # r => todo'[s] = Nothing
           /\ UNCHANGED <<rows, food, clock, job, notNull, faults>>
           /\ \E wrong \in BOOLEAN :
                Plan(todo'[r], wrong) /\ unmatched' = (unmatched \/ wrong)
<1>1. PICK wrong \in BOOLEAN, q \in Seq(Todo) : Take(r, q, wrong) /\ Plan(q, wrong)
  BY DEF Begun
<1>2. /\ todo'[r] = q /\ \A s \in Callers : s # r => todo'[s] = todo[s]
  BY <1>1, PlanNames, TakeTypes
<1>3. /\ raced' = (raced \/ (JobRuns \/ \E s \in Callers : todo[s] # Nothing))
      /\ unmatched' = (unmatched \/ wrong)
      /\ UNCHANGED <<rows, food, clock, job, notNull, faults>>
  BY <1>1 DEF Take, Overlap
<1>4. ~raced /\ ~JobRuns /\ \A s \in Callers : todo[s] = Nothing
  BY <1>3
<1> QED
  BY <1>1, <1>2, <1>3, <1>4

\* What is left of a list after its first commit still fits.
LEMMA CommittedAlone ==
    ASSUME DayTypeInv, OrderInv, ~raced, NEW r \in Callers, Committed(r)
    PROVE  LET w == Head(todo[r])
               t == Tail(todo[r])
           IN  /\ ~JobRuns /\ todo'[r] = t
               /\ \A s \in Callers : s # r => todo[s] = Nothing /\ todo'[s] = Nothing
               /\ w \in Todo /\ t \in Seq(Todo) /\ Commits(todo[r]) = {w} \cup Commits(t)
               /\ Neat(t) /\ Neat(todo[r])
               /\ w.do \in Naming => w.id \in Active
               /\ \A v \in Commits(t) :
                    /\ v \in Todo /\ Pair(w, v)
                    /\ v.do \in Naming => /\ v.id \in Active /\ v.id \in Active'
                                          /\ rows'[v.id] = rows[v.id]
<1> DEFINE q == todo[r]
           w == Head(q)
           t == Tail(q)
<1>1. q # Nothing /\ q \in Seq(Todo)
  BY DEF Committed, DayTypeInv
<1>2. /\ w \in Todo /\ t \in Seq(Todo) /\ Commits(q) = {w} \cup Commits(t)
      /\ Neat(q) => Neat(t) /\ \A v \in Commits(t) : Pair(w, v)
  BY <1>1, ListFacts
<1>3. /\ ~JobRuns /\ Neat(q)
      /\ \A s \in Callers : s # r => todo[s] = Nothing
      /\ \A v \in Commits(q) : v.do \in Naming => v.id \in Active
  BY <1>1 DEF OrderInv
<1>4. /\ todo'[r] = t /\ \A s \in Callers : s # r => todo'[s] = todo[s]
      /\ \A i \in Ids : rows'[i] = After(w, i) /\ i \in Ids'
  <2>1. /\ Len(rows') = IF w.do \in Growing THEN Len(rows) + 1 ELSE Len(rows)
        /\ Ids' = 1..Len(rows') /\ Ids = 1..Len(rows) /\ Len(rows) \in Nat
    BY CommitTypes, RowFacts DEF DayTypeInv
  <2> QED
    BY <2>1, CommitTypes
<1>5. \A v \in Commits(t) : v \in Todo
  <2>1. \A k \in DOMAIN t : t[k] \in Todo
    BY <1>2, TodoTypes
  <2> QED
    BY <2>1 DEF Commits
<1> HIDE DEF q, w, t
<1>6. ASSUME NEW v \in Commits(t), v.do \in Naming
      PROVE  v.id \in Active /\ v.id \in Active' /\ rows'[v.id] = rows[v.id]
  <2>1. v.id \in Active /\ v.id \in Ids /\ rows[v.id].active
    BY <1>2, <1>3, <1>6 DEF Active
  <2>2. w.do \in {"food", "add"}
    BY <1>2, <1>3, <1>6, CommitFields DEF Pair, Naming
  <2>3. rows'[v.id] = rows[v.id] /\ v.id \in Ids'
    BY <1>4, <2>1, <2>2 DEF After, Naming
  <2> QED
    BY <2>1, <2>3 DEF Active
<1> QED
  BY <1>2, <1>3, <1>4, <1>5, <1>6 DEF q, w, t

LEMMA StopAlone ==
    ASSUME DayTypeInv, OrderInv, ~raced, NEW r \in Callers, Stop(r)
    PROVE  /\ ~JobRuns
           /\ \A s \in Callers : todo'[s] = Nothing /\ (s # r => todo[s] = Nothing)
           /\ faults' = faults + 1 /\ UNCHANGED <<rows, food, clock, job, notNull, raced, unmatched>>
<1>1. /\ todo[r] # Nothing /\ faults' = faults + 1
      /\ UNCHANGED <<rows, food, clock, job, notNull, raced, unmatched>>
  BY DEF Stop
<1>2. todo'[r] = Nothing /\ \A s \in Callers : s # r => todo'[s] = todo[s]
  BY StopTypes
<1> QED
  BY <1>1, <1>2 DEF OrderInv

LEMMA FoundAlone ==
    ASSUME DayTypeInv, NEW step \in {"notCheckedIn", "missing", "commit"},
           NEW writes \in SUBSET Writes, NEW add \in SUBSET Rows,
           Found(step, writes, add), ~raced'
    PROVE  ~raced /\ \A r \in Callers : todo[r] = Nothing
<1>1. raced' = (raced \/ \E r \in Callers : todo[r] # Nothing)
  BY DEF Found, JobStep, Overlap
<1> QED
  BY <1>1

\* Only a request or a job that begins overlaps with another.
LEMMA RacedBefore ==
    ASSUME DayTypeInv, StepsInv, [DayNext]_dayVars, ~raced'
    PROVE  ~raced
<1>1. ASSUME NEW r \in Callers, Begun(r) \/ Committed(r) \/ Stop(r) PROVE ~raced
  BY <1>1, BegunAlone DEF Committed, Stop
<1>2. ASSUME NEW step \in {"notCheckedIn", "missing", "commit"}, NEW writes \in SUBSET Writes,
             NEW add \in SUBSET Rows, Found(step, writes, add)
      PROVE  ~raced
  BY <1>2, FoundAlone
<1>3. ASSUME CommitJob \/ AbortEntry \/ StopJob \/ Tick \/ UNCHANGED dayVars PROVE ~raced
  BY <1>3 DEF CommitJob, AbortEntry, StopJob, Tick, dayVars
<1> QED
  BY <1>1, <1>2, <1>3, DaySteps

LEMMA OrderStep ==
    ASSUME DayTypeInv, StepsInv, OrderInv, [DayNext]_dayVars
    PROVE  OrderInv'
<1> SUFFICES ASSUME ~raced' PROVE OrderInv'
  BY DEF OrderInv
<1>0. ~raced
  BY RacedBefore
<1>1. ASSUME NEW r \in Callers, Begun(r) PROVE OrderInv'
  <2>1. /\ ~JobRuns /\ \A s \in Callers : s # r => todo'[s] = Nothing
        /\ UNCHANGED <<rows, job>>
    BY <1>1, BegunAlone
  <2>2. PICK wrong \in BOOLEAN : Plan(todo'[r], wrong)
    BY <1>1, BegunAlone
  <2>3. /\ Neat(todo'[r])
        /\ \A w \in Commits(todo'[r]) : w.do \in Naming => w.id \in Active
    BY <2>2 DEF Plan
  <2>4. \A s \in Callers : /\ Neat(todo'[s])
                           /\ \A w \in Commits(todo'[s]) : w.do \in Naming => w.id \in Active'
    BY <2>1, <2>3, NoList DEF Active, Ids
  <2> QED
    BY <1>0, <2>1, <2>4 DEF OrderInv, JobRuns, Neat, Commits
<1>2. ASSUME NEW r \in Callers, Committed(r) PROVE OrderInv'
  <2>1. /\ ~JobRuns /\ \A s \in Callers : s # r => todo'[s] = Nothing
        /\ todo'[r] = Tail(todo[r]) /\ Neat(Tail(todo[r]))
        /\ \A v \in Commits(Tail(todo[r])) : v.do \in Naming => v.id \in Active'
    BY <1>0, <1>2, CommittedAlone
  <2>2. \A s \in Callers : /\ Neat(todo'[s])
                           /\ \A w \in Commits(todo'[s]) : w.do \in Naming => w.id \in Active'
    BY <2>1, NoList
  <2>3. job' = job /\ job.add = {}
    BY <1>2, <2>1 DEF Committed, DayTypeInv
  <2> QED
    BY <2>1, <2>2, <2>3 DEF OrderInv, JobRuns, Neat, Commits
<1>3. ASSUME NEW r \in Callers, Stop(r) PROVE OrderInv'
  <2>1. /\ ~JobRuns /\ job' = job /\ rows' = rows /\ \A s \in Callers : todo'[s] = Nothing
    BY <1>0, <1>3, StopAlone
  <2>2. \A s \in Callers : Neat(todo'[s]) /\ Commits(todo'[s]) = {}
    BY <2>1, NoList
  <2> QED
    BY <1>0, <2>1, <2>2 DEF OrderInv, JobRuns, Neat, Commits
<1>4. ASSUME NEW step \in {"notCheckedIn", "missing", "commit"}, NEW writes \in SUBSET Writes,
             NEW add \in SUBSET Rows, Found(step, writes, add)
      PROVE  OrderInv'
  <2>1. \A r \in Callers : todo[r] = Nothing
    BY <1>4, FoundAlone
  <2>2. /\ job' = [step |-> step, writes |-> writes, add |-> add]
        /\ UNCHANGED <<rows, todo>>
    BY <1>4, FoundTypes
  <2>3. add # {} => rows = <<>>
    BY <1>4 DEF Found
  <2>4. \A s \in Callers : Neat(todo'[s]) /\ Commits(todo'[s]) = {}
    BY <2>1, <2>2, NoList
  <2> QED
    BY <2>1, <2>2, <2>3, <2>4 DEF OrderInv, Neat, Commits
<1>5. CASE CommitJob
  <2>1. /\ todo' = todo /\ ~JobRuns' /\ job'.add = {} /\ job.step = "commit"
    BY <1>5, JobCommitTypes DEF NoWrites, JobRuns, CommitJob
  <2>2. \A r \in Callers : todo[r] = Nothing
    BY <1>0, <2>1 DEF OrderInv, JobRuns
  <2>4. \A s \in Callers : Neat(todo'[s]) /\ Commits(todo'[s]) = {}
    BY <2>1, <2>2, NoList
  <2> QED
    BY <2>1, <2>2, <2>4 DEF OrderInv, Neat, Commits
<1>6. CASE AbortEntry \/ StopJob \/ Tick
  <2>1. UNCHANGED <<rows, todo>>
    BY <1>6 DEF AbortEntry, StopJob, Tick
  <2>2. ~JobRuns' /\ job'.add = {}
    BY <1>6, JobStopTypes, TickTypes DEF NoWrites, JobRuns
  <2> QED
    BY <1>0, <2>1, <2>2 DEF OrderInv, Neat, Commits, Active, Ids
<1>7. CASE UNCHANGED dayVars
  BY <1>7 DEF dayVars, OrderInv, Neat, Commits, Active, Ids, JobRuns
<1> QED
  BY <1>1, <1>2, <1>3, <1>4, <1>5, <1>6, <1>7, DaySteps
-----------------------------------------------------------------------------
(* What a job commits is what it would read at that moment.                *)

Entered == job.writes = {} /\ job.add \subseteq Entries
Absent == DayRow("ABSENT", "PENDING")

JobInv ==
    ~raced =>
        /\ job.step = "notCheckedIn" => job.writes = Forgotten
        /\ job.step = "missing" => job.writes = Forgotten \cup Missed
        /\ job.step = "commit" =>
             \/ Hour = "night" /\ Entered
             \/ /\ Hour = "evening" /\ job.writes = Forgotten \cup Missed
                /\ job.add = (IF rows = <<>> THEN {Absent} ELSE {})
             \/ Hour = "midnight" /\ job.writes = LeftOpen /\ job.add = {}
             \/ /\ Hour = "month" /\ job.writes = Undecided /\ job.add = {}
                /\ ~unmatched => \A i \in Active : rows[i].approval = "PENDING" =>
                     rows[i].status \notin {"PRESENT", "CHECKED_OUT", "HALF_DAY", "APPROVAL_PENDING"}

LEMMA JobStepStep ==
    ASSUME DayTypeInv, StepsInv, OrderInv, JobInv, [DayNext]_dayVars
    PROVE  JobInv'
<1> SUFFICES ASSUME ~raced' PROVE JobInv'
  BY DEF JobInv
<1>0. ~raced
  BY RacedBefore
<1>1. ASSUME ~JobRuns, UNCHANGED job PROVE JobInv'
  BY <1>1 DEF JobInv, JobRuns
<1>2. ASSUME NEW r \in Callers, Begun(r) \/ Committed(r) \/ Stop(r) PROVE JobInv'
  <2>1. ~JobRuns /\ UNCHANGED job
    BY <1>0, <1>2, BegunAlone, CommittedAlone, StopAlone DEF Committed
  <2> QED
    BY <1>1, <2>1
<1>3. ASSUME job'.step \in {"due", "done"} PROVE JobInv'
  BY <1>3 DEF JobInv
<1>4. CASE CommitJob \/ AbortEntry \/ StopJob \/ Tick
  <2>1. job'.step \in {"due", "done"}
    BY <1>4, JobCommitTypes, JobStopTypes, TickTypes DEF NoWrites
  <2> QED
    BY <1>3, <2>1
<1>5. ASSUME NEW step \in {"notCheckedIn", "missing", "commit"}, NEW writes \in SUBSET Writes,
             NEW add \in SUBSET Rows, Found(step, writes, add)
      PROVE  JobInv'
  <2>1. /\ job'.step = step /\ job'.writes = writes /\ job'.add = add
        /\ UNCHANGED <<rows, clock>>
    BY <1>5, FoundTypes
  <2>2. /\ Hour' = Hour /\ Forgotten' = Forgotten /\ Missed' = Missed /\ LeftOpen' = LeftOpen
        /\ Undecided' = Undecided /\ Active' = Active
    BY <2>1 DEF Hour, Forgotten, Missed, LeftOpen, Undecided, Active, Ids, AutoApproved
  <2>3. CASE Hour = "night" /\ step = "commit" /\ writes = {} /\ add \subseteq Entries
    BY <2>1, <2>2, <2>3 DEF JobInv, Entered
  <2>4. CASE Hour = "evening" /\ step = "notCheckedIn" /\ writes = Forgotten
    BY <2>1, <2>2, <2>4 DEF JobInv
  <2>5. CASE job.step = "notCheckedIn" /\ step = "missing" /\ writes = job.writes \cup Missed
    BY <1>0, <2>1, <2>2, <2>5 DEF JobInv
  <2>6. CASE job.step = "missing" /\ step = "commit" /\ writes = job.writes
             /\ add = (IF rows = <<>> THEN {Absent} ELSE {})
    BY <1>0, <2>1, <2>2, <2>6 DEF JobInv, StepsInv
  <2>7. CASE Hour = "midnight" /\ step = "commit" /\ writes = LeftOpen /\ add = {}
    BY <2>1, <2>2, <2>7 DEF JobInv
  <2>8. CASE /\ Hour = "month" /\ step = "commit" /\ writes = Undecided /\ add = {}
             /\ unmatched' = (unmatched \/ \E i \in Active :
                  /\ rows[i].approval = "PENDING"
                  /\ rows[i].status \in {"PRESENT", "CHECKED_OUT", "HALF_DAY", "APPROVAL_PENDING"})
    BY <2>1, <2>2, <2>8 DEF JobInv
  <2> QED
    BY <1>5, <2>3, <2>4, <2>5, <2>6, <2>7, <2>8 DEF Found, Absent
<1>6. CASE UNCHANGED dayVars
  BY <1>6 DEF dayVars, JobInv, Entered, Hour, Forgotten, Missed, LeftOpen, Undecided, Active, Ids,
              AutoApproved
<1> QED
  BY <1>2, <1>4, <1>5, <1>6, DaySteps

\* A row the job writes becomes what one of its writes says.
LEMMA WrittenIs ==
    ASSUME DayTypeInv, NEW i \in Ids
    PROVE  \/ Written(i) = rows[i] /\ \A w \in job.writes : w.id # i
           \/ \E w \in job.writes : /\ w.id = i /\ w \in Writes
                                    /\ Written(i) = Updated(rows[i], w.status, w.approval)
<1> DEFINE ws == {w \in job.writes : w.id = i}
           w == CHOOSE x \in ws : TRUE
<1>1. CASE ws = {}
  BY <1>1 DEF Written
<1>2. CASE ws # {}
  <2>1. w \in ws
    BY <1>2
  <2>2. Written(i) = Updated(rows[i], w.status, w.approval)
    BY <1>2 DEF Written
  <2>3. w \in Writes
    BY <2>1 DEF DayTypeInv, JobTypes, Writes
  <2> HIDE DEF w
  <2> QED
    BY <2>1, <2>2, <2>3
<1> QED
  BY <1>1, <1>2

\* What each job does to an active row.
LEMMA JobDoes ==
    ASSUME DayTypeInv, OrderInv, JobInv, ~raced, job.step = "commit", NEW i \in Active
    PROVE  LET s == rows[i].status
               a == rows[i].approval
               new == Written(i)
           IN  /\ Hour = "night" => new = rows[i]
               /\ Hour = "evening" =>
                    IF s = "CHECKED_IN" /\ a # "REJECTED"
                    THEN new = DayRow("CHECKED_OUT", IF a = "APPROVED" THEN a ELSE "PENDING")
                    ELSE IF s = "NOT_CHECKED_IN_YET" THEN new = Absent ELSE new = rows[i]
               /\ Hour = "midnight" =>
                    \/ new = rows[i]
                    \/ s = "CHECKED_OUT" /\ a = "PENDING" /\ new = DayRow("APPROVAL_PENDING", a)
               /\ Hour = "month" =>
                    IF a = "PENDING"
                    THEN new = DayRow(IF s \in {"CHECKED_OUT", "HALF_DAY", "APPROVAL_PENDING"}
                                      THEN "PRESENT" ELSE s, "APPROVED")
                    ELSE new = rows[i]
<1> DEFINE s == rows[i].status
           a == rows[i].approval
           new == Written(i)
<1>1. i \in Ids /\ rows[i] \in Rows /\ rows[i].active = TRUE /\ s \in DayStatus /\ a \in Approval
  BY RowFacts DEF DayTypeInv, Rows
<1>2. \/ new = rows[i] /\ \A w \in job.writes : w.id # i
      \/ \E w \in job.writes : /\ w.id = i /\ w \in Writes
                               /\ new = Updated(rows[i], w.status, w.approval)
  BY <1>1, WrittenIs
<1>3. \A w : Updated(rows[i], w.status, w.approval)
               = DayRow(IF w.status = "KEEP" THEN s ELSE w.status,
                        IF w.approval = "KEEP" THEN a ELSE w.approval)
  BY <1>1 DEF Updated
<1>4. "KEEP" \notin DayStatus /\ "KEEP" \notin Approval
  BY DEF DayStatus, Approval
<1> HIDE DEF new
<1>5. ASSUME Hour = "night" PROVE new = rows[i]
  BY <1>2, <1>5 DEF JobInv, Entered
<1>6. ASSUME Hour = "evening"
      PROVE  IF s = "CHECKED_IN" /\ a # "REJECTED"
             THEN new = DayRow("CHECKED_OUT", IF a = "APPROVED" THEN a ELSE "PENDING")
             ELSE IF s = "NOT_CHECKED_IN_YET" THEN new = Absent ELSE new = rows[i]
  <2>1. job.writes = Forgotten \cup Missed
    BY <1>6 DEF JobInv
  <2>2. \A w \in Forgotten : w.id = i =>
          /\ w.status = "CHECKED_OUT" /\ s = "CHECKED_IN" /\ a # "REJECTED"
          /\ w.approval = (IF a = "APPROVED" THEN "KEEP" ELSE "PENDING")
    BY DEF Forgotten, Write
  <2>3. \A w \in Missed : w.id = i =>
          w.status = "ABSENT" /\ w.approval = "PENDING" /\ s = "NOT_CHECKED_IN_YET"
    BY DEF Missed, MarkedAbsent, Write
  <2>4. s = "CHECKED_IN" /\ a # "REJECTED" => \E w \in Forgotten : w.id = i
    <3> DEFINE w == Write(i, "CHECKED_OUT", IF a = "APPROVED" THEN "KEEP" ELSE "PENDING")
    <3>1. w.id = i
      BY DEF Write
    <3>2. s = "CHECKED_IN" /\ a # "REJECTED" => w \in Forgotten
      BY DEF Forgotten
    <3> HIDE DEF w
    <3> QED
      BY <3>1, <3>2
  <2>5. s = "NOT_CHECKED_IN_YET" => \E w \in Missed : w.id = i
    <3>1. MarkedAbsent(i).id = i
      BY DEF MarkedAbsent, Write
    <3>2. s = "NOT_CHECKED_IN_YET" => MarkedAbsent(i) \in Missed
      BY DEF Missed
    <3> QED
      BY <3>1, <3>2
  <2>6. CASE s = "CHECKED_IN" /\ a # "REJECTED"
    <3>1. PICK w \in Forgotten : w.id = i /\ new = Updated(rows[i], w.status, w.approval)
      BY <1>2, <2>1, <2>3, <2>4, <2>6
    <3>2. w.status = "CHECKED_OUT" /\ w.approval = (IF a = "APPROVED" THEN "KEEP" ELSE "PENDING")
      BY <2>2, <3>1
    <3> QED
      BY <1>3, <2>6, <3>1, <3>2
  <2>7. CASE s = "NOT_CHECKED_IN_YET"
    <3>1. PICK w \in Missed : w.id = i /\ new = Updated(rows[i], w.status, w.approval)
      BY <1>2, <2>1, <2>2, <2>5, <2>7
    <3>2. w.status = "ABSENT" /\ w.approval = "PENDING"
      BY <2>3, <3>1
    <3> QED
      BY <1>3, <2>7, <3>1, <3>2 DEF Absent
  <2>8. CASE ~(s = "CHECKED_IN" /\ a # "REJECTED") /\ s # "NOT_CHECKED_IN_YET"
    BY <1>2, <2>1, <2>2, <2>3, <2>8
  <2> QED
    BY <2>6, <2>7, <2>8
<1>7. ASSUME Hour = "midnight"
      PROVE  \/ new = rows[i]
             \/ s = "CHECKED_OUT" /\ a = "PENDING" /\ new = DayRow("APPROVAL_PENDING", a)
  <2>1. \A w \in job.writes :
          /\ w.status = "APPROVAL_PENDING" /\ w.approval = "KEEP"
          /\ w.id = i => s = "CHECKED_OUT" /\ a = "PENDING"
    BY <1>7 DEF JobInv, LeftOpen, Write
  <2> QED
    BY <1>2, <1>3, <2>1
<1>8. ASSUME Hour = "month"
      PROVE  IF a = "PENDING"
             THEN new = DayRow(IF s \in {"CHECKED_OUT", "HALF_DAY", "APPROVAL_PENDING"}
                               THEN "PRESENT" ELSE s, "APPROVED")
             ELSE new = rows[i]
  <2>1. job.writes = Undecided
    BY <1>8 DEF JobInv
  <2>2. \A w \in Undecided : w.id = i =>
          /\ w.status = (IF s \in {"CHECKED_OUT", "HALF_DAY", "APPROVAL_PENDING"}
                         THEN "PRESENT" ELSE "KEEP")
          /\ w.approval = "APPROVED" /\ a = "PENDING"
    BY DEF Undecided, AutoApproved, Write
  <2>3. a = "PENDING" => \E w \in Undecided : w.id = i
    <3>1. AutoApproved(i).id = i
      BY DEF AutoApproved, Write
    <3>2. a = "PENDING" => AutoApproved(i) \in Undecided
      BY DEF Undecided
    <3> QED
      BY <3>1, <3>2
  <2>4. CASE a = "PENDING"
    <3>1. PICK w \in Undecided : w.id = i /\ new = Updated(rows[i], w.status, w.approval)
      BY <1>2, <2>1, <2>3, <2>4
    <3>2. /\ w.status = (IF s \in {"CHECKED_OUT", "HALF_DAY", "APPROVAL_PENDING"}
                         THEN "PRESENT" ELSE "KEEP")
          /\ w.approval = "APPROVED"
      BY <2>2, <3>1
    <3> QED
      BY <1>3, <2>4, <3>1, <3>2
  <2>5. CASE a # "PENDING"
    BY <1>2, <2>1, <2>2, <2>5
  <2> QED
    BY <2>4, <2>5
<1> QED
  BY <1>5, <1>6, <1>7, <1>8 DEF new
-----------------------------------------------------------------------------
(* The rows that are active, and what is still to come of a request.       *)

\* The list under way, if there is one at most; none is the empty list.
Current(f) ==
    {q \in {f[r] : r \in Callers} \cup {Nothing} : \A r \in Callers : f[r] \in {q, Nothing}}

LEMMA CurrentIs ==
    ASSUME NEW f
    PROVE  /\ (\A r \in Callers : f[r] = Nothing) => Current(f) = {Nothing}
           /\ \A r \in Callers : (\A s \in Callers : s # r => f[s] = Nothing) => Current(f) = {f[r]}
<1>1. ASSUME \A r \in Callers : f[r] = Nothing
      PROVE  Current(f) = {Nothing}
  BY <1>1 DEF Current
<1>2. ASSUME NEW r \in Callers, \A s \in Callers : s # r => f[s] = Nothing
      PROVE  Current(f) = {f[r]}
  <2>1. f[r] \in Current(f)
    BY <1>2 DEF Current
  <2>2. \A q \in Current(f) : q = f[r]
    <3> SUFFICES ASSUME NEW q \in Current(f) PROVE q = f[r]
      OBVIOUS
    <3>1. f[r] = q \/ f[r] = Nothing
      BY DEF Current
    <3>2. f[r] = Nothing => q = Nothing
      BY <1>2 DEF Current
    <3> QED
      BY <3>1, <3>2
  <2> QED
    BY <2>1, <2>2
<1> QED
  BY <1>1, <1>2

\* What is under way before and after each step that overlaps with nothing.
LEMMA CurrentSteps ==
    ASSUME DayTypeInv, StepsInv, OrderInv, [DayNext]_dayVars, ~raced'
    PROVE  /\ ~raced
           /\ \/ \E r \in Callers : /\ Begun(r) /\ Current(todo) = {Nothing}
                                    /\ Current(todo') = {todo'[r]}
              \/ \E r \in Callers : /\ Committed(r) /\ Current(todo) = {todo[r]}
                                    /\ Current(todo') = {Tail(todo[r])}
              \/ \E r \in Callers : /\ Stop(r) /\ Current(todo) = {todo[r]}
                                    /\ Current(todo') = {Nothing}
              \/ CommitJob /\ Current(todo) = {Nothing} /\ todo' = todo
              \/ /\ UNCHANGED <<rows, food, todo>> /\ (unmatched => unmatched')
                 /\ faults' \in {faults, faults + 1}
<1>0. ~raced
  BY RacedBefore
<1>1. ASSUME NEW r \in Callers, Begun(r)
      PROVE  Current(todo) = {Nothing} /\ Current(todo') = {todo'[r]}
  BY <1>1, BegunAlone, CurrentIs
<1>2. ASSUME NEW r \in Callers, Committed(r)
      PROVE  Current(todo) = {todo[r]} /\ Current(todo') = {Tail(todo[r])}
  <2>1. \A s \in Callers : s # r => todo[s] = Nothing /\ todo'[s] = Nothing
    BY <1>0, <1>2, CommittedAlone
  <2>2. todo'[r] = Tail(todo[r])
    BY <1>2, CommitTypes
  <2>3. Current(todo) = {todo[r]}
    BY <2>1, CurrentIs
  <2>4. Current(todo') = {todo'[r]}
    BY <2>1, CurrentIs
  <2> QED
    BY <2>2, <2>3, <2>4
<1>3. ASSUME NEW r \in Callers, Stop(r)
      PROVE  Current(todo) = {todo[r]} /\ Current(todo') = {Nothing}
  BY <1>0, <1>3, StopAlone, CurrentIs
<1>4. ASSUME CommitJob
      PROVE  Current(todo) = {Nothing} /\ todo' = todo
  <2>1. JobRuns /\ todo' = todo
    BY <1>4 DEF CommitJob, JobRuns
  <2> QED
    BY <1>0, <2>1, CurrentIs DEF OrderInv
<1>5. ASSUME NEW step \in {"notCheckedIn", "missing", "commit"}, NEW writes \in SUBSET Writes,
             NEW add \in SUBSET Rows, Found(step, writes, add)
      PROVE  /\ UNCHANGED <<rows, food, todo>> /\ (unmatched => unmatched')
             /\ faults' \in {faults, faults + 1}
  <2>1. UNCHANGED <<rows, food, todo, faults>>
    BY <1>5, FoundTypes
  <2>2. unmatched => unmatched'
    BY <1>5 DEF Found
  <2> QED
    BY <2>1, <2>2
<1>6. CASE AbortEntry \/ StopJob \/ Tick \/ UNCHANGED dayVars
  BY <1>6 DEF AbortEntry, StopJob, Tick, dayVars
<1> QED
  BY <1>0, <1>1, <1>2, <1>3, <1>4, <1>5, <1>6, DaySteps
-----------------------------------------------------------------------------
(* One active row.                                                         *)

Spare(q) ==
    Cardinality(Active) + Plus(Has(q, {"add"})) <= 1 + faults + Plus(Has(q, {"off"}))
CountInv == ~raced /\ Multiple => \A q \in Current(todo) : Spare(q)

LEMMA SpareNothing ==
    Spare(Nothing) <=> Cardinality(Active) + 0 <= 1 + faults + 0
<1>1. ~Has(Nothing, {"add"}) /\ ~Has(Nothing, {"off"})
  BY NoList DEF Has
<1> QED
  BY <1>1 DEF Spare, Plus

LEMMA CountTaken ==
    ASSUME DayTypeInv, Multiple, NEW q, NEW wrong, Plan(q, wrong), Spare(Nothing)
    PROVE  Spare(q)
<1>1. Cardinality(Active) \in Nat /\ faults \in Nat
  BY DayFinite, DayBounds DEF DayTypeInv, DayTypeOK
<1>2. Cardinality(Active) <= 1 + faults
  BY <1>1, SpareNothing
<1>3. Has(q, {"off"}) => Has(q, {"add"})
  BY DEF Plan
<1>4. Has(q, {"add"}) => Has(q, {"off"}) \/ Active = {}
  BY DEF Plan
<1>5. CASE ~Has(q, {"add"})
  BY <1>1, <1>2, <1>3, <1>5 DEF Spare, Plus
<1>6. CASE Has(q, {"off"}) /\ Has(q, {"add"})
  BY <1>1, <1>2, <1>6 DEF Spare, Plus
<1>7. CASE Has(q, {"add"}) /\ ~Has(q, {"off"}) /\ Active = {}
  <2>1. Cardinality(Active) = 0
    BY <1>7, FS_EmptySet
  <2> QED
    BY <1>1, <1>7, <2>1 DEF Spare, Plus
<1> QED
  BY <1>4, <1>5, <1>6, <1>7

\* How many rows are active after a commit.
LEMMA CountAfter ==
    ASSUME DayTypeInv, NEW r \in Callers, Committed(r),
           Head(todo[r]).do \in Naming => Head(todo[r]).id \in Active
    PROVE  LET w == Head(todo[r]) IN
           /\ w.do \in {"food", "set", "swap", "revive"} => Cardinality(Active') = Cardinality(Active)
           /\ w.do = "off" => Cardinality(Active') = Cardinality(Active) - 1
           /\ w.do = "add" => Cardinality(Active') = Cardinality(Active) + 1
           /\ w.do = "renew" => Cardinality(Active') = 1
<1> DEFINE w == Head(todo[r])
           A == Active
           L == Len(rows)
<1>1. Active' = (A \ Left(w)) \cup (IF w.do \in Telling \cup {"set"} THEN {Place(w)} ELSE {})
  BY RowsAfter
<1>2. IsFiniteSet(A) /\ Cardinality(A) \in Nat /\ L + 1 \notin A
  <2>1. \A i \in A : i \in 1..L
    BY DayFinite DEF DayTypeInv
  <2>2. L \in Nat
    BY RowFacts DEF DayTypeInv
  <2> QED
    BY <2>1, <2>2, DayFinite DEF DayTypeInv
<1>3. w.do \in Naming => w.id \in A
  OBVIOUS
<1> HIDE DEF w, A, L
<1>4. ASSUME w.do \in {"set", "revive"} PROVE Active' = A
  BY <1>1, <1>3, <1>4 DEF Left, Place, Naming, Telling, Growing
<1>5. ASSUME w.do = "food" PROVE Active' = A
  BY <1>1, <1>5 DEF Left, Place, Naming, Telling, Growing
<1>6. ASSUME w.do = "swap"
      PROVE  Cardinality(Active') = Cardinality(A)
  <2>1. Active' = (A \ {w.id}) \cup {L + 1} /\ w.id \in A
    BY <1>1, <1>3, <1>6 DEF Left, Place, Naming, Telling, Growing, L
  <2>2. Cardinality((A \ {w.id}) \cup {L + 1})
          = Cardinality(A) - Plus(w.id \in A) + Plus(L + 1 \notin A \ {w.id})
    BY <1>2, Exchange
  <2> QED
    BY <1>2, <2>1, <2>2 DEF Plus
<1>7. ASSUME w.do = "off"
      PROVE  Cardinality(Active') = Cardinality(A) - 1
  <2>1. Active' = A \ {w.id} /\ w.id \in A
    BY <1>1, <1>3, <1>7 DEF Left, Place, Naming, Telling, Growing
  <2> QED
    BY <1>2, <2>1, FS_RemoveElement
<1>8. ASSUME w.do = "add"
      PROVE  Cardinality(Active') = Cardinality(A) + 1
  <2>1. Active' = A \cup {L + 1}
    BY <1>1, <1>8 DEF Left, Place, Naming, Telling, Growing, L
  <2> QED
    BY <1>2, <2>1, FS_AddElement
<1>9. ASSUME w.do = "renew"
      PROVE  Cardinality(Active') = 1
  <2>1. Active' = {L + 1}
    BY <1>1, <1>9 DEF Left, Place, Naming, Telling, Growing, L, A
  <2> QED
    BY <2>1, FS_Singleton
<1> QED
  BY <1>4, <1>5, <1>6, <1>7, <1>8, <1>9 DEF w, A

LEMMA CountCommitted ==
    ASSUME DayTypeInv, OrderInv, ~raced, NEW r \in Callers, Committed(r), Spare(todo[r]),
           NEW t, t = Tail(todo[r])
    PROVE  Spare(t)'
<1> DEFINE q == todo[r]
           w == Head(q)
           n == Cardinality(Active)
<1>1. /\ w \in Todo /\ Commits(q) = {w} \cup Commits(t)
      /\ w.do \in Naming => w.id \in Active
      /\ \A v \in Commits(t) : Pair(w, v)
  BY CommittedAlone
<1>2. n \in Nat /\ faults \in Nat /\ faults' = faults
  BY DayFinite, DayBounds DEF DayTypeInv, DayTypeOK, Committed
<1>3. /\ w.do \in {"food", "set", "swap", "revive"} => Cardinality(Active') = n
      /\ w.do = "off" => Cardinality(Active') = n - 1
      /\ w.do = "add" => Cardinality(Active') = n + 1
      /\ w.do = "renew" => Cardinality(Active') = 1
  BY <1>1, CountAfter
<1>4. n + Plus(Has(q, {"add"})) <= 1 + faults + Plus(Has(q, {"off"}))
  BY DEF Spare
<1>5. Has(t, {"add"})' = Has(t, {"add"}) /\ Has(t, {"off"})' = Has(t, {"off"})
  BY DEF Has, Commits
<1> HIDE DEF q, w, n
<1>6. SUFFICES Cardinality(Active') + Plus(Has(t, {"add"})) <= 1 + faults + Plus(Has(t, {"off"}))
  BY <1>2, <1>5 DEF Spare
<1>7. CASE w.do = "food"
  <2>1. (Has(q, {"add"}) <=> Has(t, {"add"})) /\ (Has(q, {"off"}) <=> Has(t, {"off"}))
    BY <1>1, <1>7 DEF Has
  <2> QED
    BY <1>2, <1>3, <1>4, <1>7, <2>1 DEF Plus
<1>8. CASE w.do = "off"
  <2>1. (Has(q, {"add"}) <=> Has(t, {"add"})) /\ Has(q, {"off"}) /\ ~Has(t, {"off"})
    BY <1>1, <1>8 DEF Has, Pair
  <2> QED
    BY <1>2, <1>3, <1>4, <1>8, <2>1 DEF Plus
<1>9. CASE w.do = "add"
  <2>1. Has(q, {"add"}) /\ ~Has(t, {"add"}) /\ (Has(q, {"off"}) <=> Has(t, {"off"}))
    BY <1>1, <1>9 DEF Has, Pair
  <2> QED
    BY <1>2, <1>3, <1>4, <1>9, <2>1 DEF Plus
<1>10. CASE w.do \in {"set", "swap", "revive", "renew"}
  <2>1. ~Has(q, {"add"}) /\ ~Has(t, {"add"}) /\ ~Has(q, {"off"}) /\ ~Has(t, {"off"})
    BY <1>1, <1>10 DEF Has, Pair
  <2> QED
    BY <1>2, <1>3, <1>4, <1>10, <2>1 DEF Plus
<1> QED
  BY <1>1, <1>7, <1>8, <1>9, <1>10, CommitFields

\* An interruption leaves at most one row too many.
LEMMA CountStopped ==
    ASSUME DayTypeInv, NEW q, Spare(q)
    PROVE  Cardinality(Active) + 0 <= 1 + (faults + 1) + 0
<1>1. Cardinality(Active) \in Nat /\ faults \in Nat
  BY DayFinite, DayBounds DEF DayTypeInv, DayTypeOK
<1> QED
  BY <1>1 DEF Spare, Plus

\* A job inserts a row only on a day that has none.
LEMMA CountOfJob ==
    ASSUME DayTypeInv, OrderInv, ~raced, CommitJob, Spare(Nothing)
    PROVE  Spare(Nothing)'
<1>1. /\ \A i \in Ids : rows'[i].active = rows[i].active
      /\ job.add = {} => Len(rows') = Len(rows)
      /\ job.add # {} => Len(rows') = Len(rows) + 1 /\ rows'[Len(rows) + 1] \in job.add
      /\ Ids' = 1..Len(rows') /\ faults' = faults
  BY JobCommitTypes
<1>2. Len(rows) \in Nat /\ Ids = 1..Len(rows) /\ (rows = <<>> <=> Len(rows) = 0)
  BY RowFacts, EmptyRows DEF DayTypeInv
<1>3. Cardinality(Active) \in Nat /\ faults \in Nat
  BY DayFinite, DayBounds DEF DayTypeInv, DayTypeOK
<1>4. CASE job.add = {}
  <2>1. Active' = Active
    BY <1>1, <1>2, <1>4 DEF Active
  <2> QED
    BY <1>1, <2>1 DEF Spare, Has, Commits
<1>5. CASE job.add # {}
  <2>1. Len(rows) = 0
    BY <1>2, <1>5 DEF OrderInv
  <2>2. Ids' = {1} /\ rows'[1] \in job.add
    <3>1. Len(rows) + 1 = 1 /\ 1..1 = {1}
      BY <2>1
    <3>2. Len(rows') = 1 /\ rows'[1] \in job.add
      BY <1>1, <1>5, <3>1
    <3> QED
      BY <1>1, <3>1, <3>2
  <2>3. rows'[1].active
    BY <2>2, RowFacts DEF DayTypeInv, DayTypeOK
  <2>4. Active' = {1}
    BY <2>2, <2>3 DEF Active
  <2>5. Cardinality(Active') = 1
    BY <2>4, FS_Singleton
  <2>6. ~Has(Nothing, {"add"})' /\ ~Has(Nothing, {"off"})'
    BY NoList DEF Has, Commits
  <2> QED
    BY <1>1, <1>3, <2>5, <2>6 DEF Spare, Plus
<1> QED
  BY <1>4, <1>5

LEMMA CountStep ==
    ASSUME DayTypeInv, StepsInv, OrderInv, CountInv, [DayNext]_dayVars
    PROVE  CountInv'
<1> SUFFICES ASSUME ~raced', Multiple, NEW q \in Current(todo)' PROVE Spare(q)'
  BY DEF CountInv
<1>0. ~raced /\ Current(todo)' = Current(todo') /\ \A p \in Current(todo) : Spare(p)
  BY RacedBefore DEF CountInv, Current
<1>1. ASSUME NEW r \in Callers, Begun(r), Current(todo) = {Nothing}, Current(todo') = {todo'[r]}
      PROVE  Spare(q)'
  <2>1. q = todo'[r] /\ Spare(Nothing)
    BY <1>0, <1>1
  <2>2. (\E wrong \in BOOLEAN : Plan(q, wrong)) /\ rows' = rows /\ faults' = faults
    BY <1>1, <2>1, BegunAlone
  <2>3. Spare(q)
    BY <2>1, <2>2, CountTaken
  <2> QED
    BY <2>2, <2>3 DEF Spare, Active, Ids, Has, Commits
<1>2. ASSUME NEW r \in Callers, Committed(r), Current(todo) = {todo[r]},
             Current(todo') = {Tail(todo[r])}
      PROVE  Spare(q)'
  BY <1>0, <1>2, CountCommitted
<1>3. ASSUME NEW r \in Callers, Stop(r), Current(todo) = {todo[r]}, Current(todo') = {Nothing}
      PROVE  Spare(q)'
  <2>1. q = Nothing /\ faults' = faults + 1 /\ rows' = rows
    BY <1>0, <1>3, StopAlone
  <2>2. Cardinality(Active) + 0 <= 1 + (faults + 1) + 0
    BY <1>0, <1>3, CountStopped
  <2>3. ~Has(Nothing, {"add"})' /\ ~Has(Nothing, {"off"})'
    BY NoList DEF Has, Commits
  <2>4. Active' = Active
    BY <2>1 DEF Active, Ids
  <2> QED
    BY <2>1, <2>2, <2>3, <2>4 DEF Spare, Plus
<1>4. ASSUME CommitJob, Current(todo) = {Nothing}, todo' = todo
      PROVE  Spare(q)'
  <2>1. q = Nothing /\ Spare(Nothing)
    BY <1>0, <1>4
  <2> QED
    BY <1>0, <1>4, <2>1, CountOfJob
<1>5. ASSUME UNCHANGED <<rows, food, todo>>, faults' \in {faults, faults + 1}
      PROVE  Spare(q)'
  <2>1. Spare(q) /\ Active' = Active
    BY <1>0, <1>5 DEF Active, Ids
  <2>2. Cardinality(Active) \in Nat /\ faults \in Nat
    BY DayFinite, DayBounds DEF DayTypeInv, DayTypeOK
  <2>3. Has(q, {"add"})' = Has(q, {"add"}) /\ Has(q, {"off"})' = Has(q, {"off"})
    BY DEF Has, Commits
  <2> QED
    BY <1>5, <2>1, <2>2, <2>3 DEF Spare, Plus
<1> QED
  BY <1>1, <1>2, <1>3, <1>4, <1>5, CurrentSteps

\* If requests and jobs do not overlap and an employee may punch more than
\* once, one of the day's rows is active, or one more for each interruption:
\* OneActiveRow.
THEOREM DayHasOneRow == DaySpec => []OneActiveRow
<1>1. DayInit => OrderInv /\ CountInv
  <2> SUFFICES ASSUME DayInit PROVE OrderInv /\ CountInv
    OBVIOUS
  <2>1. /\ job.add = {} /\ faults = 0 /\ \A r \in Callers : todo[r] = Nothing
        /\ Active = {}
    BY DEF DayInit, NoWrites, Active, Ids
  <2>2. Current(todo) = {Nothing}
    BY <2>1, CurrentIs
  <2>3. Spare(Nothing)
    BY <2>1, FS_EmptySet, SpareNothing
  <2> QED
    BY <2>1, <2>2, <2>3, NoList DEF OrderInv, CountInv
<1>2. /\ DayTypeInv /\ StepsInv /\ OrderInv /\ CountInv /\ [DayNext]_dayVars
        => (OrderInv /\ CountInv)'
  BY OrderStep, CountStep
<1>3. DayTypeInv /\ CountInv => OneActiveRow
  <2> SUFFICES ASSUME DayTypeInv, CountInv, Orderly, Multiple
               PROVE  Cardinality(Active) <= 1 + faults
    BY DEF OneActiveRow
  <2>1. Current(todo) = {Nothing}
    BY CurrentIs DEF Orderly, Quiet
  <2>2. Spare(Nothing)
    BY <2>1 DEF CountInv, Orderly
  <2>3. Cardinality(Active) \in Nat /\ faults \in Nat
    BY DayFinite, DayBounds DEF DayTypeInv, DayTypeOK
  <2> QED
    BY <2>2, <2>3, SpareNothing
<1> QED
  BY <1>1, <1>2, <1>3, DayTypesHold, PTL DEF DaySpec
-----------------------------------------------------------------------------
(* The food of the day.                                                    *)

Credits(q) == \E w \in Commits(q) : w.do = "food" /\ w.amount = 1
Reverses(q) == \E w \in Commits(q) : w.do = "food" /\ w.amount = -1
Makes(q) == \E w \in Commits(q) : Brings(w)
Unmakes(q) == \E w \in Commits(q) : Costs(w)

\* What is left of a list makes up for the difference there is.
Balanced(q) ==
    /\ OneFood(q)
    /\ Has(q, {"renew"}) => WorkedRows = {}
    /\ Credits(q) => ~Unmakes(q)
    /\ Reverses(q) => ~Makes(q)
    /\ food - Cardinality(WorkedRows) + Owed(q) \in (-faults)..faults
FoodInv == ~raced /\ ~unmatched => \A q \in Current(todo) : Balanced(q)

LEMMA OwedIs ==
    ASSUME NEW q
    PROVE  /\ Owed(q) = Plus(Credits(q)) - Plus(Reverses(q)) - Plus(Makes(q)) + Plus(Unmakes(q))
           /\ Owed(q) \in Int
BY DEF Owed, Plus, Credits, Reverses, Makes, Unmakes

LEMMA OwedNothing ==
    /\ ~Credits(Nothing) /\ ~Reverses(Nothing) /\ ~Makes(Nothing) /\ ~Unmakes(Nothing)
    /\ ~Has(Nothing, {"renew"}) /\ OneFood(Nothing) /\ Owed(Nothing) = 0
<1>1. /\ ~Credits(Nothing) /\ ~Reverses(Nothing) /\ ~Makes(Nothing) /\ ~Unmakes(Nothing)
      /\ ~Has(Nothing, {"renew"}) /\ OneFood(Nothing)
  BY NoList DEF Credits, Reverses, Makes, Unmakes, Has
<1> QED
  BY <1>1, OwedIs DEF Plus

LEMMA BalancedNothing ==
    ASSUME DayTypeOK
    PROVE  /\ Balanced(Nothing) <=> food - Cardinality(WorkedRows) \in (-faults)..faults
           /\ food \in Int /\ Cardinality(WorkedRows) \in Nat /\ faults \in Nat
<1>1. food \in Int /\ Cardinality(WorkedRows) \in Nat /\ faults \in Nat
  BY DayFinite, DayBounds DEF DayTypeOK, Foods
<1>2. food - Cardinality(WorkedRows) + Owed(Nothing) = food - Cardinality(WorkedRows)
  BY <1>1, OwedNothing
<1> QED
  BY <1>1, <1>2, OwedNothing DEF Balanced

LEMMA CreditOrReversal ==
    ASSUME NEW q, OneFood(q)
    PROVE  ~(Credits(q) /\ Reverses(q))
BY DEF Credits, Reverses, Commits, OneFood

LEMMA FoodTaken ==
    ASSUME DayTypeInv, NEW q, Plan(q, FALSE), Balanced(Nothing)
    PROVE  Balanced(q)
<1>1. OneFood(q) /\ Owed(q) = 0 /\ (Has(q, {"renew"}) => WorkedRows = {})
  BY DEF Plan
<1>2. ~(Credits(q) /\ Reverses(q))
  BY <1>1, CreditOrReversal
<1>3. Plus(Credits(q)) - Plus(Reverses(q)) - Plus(Makes(q)) + Plus(Unmakes(q)) = 0
  BY <1>1, OwedIs
<1>4. (Credits(q) => ~Unmakes(q)) /\ (Reverses(q) => ~Makes(q))
  BY <1>2, <1>3 DEF Plus
<1>5. food - Cardinality(WorkedRows) + Owed(q) \in (-faults)..faults
  BY <1>1, BalancedNothing DEF DayTypeInv
<1> QED
  BY <1>1, <1>4, <1>5 DEF Balanced

\* An interruption leaves a difference of one.
LEMMA FoodStopped ==
    ASSUME DayTypeInv, NEW q, Balanced(q)
    PROVE  food - Cardinality(WorkedRows) \in (-(faults + 1))..(faults + 1)
<1>1. Owed(q) \in -1..1
  <2>1. ~(Credits(q) /\ Reverses(q)) /\ (Credits(q) => ~Unmakes(q)) /\ (Reverses(q) => ~Makes(q))
    BY CreditOrReversal DEF Balanced
  <2> QED
    BY <2>1, OwedIs DEF Plus
<1>2. food \in Int /\ Cardinality(WorkedRows) \in Nat /\ faults \in Nat
  BY BalancedNothing DEF DayTypeInv
<1>3. food - Cardinality(WorkedRows) + Owed(q) \in (-faults)..faults
  BY DEF Balanced
<1> QED
  BY <1>1, <1>2, <1>3

\* How many rows are worked after a commit.
LEMMA WorkedAfter ==
    ASSUME DayTypeInv, NEW r \in Callers, Committed(r),
           Head(todo[r]).do \in Naming => Head(todo[r]).id \in Active,
           Head(todo[r]).do = "renew" => WorkedRows = {}
    PROVE  Cardinality(WorkedRows')
             = Cardinality(WorkedRows) - Plus(Costs(Head(todo[r]))) + Plus(Brings(Head(todo[r])))
<1> DEFINE w == Head(todo[r])
           W == WorkedRows
           n == Cardinality(W)
           L == Len(rows)
<1>1. WorkedRows' = (W \ Left(w)) \cup (IF Brings(w) THEN {Place(w)} ELSE {})
  BY RowsAfter
<1>2. IsFiniteSet(W) /\ n \in Nat /\ L + 1 \notin W
  <2>1. \A i \in Active : i \in 1..L
    BY DayFinite DEF DayTypeInv
  <2>2. L \in Nat
    BY RowFacts DEF DayTypeInv
  <2> QED
    BY <2>1, <2>2, DayFinite DEF DayTypeInv, WorkedRows
<1>3. /\ w.do \in {"food", "off", "add", "set", "swap", "renew", "revive"}
      /\ w.do \in Naming => w.id \in Active
  BY CommitTypes, CommitFields
<1>4. w.do \in Naming => (Costs(w) <=> w.id \in W)
  BY <1>3 DEF Costs, WorkedRows
<1>5. w.do = "renew" => W = {}
  OBVIOUS
<1>9. SUFFICES Cardinality(WorkedRows') = n - Plus(Costs(w)) + Plus(Brings(w))
  OBVIOUS
<1> HIDE DEF w, W, L
<1>6. CASE w.do \in Naming
  <2>1. Left(w) = {w.id} /\ (Costs(w) <=> w.id \in W)
    BY <1>4, <1>6 DEF Left
  <2>2. Place(w) \notin W \ {w.id}
    BY <1>2, <1>6 DEF Place, L
  <2>3. /\ Cardinality(W \ {w.id}) = n - Plus(w.id \in W)
        /\ Cardinality((W \ {w.id}) \cup {Place(w)})
             = n - Plus(w.id \in W) + Plus(Place(w) \notin W \ {w.id})
    BY <1>2, Exchange
  <2>4. CASE Brings(w)
    BY <1>1, <1>2, <2>1, <2>2, <2>3, <2>4 DEF Plus
  <2>5. CASE ~Brings(w)
    BY <1>1, <1>2, <2>1, <2>3, <2>5 DEF Plus
  <2> QED
    BY <2>4, <2>5
<1>7. CASE w.do \in {"add", "renew"}
  <2>1. ~Costs(w) /\ W \ Left(w) = W /\ Place(w) = L + 1
    BY <1>5, <1>7 DEF Costs, Left, Place, Naming, Growing, L
  <2>2. Cardinality(W \cup {L + 1}) = n + 1
    BY <1>2, FS_AddElement
  <2>3. CASE Brings(w)
    <3>1. WorkedRows' = W \cup {L + 1}
      BY <1>1, <2>1, <2>3
    <3> QED
      BY <1>2, <2>1, <2>2, <2>3, <3>1 DEF Plus
  <2>4. CASE ~Brings(w)
    <3>1. WorkedRows' = W
      BY <1>1, <2>1, <2>4
    <3> QED
      BY <1>2, <2>1, <2>4, <3>1 DEF Plus
  <2> QED
    BY <2>3, <2>4
<1>8. CASE w.do = "food"
  <2>1. ~Costs(w) /\ ~Brings(w) /\ Left(w) = {}
    BY <1>8 DEF Costs, Brings, Left, Naming, Telling
  <2>2. WorkedRows' = W
    BY <1>1, <2>1
  <2> QED
    BY <1>2, <2>1, <2>2 DEF Plus
<1> QED
  BY <1>3, <1>6, <1>7, <1>8 DEF Naming

\* A commit neither makes nor spoils what the rest of its list is about.
LEMMA RestKeeps ==
    ASSUME DayTypeInv, OrderInv, ~raced, NEW r \in Callers, Committed(r),
           NEW t, t = Tail(todo[r])
    PROVE  /\ \A v \in Commits(t) : (Brings(v)' <=> Brings(v)) /\ (Costs(v)' <=> Costs(v))
           /\ Makes(t)' <=> Makes(t)
           /\ Unmakes(t)' <=> Unmakes(t)
           /\ Brings(Head(todo[r])) => ~Makes(t)
           /\ Costs(Head(todo[r])) => ~Unmakes(t)
<1> DEFINE w == Head(todo[r])
<1>1. /\ w \in Todo
      /\ \A v \in Commits(t) : /\ v \in Todo /\ Pair(w, v)
                               /\ v.do \in Naming => rows'[v.id] = rows[v.id]
  BY CommittedAlone
<1>2. ASSUME NEW v \in Commits(t)
      PROVE  (Brings(v)' <=> Brings(v)) /\ (Costs(v)' <=> Costs(v))
  <2>1. v.do \in Naming => rows'[v.id] = rows[v.id]
    BY <1>1
  <2>2. Costs(v)' <=> Costs(v)
    BY <2>1 DEF Costs
  <2>3. Brings(v)' <=> Brings(v)
    BY <2>1 DEF Brings, Naming
  <2> QED
    BY <2>2, <2>3
<1>3. Commits(t)' = Commits(t)
  BY DEF Commits
<1>4. (Makes(t)' <=> Makes(t)) /\ (Unmakes(t)' <=> Unmakes(t))
  BY <1>2, <1>3 DEF Makes, Unmakes
<1> HIDE DEF w
<1>5. ASSUME Brings(w), NEW v \in Commits(t) PROVE ~Brings(v)
  BY <1>1, <1>5 DEF Brings, Pair, Telling
<1>6. ASSUME Costs(w), NEW v \in Commits(t) PROVE ~Costs(v)
  BY <1>1, <1>6 DEF Costs, Pair, Naming
<1> QED
  BY <1>2, <1>4, <1>5, <1>6 DEF Makes, Unmakes, w

LEMMA FoodCommitted ==
    ASSUME DayTypeInv, OrderInv, ~raced, NEW r \in Callers, Committed(r), Balanced(todo[r]),
           NEW t, t = Tail(todo[r])
    PROVE  Balanced(t)'
<1> DEFINE q == todo[r]
           w == Head(q)
           n == Cardinality(WorkedRows)
<1>1. /\ w \in Todo /\ Commits(q) = {w} \cup Commits(t) /\ q \in Seq(Todo) /\ q # Nothing
      /\ w.do \in Naming => w.id \in Active
      /\ \A v \in Commits(t) : Pair(w, v)
  BY CommittedAlone DEF Committed, DayTypeInv
<1>2. /\ OneFood(q) /\ (Has(q, {"renew"}) => WorkedRows = {})
      /\ Credits(q) => ~Unmakes(q)
      /\ Reverses(q) => ~Makes(q)
      /\ food - n + Owed(q) \in (-faults)..faults
  BY DEF Balanced
<1>3. /\ OneFood(t)
      /\ w.do = "food" => \A v \in Commits(t) : v.do # "food"
  BY <1>1, <1>2, ListFacts
<1>4. food \in Int /\ n \in Nat /\ faults \in Nat /\ faults' = faults
  BY BalancedNothing DEF DayTypeInv, Committed
<1>5. w.do = "renew" => WorkedRows = {}
  BY <1>1, <1>2 DEF Has
<1>6. Cardinality(WorkedRows') = n - Plus(Costs(w)) + Plus(Brings(w))
  BY <1>1, <1>5, WorkedAfter
<1>7. /\ Makes(t)' <=> Makes(t)
      /\ Unmakes(t)' <=> Unmakes(t)
      /\ Brings(w) => ~Makes(t)
      /\ Costs(w) => ~Unmakes(t)
  BY RestKeeps
<1>8. /\ w.do = "food" => w.amount \in {-1, 1} /\ food' = food + w.amount
      /\ w.do # "food" => food' = food
  BY <1>1, CommitFields DEF Committed
<1>9. /\ OneFood(t)' = OneFood(t) /\ Has(t, {"renew"})' = Has(t, {"renew"})
      /\ Credits(t)' = Credits(t) /\ Reverses(t)' = Reverses(t)
  BY DEF OneFood, Has, Commits, Credits, Reverses
<1>10. /\ Owed(q) = Plus(Credits(q)) - Plus(Reverses(q)) - Plus(Makes(q)) + Plus(Unmakes(q))
       /\ Owed(t) = Plus(Credits(t)) - Plus(Reverses(t)) - Plus(Makes(t)) + Plus(Unmakes(t))
       /\ Owed(q) \in Int /\ Owed(t) \in Int
  BY OwedIs
<1>11. Owed(t)' = Owed(t)
  BY <1>7, <1>9 DEF Owed, Credits, Reverses, Makes, Unmakes, Plus
<1>12. /\ Makes(q) <=> Brings(w) \/ Makes(t)
       /\ Unmakes(q) <=> Costs(w) \/ Unmakes(t)
       /\ Credits(q) <=> (w.do = "food" /\ w.amount = 1) \/ Credits(t)
       /\ Reverses(q) <=> (w.do = "food" /\ w.amount = -1) \/ Reverses(t)
  BY <1>1 DEF Makes, Unmakes, Credits, Reverses
<1> HIDE DEF q, w, n
<1>13. w.do = "food" => ~Credits(t) /\ ~Reverses(t)
  BY <1>3 DEF Credits, Reverses
<1>14. w.do = "food" => ~Brings(w) /\ ~Costs(w)
  BY DEF Brings, Costs, Naming, Telling
<1>15. food' - Cardinality(WorkedRows') + Owed(t) = food - n + Owed(q)
  <2>1. CASE w.do = "food"
    <3>1. /\ Makes(q) <=> Makes(t)
          /\ Unmakes(q) <=> Unmakes(t)
          /\ Credits(q) <=> w.amount = 1
          /\ Reverses(q) <=> w.amount = -1
          /\ ~Credits(t) /\ ~Reverses(t)
      BY <1>12, <1>13, <1>14, <2>1
    <3>2. Owed(q) = Owed(t) + w.amount
      BY <1>8, <1>10, <2>1, <3>1 DEF Plus
    <3>3. Cardinality(WorkedRows') = n
      BY <1>4, <1>6, <1>14, <2>1 DEF Plus
    <3> QED
      BY <1>4, <1>8, <1>10, <2>1, <3>2, <3>3
  <2>2. CASE w.do # "food"
    <3>1. /\ Credits(q) <=> Credits(t)
          /\ Reverses(q) <=> Reverses(t)
      BY <1>12, <2>2
    <3>2. Owed(q) = Owed(t) - Plus(Brings(w)) + Plus(Costs(w))
      BY <1>7, <1>10, <1>12, <3>1 DEF Plus
    <3>3. Plus(Brings(w)) \in Int /\ Plus(Costs(w)) \in Int
      BY DEF Plus
    <3> QED
      BY <1>4, <1>6, <1>8, <1>10, <2>2, <3>2, <3>3
  <2> QED
    BY <2>1, <2>2
<1>16. Has(t, {"renew"}) => WorkedRows' = {}
  <2> SUFFICES ASSUME Has(t, {"renew"}) PROVE WorkedRows' = {}
    OBVIOUS
  <2>1. WorkedRows = {} /\ w.do = "food"
    BY <1>1, <1>2 DEF Has, Pair
  <2>2. WorkedRows' = (WorkedRows \ Left(w)) \cup (IF Brings(w) THEN {Place(w)} ELSE {})
    BY <1>1, RowsAfter DEF w, q
  <2> QED
    BY <1>14, <2>1, <2>2
<1>17. (Credits(t) => ~Unmakes(t)) /\ (Reverses(t) => ~Makes(t))
  BY <1>2, <1>12
<1> QED
  BY <1>2, <1>3, <1>4, <1>7, <1>9, <1>11, <1>15, <1>16, <1>17 DEF Balanced

\* No job makes a day worked and approved, but for those it may not.
LEMMA JobLeavesWorked ==
    ASSUME DayTypeInv, OrderInv, JobInv, ~raced, ~unmatched, CommitJob
    PROVE  WorkedRows' = WorkedRows
<1>1. /\ \A i \in Ids : rows'[i] = Written(i) /\ Written(i).active = rows[i].active
      /\ job.add = {} => Len(rows') = Len(rows)
      /\ job.add # {} => Len(rows') = Len(rows) + 1 /\ rows'[Len(rows) + 1] \in job.add
      /\ Ids' = 1..Len(rows') /\ job.step = "commit"
  BY JobCommitTypes DEF CommitJob
<1>2. Len(rows) \in Nat /\ Ids = 1..Len(rows)
  BY RowFacts DEF DayTypeInv
<1>3. \A status, approval : Worked(DayRow(status, approval)) <=> status = "PRESENT" /\ approval = "APPROVED"
  BY DEF Worked, DayRow
<1>4. ASSUME NEW i \in Active
      PROVE  Worked(Written(i)) <=> Worked(rows[i])
  <2> DEFINE new == Written(i)
             s == rows[i].status
             a == rows[i].approval
  <2>1. /\ Hour = "night" => new = rows[i]
        /\ Hour = "evening" =>
             IF s = "CHECKED_IN" /\ a # "REJECTED"
             THEN new = DayRow("CHECKED_OUT", IF a = "APPROVED" THEN a ELSE "PENDING")
             ELSE IF s = "NOT_CHECKED_IN_YET" THEN new = Absent ELSE new = rows[i]
        /\ Hour = "midnight" =>
             \/ new = rows[i]
             \/ s = "CHECKED_OUT" /\ a = "PENDING" /\ new = DayRow("APPROVAL_PENDING", a)
        /\ Hour = "month" =>
             IF a = "PENDING"
             THEN new = DayRow(IF s \in {"CHECKED_OUT", "HALF_DAY", "APPROVAL_PENDING"}
                               THEN "PRESENT" ELSE s, "APPROVED")
             ELSE new = rows[i]
    BY <1>1, JobDoes
  <2> HIDE DEF new
  <2>2. CASE Hour = "night"
    BY <2>1, <2>2 DEF new
  <2>3. CASE Hour = "evening"
    BY <1>3, <2>1, <2>3 DEF new, Absent, Worked
  <2>4. CASE Hour = "midnight"
    BY <1>3, <2>1, <2>4 DEF new, Worked
  <2>5. CASE Hour = "month"
    <3>1. a = "PENDING" => s \notin {"PRESENT", "CHECKED_OUT", "HALF_DAY", "APPROVAL_PENDING"}
      BY <1>1, <2>5 DEF JobInv
    <3>2. CASE a = "PENDING"
      <4>1. new = DayRow(s, "APPROVED") /\ s # "PRESENT"
        BY <2>1, <2>5, <3>1, <3>2
      <4> QED
        BY <1>3, <3>2, <4>1 DEF new, Worked
    <3>3. CASE a # "PENDING"
      BY <2>1, <2>5, <3>3 DEF new
    <3> QED
      BY <3>2, <3>3
  <2> QED
    BY <1>1, <2>2, <2>3, <2>4, <2>5 DEF JobInv
<1>5. \A i \in Ids : i \in WorkedRows' <=> i \in WorkedRows
  BY <1>1, <1>2, <1>4 DEF WorkedRows, Active
<1>6. \A row \in job.add : ~Worked(row)
  <2>1. \A row \in Entries : ~Worked(row)
    BY EntryRows DEF Worked
  <2>2. ~Worked(Absent)
    BY <1>3 DEF Absent
  <2> QED
    BY <1>1, <2>1, <2>2 DEF JobInv, Entered
<1>7. job.add # {} => Len(rows) + 1 \notin WorkedRows'
  BY <1>1, <1>6 DEF WorkedRows
<1>8. WorkedRows \subseteq Ids /\ WorkedRows' \subseteq Ids'
  BY DEF WorkedRows, Active
<1>9. CASE job.add = {}
  BY <1>1, <1>2, <1>5, <1>8, <1>9
<1>10. CASE job.add # {}
  <2>1. 1..(Len(rows) + 1) = 1..Len(rows) \cup {Len(rows) + 1}
    BY <1>2
  <2>2. Ids' = Ids \cup {Len(rows) + 1}
    BY <1>1, <1>2, <1>10, <2>1
  <2> QED
    BY <1>5, <1>7, <1>8, <1>10, <2>2
<1> QED
  BY <1>9, <1>10

LEMMA StillBalanced ==
    ASSUME food' \in Int, Cardinality(WorkedRows') \in Int,
           food' - Cardinality(WorkedRows') \in (-faults')..faults'
    PROVE  Balanced(Nothing)'
<1>1. Commits(Nothing)' = {} /\ OneFood(Nothing)'
  BY NoList DEF Commits, OneFood
<1>2. /\ ~Credits(Nothing)' /\ ~Reverses(Nothing)' /\ ~Makes(Nothing)' /\ ~Unmakes(Nothing)'
      /\ ~Has(Nothing, {"renew"})' /\ Owed(Nothing)' = 0
  BY <1>1 DEF Credits, Reverses, Makes, Unmakes, Has, Owed, Plus
<1> QED
  BY <1>1, <1>2 DEF Balanced

LEMMA FoodStep ==
    ASSUME DayTypeInv, StepsInv, OrderInv, JobInv, FoodInv, [DayNext]_dayVars
    PROVE  FoodInv'
<1> SUFFICES ASSUME ~raced', ~unmatched', NEW q \in Current(todo)' PROVE Balanced(q)'
  BY DEF FoodInv
<1>0. ~raced /\ Current(todo)' = Current(todo')
  BY RacedBefore DEF Current
<1>1. ASSUME NEW r \in Callers, Begun(r), Current(todo) = {Nothing}, Current(todo') = {todo'[r]}
      PROVE  Balanced(q)'
  <2>1. PICK wrong \in BOOLEAN : Plan(todo'[r], wrong) /\ unmatched' = (unmatched \/ wrong)
    BY <1>1, BegunAlone
  <2>2. q = todo'[r] /\ wrong = FALSE /\ ~unmatched
    BY <1>0, <1>1, <2>1
  <2>3. UNCHANGED <<rows, food, faults>>
    BY <1>1, BegunAlone
  <2>4. Plan(q, FALSE) /\ Balanced(Nothing)
    BY <1>0, <1>1, <2>1, <2>2 DEF FoodInv
  <2>5. Balanced(q)
    BY <2>4, FoodTaken
  <2> QED
    BY <2>3, <2>5 DEF Balanced, OneFood, Has, Commits, WorkedRows, Active, Ids, Credits, Reverses,
                      Makes, Unmakes, Owed, Brings, Costs
<1>2. ASSUME NEW r \in Callers, Committed(r), Current(todo) = {todo[r]},
             Current(todo') = {Tail(todo[r])}
      PROVE  Balanced(q)'
  <2>1. q = Tail(todo[r]) /\ Balanced(todo[r])
    BY <1>0, <1>2 DEF FoodInv, Committed
  <2> QED
    BY <1>0, <1>2, <2>1, FoodCommitted
<1>3. ASSUME NEW r \in Callers, Stop(r), Current(todo) = {todo[r]}, Current(todo') = {Nothing}
      PROVE  Balanced(q)'
  <2>1. q = Nothing /\ UNCHANGED <<rows, food, unmatched>> /\ faults' = faults + 1 /\ DayTypeOK'
    BY <1>0, <1>3, StopAlone, StopTypes DEF DayTypeInv
  <2>2. food - Cardinality(WorkedRows) \in (-(faults + 1))..(faults + 1)
    BY <1>0, <1>3, <2>1, FoodStopped DEF FoodInv
  <2>3. WorkedRows' = WorkedRows /\ food \in Int /\ Cardinality(WorkedRows) \in Int
    BY <2>1, BalancedNothing DEF WorkedRows, Active, Ids, DayTypeInv
  <2> QED
    BY <2>1, <2>2, <2>3, StillBalanced
<1>4. ASSUME CommitJob, Current(todo) = {Nothing}, todo' = todo
      PROVE  Balanced(q)'
  <2>1. q = Nothing /\ UNCHANGED <<food, faults, unmatched>> /\ DayTypeOK'
    BY <1>0, <1>4, JobCommitTypes DEF DayTypeInv
  <2>2. WorkedRows' = WorkedRows
    BY <1>0, <1>4, <2>1, JobLeavesWorked
  <2>3. /\ food - Cardinality(WorkedRows) \in (-faults)..faults
        /\ food \in Int /\ Cardinality(WorkedRows) \in Int
    BY <1>0, <1>4, <2>1, BalancedNothing DEF FoodInv, DayTypeInv
  <2> QED
    BY <2>1, <2>2, <2>3, StillBalanced
<1>5. ASSUME UNCHANGED <<rows, food, todo>>, unmatched => unmatched', faults' \in {faults, faults + 1}
      PROVE  Balanced(q)'
  <2>1. Balanced(q)
    BY <1>0, <1>5 DEF FoodInv
  <2>2. food \in Int /\ Cardinality(WorkedRows) \in Nat /\ faults \in Nat /\ Owed(q) \in Int
    BY BalancedNothing, OwedIs DEF DayTypeInv
  <2>3. food - Cardinality(WorkedRows) + Owed(q) \in (-faults')..faults'
    BY <1>5, <2>1, <2>2 DEF Balanced
  <2>4. WorkedRows' = WorkedRows /\ Owed(q)' = Owed(q) /\ food' = food
    BY <1>5 DEF WorkedRows, Active, Ids, Owed, Commits, Brings, Costs
  <2> QED
    BY <1>5, <2>1, <2>3, <2>4 DEF Balanced, OneFood, Has, Commits, Credits, Reverses,
                                  Makes, Unmakes, Brings, Costs
<1> QED
  BY <1>1, <1>2, <1>3, <1>4, <1>5, CurrentSteps

LEMMA OrderStarts ==
    DayInit => OrderInv /\ JobInv
<1> SUFFICES ASSUME DayInit PROVE OrderInv /\ JobInv
  OBVIOUS
<1>1. /\ job.add = {} /\ job.step = "due" /\ \A r \in Callers : todo[r] = Nothing
  BY DEF DayInit, NoWrites
<1> QED
  BY <1>1, NoList DEF OrderInv, JobInv

\* Without overlaps every list fits the active rows, and every job commits what
\* it would read at that moment.
THEOREM OrderHolds == DaySpec => [](OrderInv /\ JobInv)
<1>1. DayTypeInv /\ StepsInv /\ OrderInv /\ JobInv /\ [DayNext]_dayVars => (OrderInv /\ JobInv)'
  BY OrderStep, JobStepStep
<1> QED
  BY <1>1, OrderStarts, DayTypesHold, PTL DEF DaySpec

\* If requests and jobs do not overlap, the food of the day is credited once
\* if it was worked and approved, give or take one for each interruption, and
\* unless something was done that the code credits or reverses wrongly:
\* FoodMatchesDay.
THEOREM FoodIsForWork == DaySpec => []FoodMatchesDay
<1>1. DayInit => FoodInv
  <2> SUFFICES ASSUME DayInit PROVE FoodInv
    OBVIOUS
  <2>1. /\ food = 0 /\ faults = 0 /\ \A r \in Callers : todo[r] = Nothing
        /\ WorkedRows = {}
    BY DEF DayInit, WorkedRows, Active, Ids
  <2>2. Current(todo) = {Nothing} /\ Cardinality(WorkedRows) = 0
    BY <2>1, CurrentIs, FS_EmptySet
  <2>3. DayTypeOK
    BY DayStarts DEF DayTypeInv
  <2>4. Balanced(Nothing)
    BY <2>1, <2>2, <2>3, BalancedNothing
  <2> QED
    BY <2>2, <2>4 DEF FoodInv
<1>2. /\ DayTypeInv /\ StepsInv /\ OrderInv /\ JobInv /\ FoodInv /\ [DayNext]_dayVars
        => FoodInv'
  BY FoodStep
<1>3. DayTypeInv /\ FoodInv => FoodMatchesDay
  <2> SUFFICES ASSUME DayTypeInv, FoodInv, Orderly, ~unmatched
               PROVE  food - Cardinality(WorkedRows) \in (-faults)..faults
    BY DEF FoodMatchesDay, WorkedRows
  <2>1. Current(todo) = {Nothing}
    BY CurrentIs DEF Orderly, Quiet
  <2>2. Balanced(Nothing)
    BY <2>1 DEF FoodInv, Orderly
  <2> QED
    BY <2>2, BalancedNothing DEF DayTypeInv
<1> QED
  BY <1>1, <1>2, <1>3, DayTypesHold, OrderHolds, PTL DEF DaySpec
-----------------------------------------------------------------------------
(* The day is decided.                                                     *)

\* The evening's job has been.
Late == clock > 3 \/ (clock = 3 /\ job.step = "done")

SettledInv ==
    ~raced /\ faults = 0 =>
        /\ Unasked
        /\ \A r \in Callers : \A w \in Commits(todo[r]) : Approves(w) /\ (Late => Decides(w))
        /\ Late => /\ rows # <<>>
                   /\ \A i \in Active : rows[i].approval = "NONE" => rows[i].status = "HOLIDAY"
        /\ clock = 5 /\ job.step = "done" => \A i \in Active : rows[i].approval # "PENDING"

LEMMA HourIs ==
    ASSUME DayTypeOK
    PROVE  /\ clock \in {1, 2, 3, 4, 5}
           /\ Hour = "night" <=> clock = 1
           /\ Hour = "shift" <=> clock = 2
           /\ Hour = "evening" <=> clock = 3
           /\ Hour = "midnight" <=> clock = 4
           /\ Hour = "month" <=> clock = 5
<1>1. clock \in 1..5
  BY DEF DayTypeOK, Hours
<1>2. clock \in {1, 2, 3, 4, 5}
  BY <1>1
<1> QED
  BY <1>2 DEF Hour, Hours

\* Each active row after a commit was so before, or is what the commit says.
LEMMA ActiveAfter ==
    ASSUME DayTypeInv, NEW r \in Callers, Committed(r),
           Head(todo[r]).do \in Naming => Head(todo[r]).id \in Active,
           NEW i \in Active'
    PROVE  LET w == Head(todo[r]) IN
           \/ i \in Active /\ rows'[i] = rows[i]
           \/ w.do \in Telling /\ rows'[i] = w.row
           \/ /\ w.do = "set" /\ w.id \in Active
              /\ rows'[i] = Updated(rows[w.id], w.status, w.approval)
<1> DEFINE w == Head(todo[r])
           L == Len(rows)
<1>1. /\ w \in Todo
      /\ \A j \in Ids : rows'[j] = After(w, j)
      /\ w.do \in Growing => rows'[L + 1] = w.row
  BY CommitTypes
<1>2. Active' = (Active \ Left(w)) \cup (IF w.do \in Telling \cup {"set"} THEN {Place(w)} ELSE {})
  BY RowsAfter
<1>3. Active \subseteq Ids /\ (w.do \in Naming => w.id \in Active)
  BY DEF Active
<1> HIDE DEF w, L
<1>4. CASE i \in Active \ Left(w)
  <2>1. rows'[i] = After(w, i)
    BY <1>1, <1>3, <1>4
  <2>2. After(w, i) = rows[i]
    BY <1>3, <1>4 DEF After, Left, Naming
  <2> QED
    BY <1>4, <2>1, <2>2
<1>5. CASE i \notin Active \ Left(w)
  <2>1. w.do \in Telling \cup {"set"} /\ i = Place(w)
    BY <1>2, <1>5
  <2>2. CASE w.do \in Growing
    <3>1. i = L + 1 /\ w.do \in Telling
      BY <2>1, <2>2 DEF Place, L, Growing, Telling
    <3> QED
      BY <1>1, <2>2, <3>1 DEF w
  <2>3. CASE w.do \in {"set", "revive"}
    <3>1. i = w.id /\ w.id \in Active /\ w.do \in Naming
      BY <1>3, <2>1, <2>3 DEF Place, Growing, Naming
    <3>2. rows'[i] = After(w, i)
      BY <1>1, <1>3, <3>1
    <3> QED
      BY <2>3, <3>1, <3>2 DEF After, Naming, Telling, w
  <2> QED
    BY <2>1, <2>2, <2>3 DEF Telling, Growing
<1> QED
  BY <1>4, <1>5

LEMMA SettledTaken ==
    ASSUME DayTypeInv, OrderInv, SettledInv, NEW r \in Callers, Begun(r)
    PROVE  SettledInv'
<1> SUFFICES ASSUME ~raced', faults' = 0 PROVE SettledInv'
  BY DEF SettledInv
<1>1. /\ ~raced /\ \A s \in Callers : s # r => todo'[s] = Nothing
      /\ UNCHANGED <<rows, clock, job, faults>>
  BY BegunAlone
<1>2. PICK wrong \in BOOLEAN : Plan(todo'[r], wrong)
  BY BegunAlone
<1>3. /\ Unasked
      /\ Late => /\ rows # <<>>
                 /\ \A i \in Active : rows[i].approval = "NONE" => rows[i].status = "HOLIDAY"
      /\ clock = 5 /\ job.step = "done" => \A i \in Active : rows[i].approval # "PENDING"
  BY <1>1 DEF SettledInv
<1>4. Late => Hour # "shift"
  BY HourIs DEF Late, DayTypeInv
<1>5. \A w \in Commits(todo'[r]) : Approves(w) /\ (Late => Decides(w))
  BY <1>2, <1>3, <1>4 DEF Plan
<1>6. \A s \in Callers : \A w \in Commits(todo'[s]) : Approves(w) /\ (Late => Decides(w))
  BY <1>1, <1>5, NoList
<1> QED
  BY <1>1, <1>3, <1>6 DEF SettledInv, Late, Unasked, Active, Ids, Approves, Decides, Commits

LEMMA SettledCommitted ==
    ASSUME DayTypeInv, OrderInv, SettledInv, NEW r \in Callers, Committed(r)
    PROVE  SettledInv'
<1> SUFFICES ASSUME ~raced', faults' = 0 PROVE SettledInv'
  BY DEF SettledInv
<1> DEFINE w == Head(todo[r])
           t == Tail(todo[r])
<1>1. ~raced /\ faults = 0 /\ UNCHANGED <<clock, job>>
  BY DEF Committed
<1>2. /\ todo'[r] = t /\ \A s \in Callers : s # r => todo'[s] = Nothing
      /\ w \in Todo /\ Commits(todo[r]) = {w} \cup Commits(t)
      /\ w.do \in Naming => w.id \in Active
      /\ \A v \in Commits(t) : v.do \in Naming => rows'[v.id] = rows[v.id]
  BY <1>1, CommittedAlone
<1>3. /\ Unasked
      /\ \A v \in Commits(todo[r]) : Approves(v) /\ (Late => Decides(v))
      /\ Late => /\ rows # <<>>
                 /\ \A i \in Active : rows[i].approval = "NONE" => rows[i].status = "HOLIDAY"
      /\ clock = 5 /\ job.step = "done" => \A i \in Active : rows[i].approval # "PENDING"
  BY <1>1 DEF SettledInv
<1>4. \A i \in Active' : \/ i \in Active /\ rows'[i] = rows[i]
                         \/ w.do \in Telling /\ rows'[i] = w.row
                         \/ /\ w.do = "set" /\ w.id \in Active
                            /\ rows'[i] = Updated(rows[w.id], w.status, w.approval)
  BY <1>2, ActiveAfter
<1>5. Approves(w) /\ (Late => Decides(w))
  BY <1>2, <1>3
<1>6. (rows' = <<>> <=> Len(rows') = 0) /\ (rows # <<>> => Len(rows) \in 1..Len(rows))
      /\ Len(rows) \in Nat /\ Len(rows') \in {Len(rows), Len(rows) + 1}
  <2>1. rows' \in Seq(Rows \cup {Inactive})
    BY CommitTypes DEF DayTypeInv, DayTypeOK
  <2>2. (rows # <<>> => Len(rows) \in 1..Len(rows)) /\ Len(rows) \in Nat
    BY EmptyRows, RowFacts DEF DayTypeInv
  <2> QED
    BY <2>1, <2>2, CommitTypes, EmptySeq
<1>7. \A v \in Commits(t) : Approves(v)' <=> Approves(v)
  <2> SUFFICES ASSUME NEW v \in Commits(t) PROVE Approves(v)' <=> Approves(v)
    OBVIOUS
  <2>1. v.do \in Naming => rows'[v.id] = rows[v.id]
    BY <1>2
  <2> QED
    BY <2>1 DEF Approves, Naming
<1> HIDE DEF w, t
<1>8. ASSUME NEW i \in Active', ~(i \in Active /\ rows'[i] = rows[i])
      PROVE  rows'[i].approval # "NONE" /\ (Late => rows'[i].approval \in Decided)
  <2>1. CASE w.do \in Telling /\ rows'[i] = w.row
    BY <1>5, <2>1 DEF Approves, Decides
  <2>2. CASE /\ w.do = "set" /\ w.id \in Active
             /\ rows'[i] = Updated(rows[w.id], w.status, w.approval)
    <3>1. rows[w.id].active = TRUE
      BY <2>2, RowFacts DEF DayTypeInv
    <3>2. rows'[i].approval = IF w.approval = "KEEP" THEN rows[w.id].approval ELSE w.approval
      BY <2>2, <3>1 DEF Updated, DayRow
    <3>3. /\ w.approval # "NONE" /\ (w.approval = "KEEP" => rows[w.id].approval # "NONE")
          /\ Late => w.approval \in Decided
      BY <1>5, <2>2 DEF Approves, Decides
    <3>4. Late => w.approval # "KEEP"
      BY <3>3 DEF Decided
    <3> QED
      BY <3>2, <3>3, <3>4
  <2> QED
    BY <1>4, <1>8, <2>1, <2>2
<1>9. Unasked'
  BY <1>3, <1>8 DEF Unasked
<1>10. \A s \in Callers : \A v \in Commits(todo'[s]) : Approves(v)' /\ (Late => Decides(v))
  <2>1. \A v \in Commits(t) : Approves(v)' /\ (Late => Decides(v))
    BY <1>2, <1>3, <1>7
  <2> QED
    BY <1>2, <2>1, NoList
<1>11. Late => rows' # <<>>
  BY <1>3, <1>6
<1>12. Late => \A i \in Active' : rows'[i].approval = "NONE" => rows'[i].status = "HOLIDAY"
  BY <1>3, <1>8
<1>13. clock = 5 => Late
  BY DEF Late
<1>14. clock = 5 /\ job.step = "done" => \A i \in Active' : rows'[i].approval # "PENDING"
  BY <1>3, <1>8, <1>13 DEF Decided
<1>15. /\ Late' = Late /\ \A v : Decides(v)' = Decides(v)
       /\ \A s \in Callers : Commits(todo[s])' = Commits(todo'[s])
  BY <1>1 DEF Late, Decides, Commits
<1> QED
  BY <1>1, <1>9, <1>10, <1>11, <1>12, <1>14, <1>15 DEF SettledInv

LEMMA SettledOfJob ==
    ASSUME DayTypeInv, OrderInv, JobInv, SettledInv, CommitJob
    PROVE  SettledInv'
<1> SUFFICES ASSUME ~raced', faults' = 0 PROVE SettledInv'
  BY DEF SettledInv
<1>1. /\ UNCHANGED <<clock, todo>> /\ ~raced /\ faults = 0
      /\ job.step = "commit" /\ job'.step = "done"
      /\ \A i \in Ids : rows'[i] = Written(i) /\ Written(i).active = rows[i].active
      /\ job.add = {} => Len(rows') = Len(rows)
      /\ job.add # {} => Len(rows') = Len(rows) + 1 /\ rows'[Len(rows) + 1] \in job.add
      /\ Ids' = 1..Len(rows') /\ DayTypeOK'
  BY JobCommitTypes DEF CommitJob, NoWrites, DayTypeInv
<1>2. /\ Unasked
      /\ Late => /\ rows # <<>>
                 /\ \A i \in Active : rows[i].approval = "NONE" => rows[i].status = "HOLIDAY"
  BY <1>1 DEF SettledInv
<1>3. \A r \in Callers : Commits(todo[r])' = {}
  <2>1. \A r \in Callers : todo[r] = Nothing
    BY <1>1 DEF OrderInv, JobRuns
  <2> QED
    BY <1>1, <2>1, NoList DEF Commits
<1>4. /\ Hour \in {"night", "evening", "midnight", "month"}
      /\ Hour = "night" <=> clock = 1
      /\ Hour = "evening" <=> clock = 3
      /\ Hour = "midnight" <=> clock = 4
      /\ Hour = "month" <=> clock = 5
  BY <1>1, HourIs DEF JobInv, DayTypeInv
<1>5. /\ Hour = "night" => job.add \subseteq Entries
      /\ Hour = "evening" => job.add = (IF rows = <<>> THEN {Absent} ELSE {})
      /\ Hour \in {"midnight", "month"} => job.add = {}
  BY <1>1, <1>4 DEF JobInv, Entered
<1>6. /\ Len(rows) \in Nat /\ Ids = 1..Len(rows) /\ (rows = <<>> <=> Len(rows) = 0)
      /\ (rows' = <<>> <=> Len(rows') = 0)
  BY RowFacts, EmptyRows, <1>1, EmptySeq DEF DayTypeInv, DayTypeOK
<1>7. \A i \in Active' : i \in Active \/ (i = Len(rows) + 1 /\ rows'[i] \in job.add)
  <2> SUFFICES ASSUME NEW i \in Active' PROVE i \in Active \/ (i = Len(rows) + 1 /\ rows'[i] \in job.add)
    OBVIOUS
  <2>1. i \in 1..Len(rows') /\ rows'[i].active
    BY <1>1 DEF Active
  <2>2. CASE i \in Ids
    BY <1>1, <2>1, <2>2 DEF Active
  <2>3. CASE i \notin Ids
    BY <1>1, <1>6, <2>1, <2>3
  <2> QED
    BY <2>2, <2>3
<1>8. ASSUME NEW i \in Active', rows'[i].approval = "NONE"
      PROVE  /\ rows'[i].status \in {"HOLIDAY", "NOT_CHECKED_IN_YET"}
             /\ Hour # "night" => rows'[i].status = "HOLIDAY"
  <2>1. CASE i \notin Active
    <3>1. rows'[i] \in job.add /\ Absent.approval = "PENDING"
      BY <1>7, <2>1 DEF Absent, DayRow
    <3>2. rows'[i] \in Entries /\ Hour = "night"
      BY <1>4, <1>5, <1>8, <3>1
    <3> QED
      BY <1>8, <3>2, EntryRows
  <2>2. CASE i \in Active
    <3> DEFINE s == rows[i].status
               a == rows[i].approval
               new == Written(i)
    <3>1. rows'[i] = new
      BY <1>1, <2>2 DEF Active
    <3>2. /\ Hour = "night" => new = rows[i]
          /\ Hour = "evening" =>
               IF s = "CHECKED_IN" /\ a # "REJECTED"
               THEN new = DayRow("CHECKED_OUT", IF a = "APPROVED" THEN a ELSE "PENDING")
               ELSE IF s = "NOT_CHECKED_IN_YET" THEN new = Absent ELSE new = rows[i]
          /\ Hour = "midnight" =>
               \/ new = rows[i]
               \/ s = "CHECKED_OUT" /\ a = "PENDING" /\ new = DayRow("APPROVAL_PENDING", a)
          /\ Hour = "month" =>
               IF a = "PENDING"
               THEN new = DayRow(IF s \in {"CHECKED_OUT", "HALF_DAY", "APPROVAL_PENDING"}
                                 THEN "PRESENT" ELSE s, "APPROVED")
               ELSE new = rows[i]
      BY <1>1, <2>2, JobDoes
    <3>3. \A status, approval : DayRow(status, approval).approval = approval
      BY DEF DayRow
    <3> HIDE DEF new
    <3>4. new = rows[i] /\ (Hour = "evening" => s # "NOT_CHECKED_IN_YET")
      BY <1>4, <1>8, <3>1, <3>2, <3>3 DEF Absent
    <3>5. Hour \in {"midnight", "month"} => Late
      BY <1>4 DEF Late
    <3>6. s \in {"HOLIDAY", "NOT_CHECKED_IN_YET"} /\ a = "NONE"
      BY <1>2, <1>8, <2>2, <3>1, <3>4 DEF Unasked
    <3> QED
      BY <1>2, <1>4, <2>2, <3>1, <3>4, <3>5, <3>6
  <2> QED
    BY <2>1, <2>2
<1>9. Unasked'
  BY <1>8 DEF Unasked
<1>10. ASSUME Late' PROVE Hour # "night" /\ rows' # <<>>
  <2>1. Hour # "night"
    BY <1>1, <1>4, <1>10 DEF Late
  <2>2. CASE Hour = "evening"
    BY <1>1, <1>5, <1>6, <2>2
  <2>3. CASE Hour \in {"midnight", "month"}
    <3>1. Late
      BY <1>4, <2>3 DEF Late
    <3> QED
      BY <1>1, <1>2, <1>5, <1>6, <2>3, <3>1
  <2> QED
    BY <1>4, <2>1, <2>2, <2>3
<1>11. ASSUME clock = 5, NEW i \in Active'
       PROVE  rows'[i].approval # "PENDING"
  <2>1. Hour = "month" /\ job.add = {} /\ i \in Active
    BY <1>4, <1>5, <1>7, <1>11
  <2>2. rows'[i] = Written(i)
    BY <1>1, <2>1 DEF Active
  <2>3. CASE rows[i].approval = "PENDING"
    <3>1. \E s : Written(i) = DayRow(s, "APPROVED")
      BY <1>1, <2>1, <2>3, JobDoes
    <3> QED
      BY <2>2, <3>1 DEF DayRow
  <2>4. CASE rows[i].approval # "PENDING"
    <3>1. Written(i) = rows[i]
      BY <1>1, <2>1, <2>4, JobDoes
    <3> QED
      BY <2>2, <2>4, <3>1
  <2> QED
    BY <2>3, <2>4
<1> QED
  BY <1>1, <1>3, <1>8, <1>9, <1>10, <1>11 DEF SettledInv

LEMMA SettledStep ==
    ASSUME DayTypeInv, StepsInv, OrderInv, JobInv, SettledInv, [DayNext]_dayVars
    PROVE  SettledInv'
<1> SUFFICES ASSUME ~raced', faults' = 0 PROVE SettledInv'
  BY DEF SettledInv
<1>0. ~raced
  BY RacedBefore
<1>1. ASSUME NEW r \in Callers, Begun(r) \/ Committed(r) PROVE SettledInv'
  BY <1>1, SettledTaken, SettledCommitted
<1>2. ASSUME NEW r \in Callers, Stop(r) PROVE SettledInv'
  BY <1>2 DEF Stop, DayTypeInv, DayTypeOK
<1>3. ASSUME UNCHANGED <<rows, todo, faults>>,
             Late' => Late, ~(clock' = 5 /\ job'.step = "done")
      PROVE  SettledInv'
  <2>1. /\ Unasked
        /\ \A r \in Callers : \A w \in Commits(todo[r]) : Approves(w) /\ (Late => Decides(w))
        /\ Late => /\ rows # <<>>
                   /\ \A i \in Active : rows[i].approval = "NONE" => rows[i].status = "HOLIDAY"
    BY <1>0, <1>3 DEF SettledInv
  <2> QED
    BY <1>3, <2>1 DEF SettledInv, Unasked, Active, Ids, Approves, Decides, Commits
<1>h. /\ Hour = "night" <=> clock = 1
      /\ Hour = "evening" <=> clock = 3
      /\ Hour = "midnight" <=> clock = 4
      /\ Hour = "month" <=> clock = 5
      /\ clock \in {1, 2, 3, 4, 5}
  BY HourIs DEF DayTypeInv
<1>4. ASSUME NEW step \in {"notCheckedIn", "missing", "commit"}, NEW writes \in SUBSET Writes,
             NEW add \in SUBSET Rows, Found(step, writes, add)
      PROVE  SettledInv'
  <2>1. UNCHANGED <<rows, todo, faults, clock>> /\ job'.step = step
    BY <1>4, FoundTypes
  <2>2. Late' => Late
    BY <2>1 DEF Late
  <2> QED
    BY <1>3, <2>1, <2>2
<1>5. CASE CommitJob
  BY <1>5, SettledOfJob
<1>6. CASE AbortEntry
  <2>1. UNCHANGED <<rows, todo, faults, clock>> /\ clock = 1
    BY <1>6, <1>h DEF AbortEntry
  <2>2. Late' => Late
    BY <2>1 DEF Late
  <2> QED
    BY <1>3, <2>1, <2>2
<1>7. CASE StopJob
  BY <1>7 DEF StopJob, DayTypeInv, DayTypeOK
<1>8. CASE Tick
  <2>1. /\ UNCHANGED <<rows, todo, faults>> /\ clock' = clock + 1 /\ job'.step = "due"
        /\ Hour \in JobHours => job.step = "done"
    BY <1>8 DEF Tick, NoWrites
  <2>2. Late' => Late
    BY <1>h, <2>1 DEF Late, JobHours
  <2> QED
    BY <1>3, <2>1, <2>2
<1>9. CASE UNCHANGED dayVars
  BY <1>0, <1>9 DEF dayVars, SettledInv, Late, Unasked, Active, Ids, Approves, Decides, Commits
<1> QED
  BY <1>1, <1>2, <1>4, <1>5, <1>6, <1>7, <1>8, <1>9, DaySteps

\* If requests and jobs do not overlap and none is interrupted, the day has an
\* active row at the end of the month, which is decided or a holiday:
\* DayIsSettled.
THEOREM DayGetsSettled == DaySpec => []DayIsSettled
<1>1. DayInit => SettledInv
  <2> SUFFICES ASSUME DayInit PROVE SettledInv
    OBVIOUS
  <2>1. /\ Active = {} /\ clock = 1 /\ \A r \in Callers : Commits(todo[r]) = {}
    BY NoList DEF DayInit, Active, Ids
  <2> QED
    BY <2>1 DEF SettledInv, Unasked, Late
<1>2. /\ DayTypeInv /\ StepsInv /\ OrderInv /\ JobInv /\ SettledInv /\ [DayNext]_dayVars
        => SettledInv'
  BY SettledStep
<1>3. DayTypeInv /\ SettledInv /\ SomethingActive => DayIsSettled
  <2> SUFFICES ASSUME DayTypeInv, SettledInv, SomethingActive,
                      Orderly, faults = 0, Hour = "month", job.step = "done"
               PROVE  /\ Active # {}
                      /\ \A i \in Active : rows[i].approval \in {"APPROVED", "REJECTED"}
                                           \/ rows[i] = DayRow("HOLIDAY", "NONE")
    BY DEF DayIsSettled
  <2>1. clock = 5 /\ Late
    BY HourIs DEF DayTypeInv, Late
  <2>2. /\ rows # <<>>
        /\ \A i \in Active : rows[i].approval = "NONE" => rows[i].status = "HOLIDAY"
        /\ \A i \in Active : rows[i].approval # "PENDING"
    BY <2>1 DEF SettledInv, Orderly
  <2>3. Active # {}
    BY <2>2 DEF SomethingActive, Orderly
  <2>4. ASSUME NEW i \in Active
        PROVE  rows[i].approval \in {"APPROVED", "REJECTED"} \/ rows[i] = DayRow("HOLIDAY", "NONE")
    <3>1. rows[i] \in [active : {TRUE}, status : DayStatus, approval : Approval]
      BY RowFacts DEF DayTypeInv, Rows
    <3>2. rows[i] = DayRow(rows[i].status, rows[i].approval)
      BY <3>1 DEF DayRow
    <3>3. rows[i].approval \in {"NONE", "PENDING", "APPROVED", "REJECTED"}
      BY <3>1 DEF Approval
    <3> QED
      BY <2>2, <3>2, <3>3
  <2> QED
    BY <2>3, <2>4
<1> QED
  BY <1>1, <1>2, <1>3, DayTypesHold, OrderHolds, DayKeepsARow, PTL DEF DaySpec
=============================================================================
