--------------------------- MODULE Server_proofs ---------------------------
(* What the process of the server keeps in memory while requests and jobs  *)
(* come and go: the runs of the nightly crons and their timers, the marks  *)
(* of the jobs started by hand, the connections of the pool.  The three    *)
(* models share no state; their proofs stand one after another.            *)
EXTENDS CronOrchestrator, CronTrigger, ConnectionPool, FiniteSetTheorems, TLAPS

-----------------------------------------------------------------------------
(* I. The nightly crons, for any number of runs, days, crashes and groups  *)
(* started by hand: what the clock and the timers guarantee.               *)

RunRow == [phase : {"between", "racing", "closed"}, group : DOMAIN Groups,
           by : {"schedule", "trigger"}, attempted : 0..4, allSucceeded : BOOLEAN,
           since : Nat, log : {"RUNNING", "SUCCESS", "FAILED"}]

IsOpen(x) == x.phase \in {"between", "racing"}

\* A tick the attempts of the run have not paid for yet: its timer has gone off.
Owed(x) == IF x.phase = "racing" /\ x.since < Now THEN 1 ELSE 0

\* The clock moves only when every open run races a job whose timer still runs,
\* so a run that is open has attempted a job for every tick but the last.
OnTime(x) ==
    /\ x.phase = "racing" => /\ x.attempted < Len(Groups[x.group])
                             /\ Now - 1 <= x.since
    /\ x.by = "schedule" => tick >= 1 /\ tick - 1 <= x.attempted + Owed(x)
    /\ x.by = "trigger"  => Now <= LastDay * (LastTick + 1) + LastTick + x.attempted + Owed(x)

RunOK(x) ==
    /\ x \in RunRow
    /\ x.attempted <= Len(Groups[x.group]) /\ x.since <= Now
    /\ IsOpen(x) => x.log = "RUNNING" /\ OnTime(x)

RunsOK ==
    /\ run \in [Slots -> RunRow \cup {NoRun}]
    /\ \A s \in Slots : run[s] = NoRun \/ RunOK(run[s])

\* A cron is due in the tick of its schedule only.
DueNow == due \subseteq Scheduled(day, tick)

\* The attendance entry of the night has still its turn in this run.
ToEnter(x) ==
    /\ x.group = "DailyMidnight" /\ x.by = "schedule"
    /\ \/ x.phase = "between" /\ x.attempted <= 3
       \/ x.phase = "racing" /\ x.attempted < 3

Handled(d) == d \in entered \/ <<"DailyMidnight", d>> \in missed

PastEntered == \A d \in (FirstDay + 1)..day : Handled(d)

\* From midnight in India on the entry of the new date is under way or done.
EntryInv ==
    /\ PastEntered
    /\ tick >= 1 => \/ "DailyMidnight" \in due
                    \/ Handled(day + 1)
                    \/ \E s \in Slots : run[s] # NoRun /\ ToEnter(run[s])

\* TypeOK without the runs.
NightTyped ==
    /\ day \in FirstDay..(LastDay + 1) /\ tick \in 0..LastTick
    /\ due \subseteq Crons
    /\ up \in BOOLEAN
    /\ entered \cup {x[2] : x \in missed} \subseteq Nat
    /\ \A m \in approved \cup paid \cup background : m + 1 \in 0..Month(DateIST)
    /\ accrued \subseteq 0..Month(DateIST)
    /\ manual \in 0..MaxManual /\ faults \in 0..MaxFaults

NightInv == NightTyped /\ RunsOK /\ DueNow /\ EntryInv

-----------------------------------------------------------------------------
(* The constants.                                                          *)

LEMMA GroupFacts ==
    /\ DOMAIN Groups = {"DailyMidnight", "MonthlyAutoApprove", "April1FY"}
    /\ Len(Groups["DailyMidnight"]) = 4
    /\ Len(Groups["MonthlyAutoApprove"]) = 2
    /\ Len(Groups["April1FY"]) = 2
    /\ Groups["DailyMidnight"][4] = "DailyAttendanceEntry"
BY DEF Groups

LEMMA GroupLen == ASSUME NEW g \in DOMAIN Groups PROVE Len(Groups[g]) \in 2..4
BY GroupFacts

LEMMA NightBounds ==
    /\ DaysInMonth \in Nat /\ DaysInMonth >= 3
    /\ FirstDay \in Nat /\ LastDay \in Nat /\ April \in Nat
    /\ MaxManual \in Nat /\ MaxFaults \in Nat /\ FirstDay <= LastDay
BY CronAssumption

\* A month has its first two days in itself, and months follow each other.
LEMMA Calendar ==
    ASSUME NEW d \in Nat
    PROVE  /\ Month(d) \in Nat /\ Month(d) <= Month(d + 1)
           /\ DayOfMonth(d) = 1 => Month(d + 1) = Month(d)
           /\ DayOfMonth(d) = 2 => /\ d >= 1 /\ DayOfMonth(d - 1) = 1
                                   /\ Month(d - 1) = Month(d) /\ Month(d + 1) = Month(d)
<1>1. d \div DaysInMonth \in Nat /\ d % DaysInMonth \in 0..(DaysInMonth - 1)
      /\ d = DaysInMonth * (d \div DaysInMonth) + (d % DaysInMonth)
  BY NightBounds
<1>2. ASSUME NEW q \in Nat, NEW r \in 0..(DaysInMonth - 1), NEW e \in Nat, e = DaysInMonth * q + r
      PROVE  e \div DaysInMonth = q /\ e % DaysInMonth = r
  BY <1>2, NightBounds
<1>3. Month(d) \in Nat /\ Month(d) <= Month(d + 1)
  BY NightBounds DEF Month
<1>4. DayOfMonth(d) = 1 => Month(d + 1) = Month(d)
  BY NightBounds DEF Month, DayOfMonth
<1>5. ASSUME DayOfMonth(d) = 2
      PROVE  /\ d >= 1 /\ DayOfMonth(d - 1) = 1
             /\ Month(d - 1) = Month(d) /\ Month(d + 1) = Month(d)
  <2> PICK q \in Nat : q = d \div DaysInMonth
    BY <1>1
  <2>1. d % DaysInMonth = 1
    BY <1>1, <1>5 DEF DayOfMonth
  <2>2. d = DaysInMonth * q + 1 /\ DaysInMonth * q \in Nat
    BY <1>1, <2>1, NightBounds
  <2>3. d - 1 \in Nat /\ d - 1 = DaysInMonth * q + 0 /\ d + 1 \in Nat /\ d + 1 = DaysInMonth * q + 2
    BY <2>2
  <2>4. (d - 1) \div DaysInMonth = q /\ (d - 1) % DaysInMonth = 0
    BY <1>2, <2>3, NightBounds
  <2>5. (d + 1) \div DaysInMonth = q
    <3>1. 2 \in 0..(DaysInMonth - 1)
      BY NightBounds
    <3> QED
      BY <1>2, <2>3, <3>1
  <2> QED
    BY <2>2, <2>4, <2>5 DEF Month, DayOfMonth
<1> QED
  BY <1>3, <1>4, <1>5

\* The clock as a number.
LEMMA Clock ==
    ASSUME NightTyped
    PROVE  /\ day \in Nat /\ tick \in 0..14 /\ Now \in Nat /\ Now = day * 15 + tick
           /\ LastTick = 14 /\ DateIST \in Nat
           /\ tick >= 1 => DateIST = day + 1
BY NightBounds DEF NightTyped, Now, LastTick, DateIST

LEMMA TypeFromRuns == NightTyped /\ RunsOK => TypeOK
<1> SUFFICES ASSUME NightTyped, RunsOK PROVE TypeOK
  OBVIOUS
<1>1. ASSUME NEW s \in Slots, run[s] # NoRun
      PROVE  /\ run[s].phase \in {"between", "racing", "closed"}
             /\ run[s].group \in DOMAIN Groups
             /\ run[s].by \in {"schedule", "trigger"}
             /\ run[s].attempted \in 0..Len(Jobs(s))
             /\ run[s].since \in 0..Now
             /\ run[s].allSucceeded \in BOOLEAN
             /\ run[s].log \in {"RUNNING", "SUCCESS", "FAILED"}
  <2>1. RunOK(run[s])
    BY <1>1 DEF RunsOK
  <2>2. run[s] \in RunRow /\ run[s].attempted <= Len(Groups[run[s].group]) /\ run[s].since <= Now
    BY <2>1 DEF RunOK
  <2>3. Len(Groups[run[s].group]) \in 2..4 /\ Now \in Nat
    BY <2>2, GroupLen, Clock DEF RunRow
  <2> QED
    BY <2>2, <2>3 DEF RunRow, Jobs
<1> QED
  BY <1>1 DEF NightTyped, TypeOK

-----------------------------------------------------------------------------
(* One slot moves and the clock stands still.                              *)

\* An open run is a row that is sound.
LEMMA OpenRun ==
    ASSUME RunsOK, NEW s \in Slots, Open(s)
    PROVE  /\ RunOK(run[s]) /\ run[s] \in RunRow /\ run[s] # NoRun
           /\ IsOpen(run[s]) /\ run[s].log = "RUNNING" /\ OnTime(run[s])
           /\ Len(Jobs(s)) \in 2..4 /\ Jobs(s) = Groups[run[s].group]
<1>1. run[s] # NoRun
  BY DEF Open, NoRun
<1>2. RunOK(run[s]) /\ IsOpen(run[s])
  BY <1>1 DEF RunsOK, IsOpen, Open
<1>3. run[s] \in RunRow
  BY <1>2 DEF RunOK
<1>4. Len(Groups[run[s].group]) \in 2..4
  BY <1>3, GroupLen DEF RunRow
<1> QED
  BY <1>1, <1>2, <1>3, <1>4 DEF RunOK, Jobs

LEMMA SlotStep ==
    ASSUME RunsOK, UNCHANGED <<day, tick>>, NEW s \in Slots, NEW e, RunOK(e),
           run' = [run EXCEPT ![s] = e]
    PROVE  /\ RunsOK'
           /\ run'[s] = e /\ \A t \in Slots : t # s => run'[t] = run[t]
<1>1. e \in RunRow
  BY DEF RunOK
<1>2. run'[s] = e /\ \A t \in Slots : t # s => run'[t] = run[t]
  BY DEF RunsOK
<1>3. run' \in [Slots -> RunRow \cup {NoRun}]
  BY <1>1 DEF RunsOK
<1>4. ASSUME NEW t \in Slots PROVE run'[t] = NoRun \/ RunOK(run[t])'
  <2>1. CASE t = s
    BY <1>2, <2>1 DEF RunOK, OnTime, Owed, Now, IsOpen
  <2>2. CASE t # s
    BY <1>2, <2>2 DEF RunsOK, RunOK, OnTime, Owed, Now, IsOpen
  <2> QED
    BY <2>1, <2>2
<1> QED
  BY <1>2, <1>3, <1>4 DEF RunsOK

\* The runs are left alone.
LEMMA SameRuns ==
    ASSUME RunsOK, UNCHANGED <<day, tick, run>>
    PROVE  RunsOK'
BY DEF RunsOK, RunOK, OnTime, Owed, Now, IsOpen

\* A slot that was not waited for by the entry of the night may be taken.
LEMMA EntryKept ==
    ASSUME EntryInv, UNCHANGED <<day, tick>>, entered \subseteq entered', missed \subseteq missed',
           "DailyMidnight" \in due =>
               \/ "DailyMidnight" \in due'
               \/ Handled(day + 1)'
               \/ \E s \in Slots : run'[s] # NoRun /\ ToEnter(run'[s]),
           \A s \in Slots : run[s] # NoRun /\ ToEnter(run[s]) =>
               \/ run'[s] # NoRun /\ ToEnter(run'[s])
               \/ Handled(day + 1)'
    PROVE  EntryInv'
<1>1. \A d : Handled(d) => Handled(d)'
  BY DEF Handled
<1>2. PastEntered'
  BY <1>1 DEF EntryInv, PastEntered, Handled
<1>3. ASSUME tick' >= 1
      PROVE  \/ "DailyMidnight" \in due'
             \/ Handled(day + 1)'
             \/ \E s \in Slots : run'[s] # NoRun /\ ToEnter(run'[s])
  BY <1>1, <1>3 DEF EntryInv
<1> QED
  BY <1>2, <1>3 DEF EntryInv

LEMMA BeginRow ==
    ASSUME NightTyped, NEW g \in DOMAIN Groups, NEW by \in {"schedule", "trigger"}, NEW e,
           e = [phase |-> "between", group |-> g, by |-> by, attempted |-> 0,
                allSucceeded |-> TRUE, since |-> 0, log |-> "RUNNING"],
           by = "schedule" => tick = 1,
           by = "trigger" => day <= LastDay
    PROVE  /\ RunOK(e) /\ e # NoRun
           /\ g = "DailyMidnight" /\ by = "schedule" => ToEnter(e)
<1>1. e \in RunRow /\ e.attempted = 0 /\ e.since = 0 /\ e.phase = "between" /\ e.group = g
      /\ e.by = by /\ e.log = "RUNNING"
  BY DEF RunRow
<1>2. Len(Groups[g]) \in 2..4 /\ Now = day * 15 + tick /\ day \in Nat /\ tick \in 0..14
      /\ LastTick = 14 /\ LastDay \in Nat
  BY GroupLen, Clock, NightBounds
<1>3. OnTime(e)
  BY <1>1, <1>2 DEF OnTime, Owed
<1>4. e # NoRun
  BY <1>1 DEF NoRun
<1> QED
  BY <1>1, <1>2, <1>3, <1>4 DEF RunOK, ToEnter

-----------------------------------------------------------------------------
(* The orchestrator, action by action.                                     *)

\* Midnight in India is one tick: a group is due in no other.
LEMMA DueAt ==
    ASSUME NightTyped, DueNow
    PROVE  /\ \A g \in DOMAIN Groups : g \in due => tick = 1
           /\ "MonthlyLeaveAccrual" \in due => tick = 7 /\ DayOfMonth(day) = 1
           /\ "MonthlyPayrollGeneration" \in due => tick = 13 /\ DayOfMonth(day) = 2
BY GroupFacts DEF DueNow, Scheduled

\* What is missed has a date.
LEMMA MissedMore ==
    ASSUME NightTyped, NEW S, \A x \in S : x[2] \in Nat, missed' = missed \cup S
    PROVE  {x[2] : x \in missed'} \subseteq Nat
BY DEF NightTyped

LEMMA BeginPreserves ==
    ASSUME NightInv, NEW s \in Slots, NEW g \in DOMAIN Groups, NEW by \in {"schedule", "trigger"},
           Begin(s, g, by), UNCHANGED <<day, tick, background, up, history>>, faults' = faults,
           \/ by = "schedule" /\ g \in due /\ due' = due \ {g} /\ manual' = manual
           \/ by = "trigger" /\ day <= LastDay /\ due' = due /\ manual' \in 0..MaxManual
    PROVE  NightInv'
<1> PICK e : e = [phase |-> "between", group |-> g, by |-> by, attempted |-> 0,
                  allSucceeded |-> TRUE, since |-> 0, log |-> "RUNNING"]
  OBVIOUS
<1>1. ~Open(s) /\ run' = [run EXCEPT ![s] = e]
  BY DEF Begin
<1>2. NightTyped /\ RunsOK /\ DueNow /\ EntryInv
  BY DEF NightInv
<1>3. RunOK(e) /\ e # NoRun /\ (g = "DailyMidnight" /\ by = "schedule" => ToEnter(e))
  BY <1>2, BeginRow, DueAt
<1>4. RunsOK' /\ run'[s] = e /\ \A t \in Slots : t # s => run'[t] = run[t]
  BY <1>1, <1>2, <1>3, SlotStep
<1>5. NightTyped'
  BY <1>2 DEF NightTyped, history, DateIST
<1>6. DueNow'
  BY <1>2 DEF DueNow
<1>7. EntryInv'
  <2>1. "DailyMidnight" \in due => \/ "DailyMidnight" \in due'
                                   \/ run'[s] # NoRun /\ ToEnter(run'[s])
    BY <1>3, <1>4
  <2>2. ~ToEnter(run[s])
    BY <1>1 DEF ToEnter, Open
  <2> QED
    BY <1>2, <1>4, <2>1, <2>2, EntryKept DEF history
<1> QED
  BY <1>4, <1>5, <1>6, <1>7 DEF NightInv

LEMMA FireGroupPreserves ==
    ASSUME NightInv, NEW g \in DOMAIN Groups, FireGroup(g)
    PROVE  NightInv'
<1>1. NightTyped /\ RunsOK /\ DueNow /\ EntryInv
  BY DEF NightInv
<1>2. CASE \E s \in Slots : Begin(s, g, "schedule") /\ UNCHANGED <<missed, faults>>
  BY <1>2, BeginPreserves DEF FireGroup, history
<1>3. CASE UNCHANGED run
  <2>1. RunsOK'
    BY <1>1, <1>3, SameRuns DEF FireGroup
  <2>2. missed' = missed \/ missed' = missed \cup {<<g, DateIST>>}
    BY DEF FireGroup, Lose
  <2>3. NightTyped'
    <3>1. {x[2] : x \in missed'} \subseteq Nat
      BY <1>1, <2>2, MissedMore, Clock DEF NightTyped
    <3>2. faults' \in 0..MaxFaults
      BY <1>1, NightBounds DEF FireGroup, Lose, NightTyped
    <3> QED
      BY <1>1, <3>1, <3>2 DEF NightTyped, FireGroup, DateIST
  <2>4. DueNow'
    BY <1>1 DEF FireGroup, DueNow
  <2>5. EntryInv'
    <3>1. g = "DailyMidnight" => Handled(day + 1)' \/ \E s \in Slots : Begin(s, g, "schedule")
      <4>1. CASE Lose(g) /\ g = "DailyMidnight"
        <5>1. tick = 1 /\ DateIST = day + 1
          BY <1>1, DueAt, Clock DEF FireGroup
        <5> QED
          BY <4>1, <5>1 DEF Lose, Handled, FireGroup
      <4> QED
        BY <4>1 DEF FireGroup, GuardPasses
    <3>2. \A s \in Slots : ~Begin(s, g, "schedule")
      <4> SUFFICES ASSUME NEW s \in Slots, Begin(s, g, "schedule") PROVE FALSE
        OBVIOUS
      <4> PICK e : e = [phase |-> "between", group |-> g, by |-> "schedule", attempted |-> 0,
                        allSucceeded |-> TRUE, since |-> 0, log |-> "RUNNING"]
        OBVIOUS
      <4>1. run' = [run EXCEPT ![s] = e] /\ ~Open(s)
        BY DEF Begin
      <4>2. run[s] = e
        BY <1>1, <1>3, <4>1 DEF RunsOK
      <4> QED
        BY <4>1, <4>2 DEF Open
    <3> QED
      BY <1>1, <1>3, <2>2, <3>1, <3>2, EntryKept DEF FireGroup
  <2> QED
    BY <2>1, <2>3, <2>4, <2>5 DEF NightInv
<1> QED
  BY <1>2, <1>3 DEF FireGroup

LEMMA TriggerGroupPreserves ==
    ASSUME NightInv, NEW g \in DOMAIN Groups, TriggerGroup(g)
    PROVE  NightInv'
<1>1. manual' \in 0..MaxManual
  BY NightBounds DEF TriggerGroup, NightInv, NightTyped
<1> QED
  BY <1>1, BeginPreserves DEF TriggerGroup

\* A step of an open run that starts no job before its time: what the step
\* leaves in the slot is sound, and the entry keeps its turn or is done.
LEMMA RunPreserves ==
    ASSUME NightInv, NEW s \in Slots, NEW e, RunOK(e), Open(s),
           run' = [run EXCEPT ![s] = e], NightTyped',
           UNCHANGED <<day, tick, due>>, entered \subseteq entered', missed' = missed,
           ToEnter(run[s]) => (e # NoRun /\ ToEnter(e)) \/ Handled(day + 1)'
    PROVE  NightInv'
<1>1. RunsOK' /\ run'[s] = e /\ \A t \in Slots : t # s => run'[t] = run[t]
  BY SlotStep DEF NightInv
<1>2. EntryInv'
  BY <1>1, EntryKept DEF NightInv
<1>3. DueNow'
  BY DEF NightInv, DueNow
<1> QED
  BY <1>1, <1>2, <1>3 DEF NightInv

LEMMA StartJobPreserves ==
    ASSUME NightInv, NEW s \in Slots, StartJob(s)
    PROVE  NightInv'
<1>1. NightTyped /\ RunsOK /\ EntryInv
  BY DEF NightInv
<1>2. Open(s)
  BY DEF StartJob, Open
<1>3. /\ RunOK(run[s]) /\ run[s] \in RunRow /\ run[s].log = "RUNNING" /\ OnTime(run[s])
      /\ Len(Jobs(s)) \in 2..4 /\ Jobs(s) = Groups[run[s].group]
  BY <1>1, <1>2, OpenRun
<1> PICK x, now : x = run[s] /\ now = Now
  OBVIOUS
<1> PICK e : e = [x EXCEPT !.phase = "racing", !.since = now]
  OBVIOUS
<1>4. now \in Nat /\ now = day * 15 + tick /\ LastTick = 14 /\ day \in Nat /\ tick \in 0..14
  BY <1>1, Clock
<1>5. x \in RunRow /\ x.phase = "between" /\ x.attempted < Len(Groups[x.group])
  BY <1>3 DEF StartJob
<1>6. /\ e \in RunRow /\ e.phase = "racing" /\ e.since = now /\ e.group = x.group /\ e.by = x.by
      /\ e.attempted = x.attempted /\ e.log = x.log
  BY <1>4, <1>5 DEF RunRow
<1>7. run' = [run EXCEPT ![s] = e]
  BY <1>1, <1>3 DEF StartJob, RunsOK
<1>8. OnTime(e)
  <2>1. Owed(x) = 0 /\ Owed(e) = 0
    BY <1>4, <1>5, <1>6 DEF Owed
  <2> QED
    BY <1>3, <1>4, <1>5, <1>6, <2>1 DEF OnTime
<1>9. RunOK(e)
  BY <1>3, <1>4, <1>5, <1>6, <1>8 DEF RunOK
<1>10. ASSUME ToEnter(x) PROVE ToEnter(e) \/ Handled(day + 1)'
  <2>1. CASE x.attempted = 3
    <3>1. Job(s) = "DailyAttendanceEntry"
      BY <1>3, <1>10, <2>1, GroupFacts DEF Job, ToEnter
    <3>2. tick >= 1 /\ DateIST = day + 1
      BY <1>1, <1>3, <1>10, Clock DEF OnTime, ToEnter
    <3> QED
      BY <3>1, <3>2 DEF StartJob, Handled
  <2>2. CASE x.attempted # 3
    <3>1. x.attempted < 3
      BY <1>5, <1>10, <2>2 DEF ToEnter, RunRow
    <3> QED
      BY <1>6, <1>10, <3>1 DEF ToEnter
  <2> QED
    BY <2>1, <2>2
<1>11. NightTyped'
  BY <1>1, Clock DEF StartJob, NightTyped, DateIST
<1>12. e # NoRun
  BY <1>6 DEF NoRun
<1>13. entered \subseteq entered' /\ missed' = missed /\ UNCHANGED <<day, tick, due>>
  BY DEF StartJob
<1> QED
  BY <1>2, <1>7, <1>9, <1>10, <1>11, <1>12, <1>13, RunPreserves

\* A job that is raced is one of the group's.
LEMMA RacedIsOne ==
    ASSUME NEW x, RunOK(x), x.phase = "racing"
    PROVE  x.attempted \in 0..3 /\ x.attempted + 1 <= Len(Groups[x.group])
<1>1. x \in RunRow /\ OnTime(x)
  BY DEF RunOK, IsOpen
<1>2. PICK len \in 2..4 : len = Len(Groups[x.group])
  <2>1. x.group \in DOMAIN Groups
    BY <1>1 DEF RunRow
  <2> QED
    BY <2>1, GroupLen, Zenon
<1>3. x.attempted \in 0..4 /\ x.attempted < len
  BY <1>1, <1>2 DEF OnTime, RunRow
<1>4. x.attempted \in 0..3 /\ x.attempted + 1 <= len
  BY <1>3
<1> QED
  BY <1>2, <1>4

\* One more job attempted pays for the tick its timer has taken.
LEMMA AttemptedRow ==
    ASSUME NightTyped, NEW x, RunOK(x), x.phase = "racing", NEW e \in RunRow,
           e.phase = "between", e.since = 0, e.group = x.group, e.by = x.by,
           e.attempted = x.attempted + 1, e.log = x.log
    PROVE  RunOK(e) /\ (ToEnter(x) => e # NoRun /\ ToEnter(e))
<1>1. x \in RunRow /\ x.log = "RUNNING" /\ OnTime(x)
  BY DEF RunOK, IsOpen
<1>2. x.attempted \in 0..3 /\ e.attempted <= Len(Groups[e.group])
  BY RacedIsOne
<1>3. PICK n \in 0..4 : n = e.attempted /\ n = x.attempted + 1
  BY <1>2
<1>4. x.attempted = n - 1
  BY <1>2, <1>3
<1>5. Now \in Nat /\ LastTick = 14 /\ tick \in 0..14 /\ LastDay \in Nat
  BY Clock, NightBounds
<1>6. OnTime(e)
  <2> PICK owed \in {0, 1} : owed = Owed(x)
    BY DEF Owed
  <2>1. Owed(e) = 0
    BY DEF Owed
  <2>2. x.by = "schedule" => tick >= 1 /\ tick - 1 <= n
    <3>1. x.by = "schedule" => tick >= 1 /\ tick - 1 <= x.attempted + owed
      BY <1>1 DEF OnTime
    <3> QED
      BY <1>3, <1>4, <1>5, <3>1
  <2>3. x.by = "trigger" => Now <= LastDay * (LastTick + 1) + LastTick + n
    <3>1. x.by = "trigger" => Now <= LastDay * (LastTick + 1) + LastTick + x.attempted + owed
      BY <1>1 DEF OnTime
    <3> QED
      BY <1>3, <1>4, <1>5, <3>1
  <2> QED
    BY <1>3, <1>5, <2>1, <2>2, <2>3 DEF OnTime
<1>7. RunOK(e)
  <2>1. e.attempted <= Len(Groups[e.group]) /\ e.since <= Now
    BY <1>2, <1>5
  <2> QED
    BY <1>1, <1>6, <2>1 DEF RunOK
<1>8. ToEnter(x) => e # NoRun /\ ToEnter(e)
  <2>1. ToEnter(x) => e.attempted <= 3
    BY <1>2 DEF ToEnter
  <2> QED
    BY <2>1 DEF ToEnter, NoRun
<1> QED
  BY <1>7, <1>8

\* executeGroup records what came of a job and looks at the next one.
LEMMA RecordPreserves ==
    ASSUME NightInv, NEW s \in Slots, NEW outcome, run[s].phase = "racing", Record(s, outcome),
           NightTyped', UNCHANGED <<day, tick, due, entered, missed>>
    PROVE  NightInv'
<1>1. NightTyped /\ RunsOK /\ EntryInv
  BY DEF NightInv
<1>2. Open(s)
  BY DEF Open
<1>3. /\ RunOK(run[s]) /\ run[s] \in RunRow /\ run[s].log = "RUNNING" /\ OnTime(run[s])
      /\ Len(Jobs(s)) \in 2..4 /\ Jobs(s) = Groups[run[s].group]
  BY <1>1, <1>2, OpenRun
<1> PICK x : x = run[s]
  OBVIOUS
<1>4. x \in RunRow /\ x.attempted \in 0..3 /\ RunOK(x) /\ x.phase = "racing"
  BY <1>3, RacedIsOne
<1>5. PICK n \in 0..4 : n = x.attempted + 1
  BY <1>4
<1>6. PICK went \in BOOLEAN : run' = [run EXCEPT
        ![s].phase = "between", ![s].since = 0, ![s].attempted = n, ![s].allSucceeded = went]
  BY <1>5 DEF Record
<1>7. PICK e : e = [x EXCEPT !.phase = "between", !.since = 0, !.attempted = n, !.allSucceeded = went]
  OBVIOUS
<1>8. /\ e \in RunRow /\ e.phase = "between" /\ e.since = 0 /\ e.group = x.group /\ e.by = x.by
      /\ e.attempted = n /\ e.log = x.log
  BY <1>4, <1>7 DEF RunRow
<1>9. run' = [run EXCEPT ![s] = e]
  BY <1>1, <1>3, <1>6, <1>7 DEF RunsOK
<1>10. RunOK(e) /\ (ToEnter(x) => e # NoRun /\ ToEnter(e))
  BY <1>1, <1>4, <1>5, <1>8, AttemptedRow
<1> QED
  BY <1>2, <1>9, <1>10, RunPreserves

LEMMA FinishPreserves ==
    ASSUME NightInv, NEW s \in Slots, FinishJob(s) \/ TimeoutJob(s)
    PROVE  NightInv'
<1>1. NightTyped /\ Month(DateIST) \in Nat
  BY Clock, Calendar DEF NightInv
<1>2. MonthToApprove + 1 \in 0..Month(DateIST)
  BY <1>1 DEF MonthToApprove
<1>3. NightTyped'
  <2>1. /\ approved' \subseteq approved \cup {MonthToApprove}
        /\ background' \subseteq background \cup {MonthToApprove}
        /\ UNCHANGED <<day, tick, due, up, entered, missed, accrued, paid, manual, faults>>
    BY DEF FinishJob, TimeoutJob, history
  <2> QED
    BY <1>1, <1>2, <2>1 DEF NightTyped, DateIST
<1>4. run[s].phase = "racing" /\ \E outcome : Record(s, outcome)
  BY DEF FinishJob, TimeoutJob, TimerOff
<1> QED
  BY <1>3, <1>4, RecordPreserves DEF FinishJob, TimeoutJob, history

LEMMA CloseLogPreserves ==
    ASSUME NightInv, NEW s \in Slots, CloseLog(s)
    PROVE  NightInv'
<1>1. NightTyped /\ RunsOK
  BY DEF NightInv
<1>2. Open(s)
  BY DEF CloseLog, GroupDone, Open
<1>3. /\ RunOK(run[s]) /\ run[s] \in RunRow /\ Jobs(s) = Groups[run[s].group]
  BY <1>1, <1>2, OpenRun
<1> PICK status \in {"SUCCESS", "FAILED", "RUNNING"} :
        run' = [run EXCEPT ![s].phase = "closed", ![s].log = status]
  BY DEF CloseLog
<1> PICK x : x = run[s]
  OBVIOUS
<1> PICK e : e = [x EXCEPT !.phase = "closed", !.log = status]
  OBVIOUS
<1>4. /\ e \in RunRow /\ e.phase = "closed" /\ e.group = x.group /\ e.attempted = x.attempted
      /\ e.since = x.since /\ e.log = status
  BY <1>3 DEF RunRow
<1>5. run' = [run EXCEPT ![s] = e]
  BY <1>1 DEF RunsOK
<1>6. RunOK(e)
  BY <1>3, <1>4 DEF RunOK, IsOpen, CloseLog, GroupDone
<1>7. ~ToEnter(x)
  <2>1. x.attempted = Len(Groups[x.group]) /\ x.phase = "between"
    BY <1>3 DEF CloseLog, GroupDone
  <2> QED
    BY <2>1, GroupFacts DEF ToEnter
<1>8. NightTyped' /\ UNCHANGED <<day, tick, due, entered, missed>>
  BY <1>1 DEF CloseLog, history, NightTyped, DateIST
<1> QED
  BY <1>2, <1>5, <1>6, <1>7, <1>8, RunPreserves

\* What leaves the runs and the clock alone, and is not the midnight cron.
LEMMA AsidePreserves ==
    ASSUME NightInv, NightTyped', UNCHANGED <<day, tick, run>>, due' \subseteq due,
           "DailyMidnight" \in due => "DailyMidnight" \in due',
           entered' = entered, missed \subseteq missed'
    PROVE  NightInv'
<1>1. RunsOK'
  BY SameRuns DEF NightInv
<1>2. DueNow'
  BY DEF NightInv, DueNow
<1>3. EntryInv'
  BY EntryKept DEF NightInv
<1> QED
  BY <1>1, <1>2, <1>3 DEF NightInv

LEMMA LateEndPreserves ==
    ASSUME NightInv, NEW m \in background, LateEnd(m)
    PROVE  NightInv'
<1>1. NightTyped'
  BY DEF NightInv, LateEnd, NightTyped, DateIST
<1> QED
  BY <1>1, AsidePreserves DEF LateEnd

LEMMA MonthlyPreserves ==
    ASSUME NightInv, FireAccrual \/ FirePayroll
    PROVE  NightInv'
<1>1. NightTyped /\ Month(DateIST) \in Nat /\ DateIST \in Nat /\ UNCHANGED <<day, tick, run, entered, up, background, approved, manual>>
  BY Clock, Calendar DEF NightInv, FireAccrual, FirePayroll
<1>2. {x[2] : x \in missed'} \subseteq Nat /\ missed \subseteq missed'
  <2>1. missed' = missed \/ \E c : missed' = missed \cup {<<c, DateIST>>}
    BY DEF FireAccrual, FirePayroll, Lose
  <2> QED
    BY <1>1, <2>1, MissedMore DEF NightTyped
<1>3. accrued' \subseteq accrued \cup {Month(DateIST)} /\ paid' \subseteq paid \cup {Month(DateIST) - 1}
  BY DEF FireAccrual, FirePayroll
<1>4. faults' \in 0..MaxFaults /\ due' \subseteq due
  BY <1>1, NightBounds DEF FireAccrual, FirePayroll, Lose, NightTyped
<1>5. NightTyped'
  BY <1>1, <1>2, <1>3, <1>4 DEF NightTyped, DateIST
<1> QED
  BY <1>1, <1>2, <1>4, <1>5, AsidePreserves DEF FireAccrual, FirePayroll

LEMMA RestartPreserves ==
    ASSUME NightInv, Restart \/ UNCHANGED vars
    PROVE  NightInv'
<1>1. NightTyped'
  BY DEF NightInv, Restart, vars, history, NightTyped, DateIST
<1> QED
  BY <1>1, AsidePreserves DEF Restart, vars, history

\* A run that dies with the server is closed; the entry it had to start is
\* missed with it.
LEMMA CrashPreserves ==
    ASSUME NightInv, Crash
    PROVE  NightInv'
<1>1. NightTyped /\ RunsOK /\ DueNow /\ EntryInv /\ DateIST \in Nat
  BY Clock DEF NightInv
<1>2. /\ UNCHANGED <<day, tick, entered, approved, accrued, paid, manual>>
      /\ due' = {} /\ background' = {}
  BY DEF Crash
<1>3. PICK A : A = {<<c, DateIST>> : c \in due}
  OBVIOUS
<1>4. PICK B : B = {<<run[s].group, DateIST>> : s \in {s \in Slots : Open(s)}}
  OBVIOUS
<1>5. missed' = missed \cup (A \cup B)
  BY <1>3, <1>4 DEF Crash
<1>6. NightTyped'
  <2>1. \A x \in A \cup B : x[2] \in Nat
    BY <1>1, <1>3, <1>4
  <2>2. {x[2] : x \in missed'} \subseteq Nat
    BY <1>1, <1>5, <2>1, MissedMore
  <2>3. faults \in Nat /\ faults' = faults + 1 /\ faults < MaxFaults /\ up' = FALSE
    <3>1. faults \in 0..MaxFaults
      BY <1>1 DEF NightTyped
    <3> QED
      BY <3>1, NightBounds DEF Crash
  <2> QED
    <3>1. faults' \in 0..MaxFaults
      BY <2>3, NightBounds
    <3>2. up' \in BOOLEAN
      BY <2>3, Zenon
    <3>3. (entered \cup {x[2] : x \in missed})' \subseteq Nat
      BY <1>1, <1>2, <2>2 DEF NightTyped
    <3>4. \A m \in (approved \cup paid \cup background)' : m + 1 \in (0..Month(DateIST))'
      BY <1>1, <1>2 DEF NightTyped, DateIST
    <3> QED
      BY <1>1, <1>2, <3>1, <3>2, <3>3, <3>4 DEF NightTyped, DateIST
<1>7. RunsOK'
  <2>1. ASSUME NEW s \in Slots
        PROVE  run'[s] \in RunRow \cup {NoRun} /\ (run'[s] = NoRun \/ RunOK(run[s])')
    <3>1. CASE ~Open(s)
      <4>1. run'[s] = run[s]
        BY <3>1 DEF Crash
      <4> QED
        BY <1>1, <1>2, <4>1 DEF RunsOK, RunOK, OnTime, Owed, Now, IsOpen
    <3>2. CASE Open(s)
      <4>1. RunOK(run[s]) /\ run[s] \in RunRow
        BY <1>1, <3>2, OpenRun
      <4>2. PICK x : x = run[s]
        OBVIOUS
      <4>3. PICK e : e = [x EXCEPT !.phase = "closed"]
        OBVIOUS
      <4>4. e \in RunRow /\ e.phase = "closed" /\ e.group = x.group /\ e.attempted = x.attempted
            /\ e.since = x.since /\ e.log = x.log
        BY <4>1, <4>2, <4>3 DEF RunRow
      <4>5. run'[s] = e
        BY <3>2, <4>2, <4>3 DEF Crash
      <4>6. RunOK(e)
        BY <4>1, <4>2, <4>4 DEF RunOK, IsOpen
      <4>7. RunOK(run[s])'
        BY <1>2, <4>4, <4>5, <4>6 DEF RunOK, IsOpen, Now
      <4> QED
        BY <4>4, <4>5, <4>7
    <3> QED
      BY <3>1, <3>2
  <2>2. run' \in [Slots -> RunRow \cup {NoRun}]
    <3>1. run' = [s \in Slots |-> run'[s]]
      BY DEF Crash
    <3> QED
      BY <2>1, <3>1
  <2> QED
    BY <2>1, <2>2 DEF RunsOK
<1>8. DueNow'
  BY <1>2 DEF DueNow
<1>9. EntryInv'
  <2>1. ASSUME "DailyMidnight" \in due PROVE Handled(day + 1)'
    <3>1. tick = 1 /\ DateIST = day + 1
      BY <1>1, <2>1, DueAt, GroupFacts, Clock
    <3> QED
      BY <1>2, <1>3, <1>5, <2>1, <3>1 DEF Handled
  <2>2. ASSUME NEW s \in Slots, run[s] # NoRun, ToEnter(run[s]) PROVE Handled(day + 1)'
    <3>1. Open(s) /\ run[s].group = "DailyMidnight"
      BY <2>2 DEF ToEnter, Open
    <3>2. tick >= 1 /\ DateIST = day + 1
      BY <1>1, <2>2, <3>1, OpenRun, Clock DEF OnTime, ToEnter
    <3> QED
      BY <1>2, <1>4, <1>5, <3>1, <3>2 DEF Handled
  <2> QED
    BY <1>1, <1>2, <1>5, <2>1, <2>2, EntryKept
<1> QED
  BY <1>6, <1>7, <1>8, <1>9 DEF NightInv

-----------------------------------------------------------------------------
(* The clock.                                                              *)

\* When the clock may move, an open run waits for a timer set in this tick, and
\* has attempted a job for every tick since it began.
LEMMA SettledRun ==
    ASSUME NightInv, Settled, NEW s \in Slots, Open(s)
    PROVE  /\ run[s] \in RunRow /\ RunOK(run[s]) /\ run[s].phase = "racing"
           /\ run[s].since = Now /\ run[s].attempted \in 0..3
           /\ run[s].by = "schedule" => tick >= 1 /\ tick - 1 <= run[s].attempted
           /\ run[s].by = "trigger"  => Now <= LastDay * 15 + 14 + run[s].attempted
<1>1. NightTyped /\ RunsOK
  BY DEF NightInv
<1>2. RunOK(run[s]) /\ run[s] \in RunRow /\ OnTime(run[s])
  BY <1>1, OpenRun
<1>3. run[s].phase = "racing" /\ ~(Now > run[s].since)
  BY DEF Settled, TimerOff
<1>4. Now \in Nat /\ LastTick = 14 /\ LastDay \in Nat /\ tick \in 0..14
  BY <1>1, Clock, NightBounds
<1>5. run[s].since = Now
  <2>1. run[s].since \in Nat /\ run[s].since <= Now
    BY <1>2 DEF RunOK, RunRow
  <2> QED
    BY <1>3, <1>4, <2>1
<1>6. run[s].attempted \in 0..3
  BY <1>2, <1>3, RacedIsOne
<1>7. Owed(run[s]) = 0
  BY <1>4, <1>5 DEF Owed
<1>8. run[s].by = "schedule" => tick >= 1 /\ tick - 1 <= run[s].attempted + 0
  BY <1>2, <1>7 DEF OnTime
<1>9. run[s].by = "trigger" => Now <= LastDay * (LastTick + 1) + LastTick + run[s].attempted + 0
  BY <1>2, <1>7 DEF OnTime
<1> QED
  BY <1>2, <1>3, <1>4, <1>5, <1>6, <1>8, <1>9

\* The timers of a group add up to fewer ticks than are left of the day.
LEMMA DayEnds ==
    ASSUME NightInv, Settled, tick = LastTick, NEW s \in Slots, Open(s)
    PROVE  run[s].by = "trigger" /\ day <= LastDay
<1>1. NightTyped
  BY DEF NightInv
<1>2. Now = day * 15 + 14 /\ day \in Nat /\ tick = 14 /\ LastDay \in Nat
  BY <1>1, Clock, NightBounds
<1>3. run[s].by \in {"schedule", "trigger"} /\ run[s].attempted \in 0..3
  BY SettledRun DEF RunRow
<1>4. run[s].by # "schedule"
  BY <1>2, <1>3, SettledRun
<1>5. Now <= LastDay * 15 + 14 + run[s].attempted
  BY <1>3, <1>4, SettledRun
<1> QED
  BY <1>2, <1>3, <1>4, <1>5

LEMMA TickClock ==
    ASSUME NightInv, Tick
    PROVE  /\ day' \in FirstDay..(LastDay + 1) /\ tick' \in 0..LastTick
           /\ Now' = Now + 1
           /\ DateIST' \in Nat /\ Month(DateIST) <= Month(DateIST')
           /\ \/ tick = LastTick /\ day' = day + 1 /\ tick' = 0
              \/ tick < LastTick /\ day' = day /\ tick' = tick + 1
<1>1. NightTyped /\ day \in Nat /\ tick \in 0..14 /\ Now = day * 15 + tick /\ LastTick = 14
      /\ LastDay \in Nat /\ FirstDay \in Nat /\ day \in FirstDay..(LastDay + 1) /\ DateIST \in Nat
  BY Clock, NightBounds DEF NightInv, NightTyped
<1>2. \/ tick = LastTick /\ day' = day + 1 /\ tick' = 0
      \/ tick < LastTick /\ day' = day /\ tick' = tick + 1
  BY <1>1 DEF Tick
<1>3. Now' = Now + 1
  BY <1>1, <1>2 DEF Now, LastTick
<1>4. day' \in FirstDay..(LastDay + 1) /\ tick' \in 0..LastTick
  <2>1. CASE tick < LastTick
    BY <1>1, <1>2, <2>1
  <2>2. CASE tick = LastTick
    <3>1. day <= LastDay
      BY <2>2, DayEnds DEF Tick
    <3> QED
      BY <1>1, <1>2, <2>2, <3>1
  <2> QED
    BY <1>2, <2>1, <2>2
<1>5. DateIST' \in {DateIST, DateIST + 1}
  BY <1>1, <1>2 DEF DateIST
<1>6. Month(DateIST) \in Nat /\ Month(DateIST) <= Month(DateIST + 1)
  BY <1>1, Calendar
<1>7. Month(DateIST)' = Month(DateIST) \/ Month(DateIST)' = Month(DateIST + 1)
  BY <1>5 DEF Month
<1> QED
  BY <1>1, <1>2, <1>3, <1>4, <1>5, <1>6, <1>7

LEMMA TickRuns ==
    ASSUME NightInv, Tick
    PROVE  /\ RunsOK'
           /\ \A s \in Slots : Open(s) => run'[s] = run[s]
<1>1. NightTyped /\ RunsOK /\ Settled
  BY DEF NightInv, Tick
<1>2. /\ Now \in Nat /\ Now' = Now + 1 /\ tick \in 0..14 /\ LastTick = 14 /\ LastDay \in Nat
      /\ tick' = tick + 1 \/ tick = LastTick
  BY <1>1, TickClock, Clock, NightBounds
<1>3. ASSUME NEW s \in Slots
      PROVE  /\ run'[s] = run[s] \/ run'[s] = NoRun
             /\ Open(s) => run'[s] = run[s]
  BY <1>3 DEF Tick
<1>4. ASSUME NEW s \in Slots, Open(s) PROVE RunOK(run[s])'
  <2>1. /\ run[s] \in RunRow /\ RunOK(run[s]) /\ run[s].phase = "racing"
        /\ run[s].since = Now /\ run[s].attempted \in 0..3
        /\ run[s].by = "schedule" => tick >= 1 /\ tick - 1 <= run[s].attempted
        /\ run[s].by = "trigger"  => Now <= LastDay * 15 + 14 + run[s].attempted
    BY <1>1, <1>4, SettledRun
  <2>2. run[s].by = "schedule" => tick' = tick + 1
    BY <1>1, <1>2, <1>4, DayEnds
  <2>3. run'[s] = run[s]
    BY <1>3, <1>4
  <2>4. Owed(run[s])' = 1
    BY <1>2, <2>1, <2>3 DEF Owed
  <2>5. run[s].attempted < Len(Groups[run[s].group])
    BY <2>1 DEF RunOK, OnTime, IsOpen
  <2>6. OnTime(run[s])'
    <3>1. run[s].by = "schedule" => tick' >= 1 /\ tick' - 1 <= run[s].attempted + 1
      BY <1>2, <2>1, <2>2
    <3>2. run[s].by = "trigger" => Now' <= LastDay * (LastTick + 1) + LastTick + (run[s].attempted + 1)
      BY <1>2, <2>1
    <3>3. Now' - 1 <= run[s].since
      BY <1>2, <2>1
    <3> QED
      BY <1>2, <2>1, <2>3, <2>4, <2>5, <3>1, <3>2, <3>3 DEF OnTime, LastTick
  <2>7. run[s].since <= Now'
    BY <1>2, <2>1
  <2> QED
    BY <2>1, <2>3, <2>6, <2>7 DEF RunOK
<1>5. ASSUME NEW s \in Slots, ~Open(s), run'[s] # NoRun PROVE RunOK(run[s])'
  <2>1. run'[s] = run[s] /\ RunOK(run[s]) /\ ~IsOpen(run[s])
    BY <1>1, <1>3, <1>5 DEF RunsOK, IsOpen, Open
  <2>2. run[s] \in RunRow /\ run[s].since <= Now
    BY <2>1 DEF RunOK
  <2>3. run[s].since <= Now'
    BY <1>2, <2>2 DEF RunRow
  <2> QED
    BY <2>1, <2>3 DEF RunOK, IsOpen
<1>6. run' \in [Slots -> RunRow \cup {NoRun}]
  <2>1. run' = [s \in Slots |-> run'[s]]
    BY <1>1 DEF Tick, RunsOK
  <2> QED
    BY <1>1, <1>3, <2>1 DEF RunsOK
<1> QED
  BY <1>3, <1>4, <1>5, <1>6 DEF RunsOK

LEMMA TickPreserves ==
    ASSUME NightInv, Tick
    PROVE  NightInv'
<1>1. NightTyped /\ EntryInv /\ Settled /\ due = {}
  BY DEF NightInv, Tick, Settled
<1>2. /\ day' \in FirstDay..(LastDay + 1) /\ tick' \in 0..LastTick
      /\ DateIST' \in Nat /\ Month(DateIST) <= Month(DateIST')
      /\ \/ tick = LastTick /\ day' = day + 1 /\ tick' = 0
         \/ tick < LastTick /\ day' = day /\ tick' = tick + 1
  BY TickClock
<1>3. /\ day \in Nat /\ day' \in Nat /\ tick \in 0..14 /\ LastTick = 14
      /\ FirstDay \in Nat /\ Month(DateIST) \in Nat /\ Month(DateIST') \in Nat
  BY <1>1, <1>2, Clock, Calendar, NightBounds
<1>4. /\ UNCHANGED <<background, up, entered, approved, accrued, paid, manual, faults>>
      /\ \/ up /\ due' = Scheduled(day', tick') /\ missed' = missed
         \/ ~up /\ due' = {} /\ missed' = missed \cup {<<c, DateIST'>> : c \in Scheduled(day', tick')}
  BY DEF Tick
<1>5. NightTyped'
  <2>1. due' \subseteq Crons
    BY <1>4 DEF Scheduled
  <2>2. {x[2] : x \in missed'} \subseteq Nat
    BY <1>1, <1>2, <1>4 DEF NightTyped
  <2>3. \A m \in (approved \cup paid \cup background)' : m + 1 \in 0..Month(DateIST')
    <3>1. \A m \in approved \cup paid \cup background : m + 1 \in 0..Month(DateIST)
      BY <1>1 DEF NightTyped
    <3> QED
      BY <1>2, <1>3, <1>4, <3>1
  <2>4. accrued' \subseteq 0..Month(DateIST')
    BY <1>1, <1>2, <1>3, <1>4 DEF NightTyped
  <2>5. entered' \subseteq Nat /\ up' \in BOOLEAN /\ manual' \in 0..MaxManual /\ faults' \in 0..MaxFaults
    BY <1>1, <1>4 DEF NightTyped
  <2>6. (Month(DateIST))' = Month(DateIST')
    BY DEF Month
  <2> QED
    BY <1>2, <2>1, <2>2, <2>3, <2>4, <2>5, <2>6 DEF NightTyped
<1>6. RunsOK' /\ \A s \in Slots : Open(s) => run'[s] = run[s]
  BY TickRuns
<1>7. DueNow'
  BY <1>4 DEF DueNow, Scheduled, DayOfMonth, Month
<1>8. \A d : Handled(d) => Handled(d)'
  BY <1>4 DEF Handled
<1>9. ASSUME NEW s \in Slots, run[s] # NoRun, ToEnter(run[s])
      PROVE  run'[s] = run[s] /\ tick # LastTick
  <2>1. Open(s) /\ run[s].by = "schedule"
    BY <1>9 DEF ToEnter, Open
  <2> QED
    BY <1>1, <1>6, <2>1, DayEnds
<1>10. PastEntered'
  <2>1. tick = LastTick => Handled(day + 1)
    BY <1>1, <1>3, <1>9 DEF EntryInv
  <2>2. \A d \in (FirstDay + 1)..day : Handled(d)
    BY <1>1 DEF EntryInv, PastEntered, Handled
  <2>3. \A d \in (FirstDay + 1)..day' : Handled(d)
    BY <1>2, <1>3, <2>1, <2>2
  <2> QED
    BY <1>8, <2>3 DEF PastEntered, Handled
<1>11. ASSUME tick' >= 1
       PROVE  \/ "DailyMidnight" \in due'
              \/ Handled(day + 1)'
              \/ \E s \in Slots : run'[s] # NoRun /\ ToEnter(run'[s])
  <2>1. day' = day /\ tick' = tick + 1
    BY <1>2, <1>11
  <2>2. CASE tick = 0
    <3>1. "DailyMidnight" \in Scheduled(day', tick') /\ DateIST' = day + 1
      BY <1>3, <2>1, <2>2, GroupFacts DEF Scheduled, Crons, DateIST
    <3> QED
      BY <1>4, <2>1, <3>1 DEF Handled
  <2>3. CASE tick # 0
    BY <1>1, <1>3, <1>8, <1>9, <2>1, <2>3 DEF EntryInv
  <2> QED
    BY <2>2, <2>3
<1> QED
  BY <1>5, <1>6, <1>7, <1>10, <1>11 DEF NightInv, EntryInv

-----------------------------------------------------------------------------
(* The theorems.                                                           *)

LEMMA NightInitHolds == Init => NightInv
<1> SUFFICES ASSUME Init PROVE NightInv
  OBVIOUS
<1>1. NightTyped
  <2>1. day \in Nat /\ DateIST \in Nat /\ Month(DateIST) \in Nat
    BY NightBounds, Calendar DEF Init, DateIST
  <2> QED
    BY <2>1, NightBounds DEF Init, NightTyped, LastTick
<1>2. RunsOK
  BY DEF Init, RunsOK
<1>3. DueNow /\ EntryInv
  BY NightBounds DEF Init, DueNow, EntryInv, PastEntered
<1> QED
  BY <1>1, <1>2, <1>3 DEF NightInv

LEMMA NightStepHolds == NightInv /\ [Next]_vars => NightInv'
<1> SUFFICES ASSUME NightInv, [Next]_vars PROVE NightInv'
  OBVIOUS
<1>1. CASE Tick
  BY <1>1, TickPreserves
<1>2. ASSUME NEW g \in DOMAIN Groups, FireGroup(g) \/ TriggerGroup(g) PROVE NightInv'
  BY <1>2, FireGroupPreserves, TriggerGroupPreserves
<1>3. ASSUME NEW s \in Slots, Advance(s) PROVE NightInv'
  BY <1>3, StartJobPreserves, FinishPreserves, CloseLogPreserves DEF Advance
<1>4. ASSUME NEW m \in background, LateEnd(m) PROVE NightInv'
  BY <1>4, LateEndPreserves
<1>5. CASE FireAccrual \/ FirePayroll
  BY <1>5, MonthlyPreserves
<1>6. CASE Crash
  BY <1>6, CrashPreserves
<1>7. CASE Restart \/ UNCHANGED vars
  BY <1>7, RestartPreserves
<1> QED
  BY <1>1, <1>2, <1>3, <1>4, <1>5, <1>6, <1>7 DEF Next

LEMMA NightInductive == Spec => []NightInv
BY NightInitHolds, NightStepHolds, PTL DEF Spec

\* What the variables hold.
THEOREM NightTypeCorrect == Spec => []TypeOK
<1>1. NightInv => TypeOK
  BY TypeFromRuns DEF NightInv
<1> QED
  BY <1>1, NightInductive, PTL

\* The runs that the schedules began at midnight are over when the accrual fires.
THEOREM MidnightIsOver == Spec => []OverBeforeAccrual
<1>1. NightInv => OverBeforeAccrual
  <2> SUFFICES ASSUME NightInv, "MonthlyLeaveAccrual" \in due, NEW s \in Slots, Open(s),
                      run[s].by # "trigger"
               PROVE  FALSE
    BY DEF OverBeforeAccrual
  <2>1. NightTyped /\ RunsOK /\ tick = 7
    BY DueAt DEF NightInv
  <2>2. RunOK(run[s]) /\ run[s] \in RunRow /\ OnTime(run[s]) /\ run[s].by = "schedule"
    BY <2>1, OpenRun DEF RunRow
  <2>3. run[s].attempted \in 0..4 /\ 6 <= run[s].attempted + Owed(run[s])
    BY <2>1, <2>2 DEF OnTime, RunRow
  <2>4. Owed(run[s]) \in {0, 1}
    BY DEF Owed
  <2> QED
    BY <2>3, <2>4
<1> QED
  BY <1>1, NightInductive, PTL

\* No India date goes without its attendance entry for longer than 20 minutes,
\* but those at whose midnight the server was down or the insert of the log failed:
\* a scheduled run that has still to start it has paid for every tick but one with
\* a job, and there are three before it.
THEOREM DatesAreEntered == Spec => []EveryDateEntered
<1>1. NightInv => EveryDateEntered
  <2> SUFFICES ASSUME NightInv PROVE EveryDateEntered
    OBVIOUS
  <2>1. NightTyped /\ RunsOK /\ DueNow /\ EntryInv
    BY DEF NightInv
  <2>2. day \in Nat /\ tick \in 0..14 /\ FirstDay \in Nat
    BY <2>1, Clock, NightBounds
  <2>3. ASSUME tick >= 5, NEW s \in Slots, run[s] # NoRun, ToEnter(run[s]) PROVE FALSE
    <3>1. Open(s) /\ run[s].by = "schedule"
      BY <2>3 DEF ToEnter, Open
    <3>2. run[s] \in RunRow /\ OnTime(run[s])
      BY <2>1, <3>1, OpenRun
    <3>3. run[s].attempted \in 0..4 /\ tick - 1 <= run[s].attempted + Owed(run[s])
      BY <3>1, <3>2 DEF OnTime, RunRow
    <3>4. run[s].attempted + Owed(run[s]) <= 3
      BY <2>3, <3>3 DEF ToEnter, Owed
    <3> QED
      BY <2>2, <2>3, <3>3, <3>4 DEF Owed
  <2>4. tick >= 5 => Handled(day + 1)
    <3>1. tick >= 5 => "DailyMidnight" \notin due
      BY <2>1, <2>2, DueAt, GroupFacts
    <3> QED
      BY <2>1, <2>2, <2>3, <3>1 DEF EntryInv
  <2>5. \A d \in (FirstDay + 1)..day : Handled(d)
    BY <2>1 DEF EntryInv, PastEntered
  <2>6. \A d \in (FirstDay + 1)..(IF tick >= 5 THEN day + 1 ELSE day) : Handled(d)
    BY <2>2, <2>4, <2>5
  <2> QED
    BY <2>6 DEF EveryDateEntered, Handled
<1> QED
  BY <1>1, NightInductive, PTL

-----------------------------------------------------------------------------
(* Accrual and payroll.                                                    *)

AccruedOrMissed(m) ==
    m \in accrued \/ \E x \in missed : x[1] = "MonthlyLeaveAccrual" /\ Month(x[2]) = m

\* Every 1st that is over has had its accrual, and so has today's from 19:00 on.
AccrualInv ==
    /\ \A d \in FirstDay..(day - 1) : DayOfMonth(d) = 1 => AccruedOrMissed(Month(d))
    /\ DayOfMonth(day) = 1 /\ tick >= 7 => \/ AccruedOrMissed(Month(day))
                                          \/ "MonthlyLeaveAccrual" \in due
    /\ \A m \in paid : AccruedOrMissed(m + 1)

LEMMA AccrualKept ==
    ASSUME AccrualInv, UNCHANGED <<day, tick>>, accrued \subseteq accrued', missed \subseteq missed',
           "MonthlyLeaveAccrual" \in due => \/ "MonthlyLeaveAccrual" \in due'
                                           \/ AccruedOrMissed(Month(day))',
           \A m \in paid' : m \in paid \/ AccruedOrMissed(m + 1)
    PROVE  AccrualInv'
<1>1. \A m : AccruedOrMissed(m) => AccruedOrMissed(m)'
  BY DEF AccruedOrMissed, Month
<1>2. \A d : Month(d)' = Month(d) /\ DayOfMonth(d)' = DayOfMonth(d)
  BY DEF Month, DayOfMonth
<1>3. \A d \in FirstDay..(day' - 1) : DayOfMonth(d) = 1 => AccruedOrMissed(Month(d))'
  BY <1>1 DEF AccrualInv
<1>4. DayOfMonth(day') = 1 /\ tick' >= 7 => \/ AccruedOrMissed(Month(day))'
                                           \/ "MonthlyLeaveAccrual" \in due'
  BY <1>1 DEF AccrualInv
<1>5. \A m \in paid' : AccruedOrMissed(m + 1)'
  BY <1>1 DEF AccrualInv
<1> QED
  BY <1>2, <1>3, <1>4, <1>5 DEF AccrualInv

\* At 19:00 of the 1st the month in India is the one the clock is in.
LEMMA AccrualMonth ==
    ASSUME NightTyped, tick = 7, DayOfMonth(day) = 1
    PROVE  DateIST = day + 1 /\ Month(DateIST) = Month(day)
BY Clock, Calendar

LEMMA FireAccrualKeeps ==
    ASSUME NightInv, AccrualInv, FireAccrual
    PROVE  AccrualInv'
<1>1. tick = 7 /\ DayOfMonth(day) = 1
  BY DueAt DEF NightInv, FireAccrual
<1>2. Month(DateIST) = Month(day)
  BY <1>1, AccrualMonth DEF NightInv
<1>3. AccruedOrMissed(Month(day))'
  <2>1. CASE accrued' = accrued \cup {Month(DateIST)}
    BY <1>2, <2>1 DEF AccruedOrMissed, FireAccrual, Month
  <2>2. CASE Lose("MonthlyLeaveAccrual")
    <3>1. <<"MonthlyLeaveAccrual", DateIST>> \in missed'
      BY <2>2 DEF Lose
    <3>2. day' = day
      BY DEF FireAccrual
    <3> QED
      BY <1>2, <3>1, <3>2 DEF AccruedOrMissed, Month
  <2> QED
    BY <2>1, <2>2 DEF FireAccrual
<1>4. UNCHANGED <<day, tick, paid>> /\ accrued \subseteq accrued' /\ missed \subseteq missed'
  BY DEF FireAccrual, Lose
<1> QED
  BY <1>3, <1>4, AccrualKept

LEMMA FirePayrollKeeps ==
    ASSUME NightInv, AccrualInv, FirePayroll, DayOfMonth(FirstDay) # 2
    PROVE  AccrualInv'
<1>1. NightTyped /\ tick = 13 /\ DayOfMonth(day) = 2
  BY DueAt DEF NightInv, FirePayroll
<1>2. day \in Nat /\ FirstDay \in Nat /\ day \in FirstDay..(LastDay + 1) /\ LastDay \in Nat
      /\ DateIST = day + 1
  BY <1>1, Clock, NightBounds DEF NightTyped
<1>3. /\ DayOfMonth(day - 1) = 1
      /\ Month(day - 1) = Month(day) /\ Month(day + 1) = Month(day) /\ Month(day) \in Nat
  BY <1>1, <1>2, Calendar
<1>4. day - 1 \in FirstDay..(day - 1)
  <2>1. day # FirstDay
    BY <1>1
  <2> QED
    BY <1>2, <2>1
<1>5. AccruedOrMissed(Month(day))
  BY <1>3, <1>4 DEF AccrualInv
<1>6. paid' \subseteq paid \cup {Month(day) - 1} /\ Month(day) - 1 + 1 = Month(day)
  BY <1>2, <1>3 DEF FirePayroll
<1>7. UNCHANGED <<day, tick, accrued>> /\ missed \subseteq missed'
      /\ ("MonthlyLeaveAccrual" \in due => "MonthlyLeaveAccrual" \in due')
  BY DEF FirePayroll, Lose
<1>8. \A m \in paid' : m \in paid \/ AccruedOrMissed(m + 1)
  BY <1>5, <1>6
<1> QED
  BY <1>7, <1>8, AccrualKept

LEMMA CrashKeeps ==
    ASSUME NightInv, AccrualInv, Crash
    PROVE  AccrualInv'
<1>1. UNCHANGED <<day, tick, accrued, paid>> /\ missed \subseteq missed'
  BY DEF Crash
<1>2. ASSUME "MonthlyLeaveAccrual" \in due PROVE AccruedOrMissed(Month(day))'
  <2>1. Month(DateIST) = Month(day)
    BY <1>2, DueAt, AccrualMonth DEF NightInv
  <2>2. <<"MonthlyLeaveAccrual", DateIST>> \in missed'
    BY <1>2 DEF Crash
  <2> QED
    BY <1>1, <2>1, <2>2 DEF AccruedOrMissed, Month
<1> QED
  BY <1>1, <1>2, AccrualKept

LEMMA TickKeeps ==
    ASSUME NightInv, AccrualInv, Tick
    PROVE  AccrualInv'
<1>1. NightTyped /\ Settled /\ due = {}
  BY DEF NightInv, Tick, Settled
<1>2. /\ \/ tick = LastTick /\ day' = day + 1 /\ tick' = 0
         \/ tick < LastTick /\ day' = day /\ tick' = tick + 1
      /\ day \in Nat /\ tick \in 0..14 /\ LastTick = 14 /\ FirstDay \in Nat
  BY <1>1, TickClock, Clock, NightBounds
<1>3. /\ UNCHANGED <<accrued, paid>> /\ missed \subseteq missed'
      /\ \/ due' = Scheduled(day', tick')
         \/ missed' = missed \cup {<<c, DateIST'>> : c \in Scheduled(day', tick')}
  BY DEF Tick
<1>4. \A m : AccruedOrMissed(m) => AccruedOrMissed(m)'
  BY <1>3 DEF AccruedOrMissed, Month
<1>5. DayOfMonth(day) = 1 /\ tick >= 7 => AccruedOrMissed(Month(day))
  BY <1>1 DEF AccrualInv
<1>6. \A d \in FirstDay..(day' - 1) : DayOfMonth(d) = 1 => AccruedOrMissed(Month(d))'
  <2>1. \A d \in FirstDay..(day - 1) : DayOfMonth(d) = 1 => AccruedOrMissed(Month(d))
    BY DEF AccrualInv
  <2>2. tick = LastTick => (DayOfMonth(day) = 1 => AccruedOrMissed(Month(day)))
    BY <1>2, <1>5
  <2>3. \A d \in FirstDay..(day' - 1) : d \in FirstDay..(day - 1) \/ (tick = LastTick /\ d = day)
    BY <1>2
  <2> QED
    BY <1>4, <2>1, <2>2, <2>3
<1>7. ASSUME DayOfMonth(day') = 1, tick' >= 7
      PROVE  AccruedOrMissed(Month(day))' \/ "MonthlyLeaveAccrual" \in due'
  <2>1. day' = day /\ tick' = tick + 1
    BY <1>2, <1>7
  <2>2. CASE tick' = 7
    <3>1. "MonthlyLeaveAccrual" \in Scheduled(day', tick')
      BY <1>7, <2>2 DEF Scheduled, Crons
    <3>2. DateIST' = day' + 1 /\ Month(day' + 1) = Month(day')
      BY <1>2, <1>7, <2>1, <2>2, Calendar DEF DateIST
    <3>3. CASE missed' = missed \cup {<<c, DateIST'>> : c \in Scheduled(day', tick')}
      <4>1. <<"MonthlyLeaveAccrual", DateIST'>> \in missed'
        BY <3>1, <3>3
      <4> QED
        BY <3>2, <4>1 DEF AccruedOrMissed, Month
    <3> QED
      BY <1>3, <3>1, <3>3
  <2>3. CASE tick' # 7
    <3>1. tick >= 7 /\ DayOfMonth(day) = 1
      BY <1>2, <1>7, <2>1, <2>3
    <3> QED
      BY <1>4, <1>5, <2>1, <3>1
  <2> QED
    BY <2>2, <2>3
<1>8. \A m \in paid' : AccruedOrMissed(m + 1)'
  BY <1>3, <1>4 DEF AccrualInv
<1>9. \A d : Month(d)' = Month(d') /\ DayOfMonth(d)' = DayOfMonth(d')
  BY DEF Month, DayOfMonth
<1> QED
  BY <1>6, <1>7, <1>8, <1>9 DEF AccrualInv

LEMMA AccrualStep ==
    ASSUME NightInv, AccrualInv, [Next]_vars, DayOfMonth(FirstDay) # 2
    PROVE  AccrualInv'
<1>1. CASE Tick
  BY <1>1, TickKeeps
<1>2. ASSUME NEW g \in DOMAIN Groups, FireGroup(g) \/ TriggerGroup(g) PROVE AccrualInv'
  <2>1. /\ UNCHANGED <<day, tick, accrued, paid>> /\ missed \subseteq missed'
        /\ due' = due \/ due' = due \ {g}
    BY <1>2 DEF FireGroup, TriggerGroup, Lose, history
  <2>2. g # "MonthlyLeaveAccrual"
    BY GroupFacts
  <2> QED
    BY <2>1, <2>2, AccrualKept
<1>3. ASSUME NEW s \in Slots, Advance(s) PROVE AccrualInv'
  <2>1. UNCHANGED <<day, tick, due, missed, accrued, paid>>
    BY <1>3 DEF Advance, StartJob, FinishJob, TimeoutJob, CloseLog, history
  <2> QED
    BY <2>1, AccrualKept
<1>4. ASSUME NEW m \in background, LateEnd(m) PROVE AccrualInv'
  BY <1>4, AccrualKept DEF LateEnd
<1>5. CASE FireAccrual
  BY <1>5, FireAccrualKeeps
<1>6. CASE FirePayroll
  BY <1>6, FirePayrollKeeps
<1>7. CASE Crash
  BY <1>7, CrashKeeps
<1>8. CASE Restart \/ UNCHANGED vars
  BY <1>8, AccrualKept DEF Restart, vars, history
<1> QED
  BY <1>1, <1>2, <1>3, <1>4, <1>5, <1>6, <1>7, <1>8 DEF Next

\* Payroll of a month follows the accrual of the next one, or the loss of it,
\* for a clock that does not start in between: on the 2nd of a month.
THEOREM PayrollAfterAccrual ==
    ASSUME DayOfMonth(FirstDay) # 2
    PROVE  Spec => []AccrualBeforePayroll
<1>1. Init => AccrualInv
  BY NightBounds DEF Init, AccrualInv
<1>2. AccrualInv /\ NightInv /\ [Next]_vars => AccrualInv'
  BY AccrualStep
<1>3. AccrualInv => AccrualBeforePayroll
  BY DEF AccrualInv, AccruedOrMissed, AccrualBeforePayroll
<1> QED
  BY <1>1, <1>2, <1>3, NightInductive, PTL DEF Spec

-----------------------------------------------------------------------------
(* II. The marks of the runs started by hand, for any number of calls and  *)
(* keys.                                                                   *)

\* A run that kept its mark is in the set: what Free relies on.
UncutIsMarked == \A c \in Calls : Run(c) /\ ~call[c].cut => call[c].key \in running

MarksInv == TriggerTypeOK /\ MarksAreLive /\ OneRunKeepsMark /\ UncutIsMarked

\* TriggerTypeOK slot by slot.
LEMMA TypeBySlot == TriggerTypeOK => failures \in 0..MaxFailures /\ \A c \in Calls : Sound(call[c])
BY DEF TriggerTypeOK

LEMMA IdleFields ==
    /\ Idle \in Call /\ Idle.key = NoKey /\ Idle.step = "idle" /\ Idle.cut = FALSE
    /\ Sound(Idle)
<1>1. Idle \in Call /\ Idle.key = NoKey /\ Idle.step = "idle" /\ Idle.cut = FALSE
  BY DEF Idle, At, Call, Steps
<1> QED
  BY <1>1 DEF Sound

\* Cutting a slot keeps it sound; nobody keeps the mark of the key that is cut.
LEMMA CutFields ==
    ASSUME NEW x, Sound(x), NEW k \in Keys
    PROVE  /\ Sound(Cut(x, k))
           /\ Cut(x, k).key = x.key /\ Cut(x, k).step = x.step
           /\ x.key = k /\ x.step \in RunSteps => Cut(x, k).cut
           /\ x.key # k => Cut(x, k) = x
<1>1. CASE x.key = k /\ x.step \in RunSteps
  <2>1. Cut(x, k) = At(k, x.step, TRUE)
    BY <1>1 DEF Cut
  <2>2. x.step \in Steps /\ x.step # "idle" /\ k # NoKey
    BY <1>1, CronTriggerAssumption DEF Sound, Call, RunSteps
  <2>3. Cut(x, k).key = k /\ Cut(x, k).step = x.step /\ Cut(x, k).cut = TRUE
    BY <2>1 DEF At, Call
  <2>4. Cut(x, k) \in Call
    BY <2>1, <2>2 DEF At, Call
  <2>5. Sound(Cut(x, k))
    BY <1>1, <2>2, <2>3, <2>4 DEF Sound
  <2> QED
    BY <1>1, <2>3, <2>5
<1>2. CASE ~(x.key = k /\ x.step \in RunSteps)
  BY <1>2 DEF Cut
<1> QED
  BY <1>1, <1>2

-----------------------------------------------------------------------------
(* The two shapes a step has: a deletion of a key, or one call going on.   *)

\* The finally of a call on k: its slot is idle, or was and stays so.
LEMMA DeletionPreserves ==
    ASSUME MarksInv, NEW k \in Keys, NEW S \in SUBSET Calls,
           \A c \in S : call[c].key = k \/ call[c] = Idle,
           running' = running \ {k},
           call' = [d \in Calls |-> IF d \in S THEN Idle ELSE Cut(call[d], k)],
           failures' \in 0..MaxFailures
    PROVE  MarksInv'
<1>1. \A c \in Calls : Sound(call[c])
  BY TypeBySlot DEF MarksInv
<1>2. Sound(Idle) /\ Idle.step = "idle" /\ Idle.cut = FALSE
  BY IdleFields DEF Sound
<1>3. \A c \in Calls : /\ Sound(call'[c])
                       /\ c \in S => call'[c] = Idle
                       /\ c \notin S => call'[c] = Cut(call[c], k)
  BY <1>1, <1>2, CutFields
<1>4. TriggerTypeOK'
  <2>1. running' \subseteq Keys
    BY DEF MarksInv, TriggerTypeOK
  <2>2. call' \in [Calls -> Call]
    BY <1>3 DEF Sound
  <2> QED
    BY <1>3, <2>1, <2>2 DEF TriggerTypeOK, Sound, Run
<1>5. \A c \in Calls : Run(c)' /\ ~call'[c].cut
                         => /\ Run(c) /\ ~call[c].cut /\ c \notin S
                            /\ call'[c].key = call[c].key /\ call[c].key # k
  <2> SUFFICES ASSUME NEW c \in Calls, Run(c)', ~call'[c].cut
               PROVE  /\ Run(c) /\ ~call[c].cut /\ c \notin S
                      /\ call'[c].key = call[c].key /\ call[c].key # k
    OBVIOUS
  <2>1. c \notin S
    BY <1>2, <1>3 DEF Run, RunSteps
  <2>2. call'[c] = Cut(call[c], k)
    BY <1>3, <2>1
  <2>3. call'[c].key = call[c].key /\ call'[c].step = call[c].step
    BY <1>1, <2>2, CutFields
  <2>4. call[c].key # k
    BY <1>1, <2>2, <2>3, CutFields DEF Run
  <2>5. call'[c] = call[c]
    BY <1>1, <2>2, <2>4, CutFields
  <2> QED
    BY <2>1, <2>3, <2>4, <2>5 DEF Run
<1>6. MarksAreLive'
  <2> SUFFICES ASSUME NEW m \in running'
               PROVE  \E c \in Calls : call'[c].key = m /\ Run(c)' /\ ~call'[c].cut
    BY DEF MarksAreLive
  <2>1. m \in running /\ m # k
    OBVIOUS
  <2>2. PICK c \in Calls : call[c].key = m /\ Run(c) /\ ~call[c].cut
    BY <2>1 DEF MarksInv, MarksAreLive
  <2>3. c \notin S
    <3>1. Idle.step \notin RunSteps
      BY <1>2 DEF RunSteps
    <3> QED
      BY <2>1, <2>2, <3>1 DEF Run
  <2>4. call'[c] = call[c]
    BY <1>1, <1>3, <2>1, <2>2, <2>3, CutFields
  <2> QED
    BY <2>2, <2>4 DEF Run
<1>7. OneRunKeepsMark'
  BY <1>5 DEF MarksInv, OneRunKeepsMark
<1>8. UncutIsMarked'
  BY <1>5 DEF MarksInv, UncutIsMarked
<1> QED
  BY <1>4, <1>6, <1>7, <1>8 DEF MarksInv

\* A marked call goes on to its next await and keeps what it has of its mark.
LEMMA CallAdvances ==
    ASSUME MarksInv, NEW c \in Calls, Run(c), NEW next \in RunSteps,
           call' = [call EXCEPT ![c] = At(@.key, next, @.cut)],
           running' = running, failures' \in 0..MaxFailures
    PROVE  MarksInv'
<1>1. \A d \in Calls : Sound(call[d])
  BY TypeBySlot DEF MarksInv
<1>2. call'[c] = At(call[c].key, next, call[c].cut) /\ \A d \in Calls \ {c} : call'[d] = call[d]
  BY DEF MarksInv, TriggerTypeOK
<1>3. call[c].key \in Keys \cup {NoKey} /\ call[c].key # NoKey /\ call[c].cut \in BOOLEAN
  BY <1>1 DEF Sound, Call, Run, RunSteps
<1>4. next \in Steps /\ next # "idle"
  BY DEF RunSteps, Steps
<1>5. call'[c].key = call[c].key /\ call'[c].cut = call[c].cut /\ call'[c].step = next
  BY <1>2 DEF At, Call
<1>6. call'[c] \in Call
  BY <1>2, <1>3, <1>4 DEF At, Call
<1>7. \A d \in Calls : /\ Sound(call'[d])
                       /\ call'[d].key = call[d].key /\ call'[d].cut = call[d].cut
                       /\ Run(d)' <=> Run(d)
  BY <1>1, <1>2, <1>3, <1>4, <1>5, <1>6 DEF Sound, Run
<1>8. TriggerTypeOK'
  <2>1. call' \in [Calls -> Call]
    BY <1>2, <1>6 DEF MarksInv, TriggerTypeOK
  <2> QED
    BY <1>7, <2>1 DEF MarksInv, TriggerTypeOK, Sound, Run
<1>9. MarksAreLive' /\ OneRunKeepsMark' /\ UncutIsMarked'
  BY <1>7 DEF MarksInv, MarksAreLive, OneRunKeepsMark, UncutIsMarked
<1> QED
  BY <1>8, <1>9 DEF MarksInv

\* A call takes its slot, and its mark unless it has look-ups to wait for.
LEMMA TriggerPreserves ==
    ASSUME MarksInv, NEW c \in Calls, NEW k \in Keys,
           NEW skip \in BOOLEAN, NEW force \in BOOLEAN, Trigger(c, k, skip, force)
    PROVE  MarksInv'
<1>1. \A d \in Calls : Sound(call[d])
  BY TypeBySlot DEF MarksInv
<1>2. PICK s \in {"look", "start"} :
        /\ call' = [call EXCEPT ![c] = At(k, s, FALSE)]
        /\ running' = IF s = "start" THEN running \cup {k} ELSE running
  BY DEF Trigger
<1>3. k \notin running /\ call[c] = Idle /\ failures' = failures
  BY DEF Trigger, Free
<1>4. call'[c] = At(k, s, FALSE) /\ \A d \in Calls \ {c} : call'[d] = call[d]
  BY <1>2 DEF MarksInv, TriggerTypeOK
<1>5. call'[c].key = k /\ call'[c].step = s /\ call'[c].cut = FALSE
  BY <1>4 DEF At, Call
<1>6. call'[c] \in Call /\ k # NoKey
  BY <1>4, CronTriggerAssumption DEF Steps, At, Call
<1>7. Run(c)' <=> s = "start"
  BY <1>5 DEF Run, RunSteps
<1>8. ~Run(c)
  BY <1>3, IdleFields DEF Run, RunSteps
<1>9. TriggerTypeOK'
  <2>1. call' \in [Calls -> Call]
    BY <1>2, <1>6 DEF MarksInv, TriggerTypeOK
  <2>2. running' \subseteq Keys
    BY <1>2 DEF MarksInv, TriggerTypeOK
  <2>3. Sound(call'[c])
    BY <1>2, <1>5, <1>6 DEF Sound
  <2>4. \A d \in Calls : Sound(call'[d])
    BY <1>1, <1>4, <2>3
  <2> QED
    BY <1>3, <2>1, <2>2, <2>4 DEF MarksInv, TriggerTypeOK
<1>10. \A d \in Calls : Run(d)' => d = c \/ (Run(d) /\ call'[d] = call[d])
  BY <1>4 DEF Run
<1>11. MarksAreLive'
  <2> SUFFICES ASSUME NEW m \in running'
               PROVE  \E d \in Calls : call'[d].key = m /\ Run(d)' /\ ~call'[d].cut
    BY DEF MarksAreLive
  <2>1. CASE m \in running
    <3>1. PICK d \in Calls : call[d].key = m /\ Run(d) /\ ~call[d].cut
      BY <2>1 DEF MarksInv, MarksAreLive
    <3> QED
      BY <1>4, <1>8, <3>1 DEF Run
  <2>2. CASE m \notin running
    BY <1>2, <1>5, <1>7, <2>2
  <2> QED
    BY <2>1, <2>2
<1>12. OneRunKeepsMark'
  <2>1. \A d \in Calls : Run(d) /\ ~call[d].cut => call[d].key # k
    BY <1>3 DEF MarksInv, UncutIsMarked
  <2> QED
    BY <1>5, <1>10, <2>1 DEF MarksInv, OneRunKeepsMark
<1>13. UncutIsMarked'
  <2>1. ASSUME Run(c)' PROVE call'[c].key \in running'
    <3>1. s = "start"
      BY <1>7, <2>1
    <3>2. running' = running \cup {k}
      BY <1>2, <3>1
    <3> QED
      BY <1>5, <3>2
  <2>2. \A d \in Calls : Run(d) /\ ~call[d].cut => call[d].key \in running'
    BY <1>2 DEF MarksInv, UncutIsMarked
  <2> QED
    BY <1>10, <2>1, <2>2 DEF UncutIsMarked
<1> QED
  BY <1>9, <1>11, <1>12, <1>13 DEF MarksInv

-----------------------------------------------------------------------------
LEMMA MarksInitHolds == TriggerInit => MarksInv
<1> SUFFICES ASSUME TriggerInit PROVE MarksInv
  OBVIOUS
<1>1. Idle \in Call /\ Idle.key = NoKey /\ Idle.step = "idle" /\ Idle.cut = FALSE
  BY IdleFields
<1>2. \A c \in Calls : call[c] = Idle
  BY DEF TriggerInit
<1>3. \A c \in Calls : ~Run(c)
  BY <1>1, <1>2 DEF Run, RunSteps
<1>4. TriggerTypeOK
  <2>1. call \in [Calls -> Call]
    BY <1>1 DEF TriggerInit
  <2>2. running \subseteq Keys /\ failures \in 0..MaxFailures
    BY CronTriggerAssumption DEF TriggerInit
  <2> QED
    BY <1>2, <2>1, <2>2, IdleFields DEF TriggerTypeOK
<1> QED
  BY <1>3, <1>4 DEF MarksInv, MarksAreLive, OneRunKeepsMark, UncutIsMarked, TriggerInit

\* The finally of c's own call, which is on k.
LEMMA EndPreserves ==
    ASSUME MarksInv, NEW c \in Calls, NEW k \in Keys, call[c].key = k, End(c),
           failures' \in 0..MaxFailures
    PROVE  MarksInv'
<1>1. PICK S \in SUBSET Calls : S = {c}
  OBVIOUS
<1>2. running' = running \ {k}
  BY DEF End
<1>3. call' = [d \in Calls |-> IF d \in S THEN Idle ELSE Cut(call[d], k)]
  BY <1>1 DEF End
<1>4. \A d \in S : call[d].key = k \/ call[d] = Idle
  BY <1>1
<1> QED
  BY <1>2, <1>3, <1>4, DeletionPreserves

LEMMA MarksStepHolds == MarksInv /\ [TriggerNext]_triggerVars => MarksInv'
<1> SUFFICES ASSUME MarksInv, [TriggerNext]_triggerVars PROVE MarksInv'
  OBVIOUS
<1>1. failures \in 0..MaxFailures /\ \A c \in Calls : Sound(call[c])
  BY TypeBySlot DEF MarksInv
<1>2. ASSUME NEW c \in Calls, call[c].step # "idle" PROVE \E k \in Keys : call[c].key = k
  BY <1>1, <1>2 DEF Sound, Call
<1>3. ASSUME failures < MaxFailures, failures' = failures + 1 PROVE failures' \in 0..MaxFailures
  BY <1>1, <1>3, CronTriggerAssumption
<1>4. ASSUME NEW c \in Calls, NEW k \in Keys, Refuse(c, k) PROVE MarksInv'
  <2>1. PICK S \in SUBSET Calls : S = {}
    OBVIOUS
  <2>2. call' = [d \in Calls |-> IF d \in S THEN Idle ELSE Cut(call[d], k)]
    BY <1>4, <2>1 DEF Refuse
  <2>3. running' = running \ {k} /\ failures' \in 0..MaxFailures
    BY <1>1, <1>4 DEF Refuse
  <2>4. \A d \in S : call[d].key = k \/ call[d] = Idle
    BY <2>1
  <2> QED
    BY <2>2, <2>3, <2>4, DeletionPreserves
<1>5. ASSUME NEW c \in Calls, NEW k \in Keys, NEW skip \in BOOLEAN, NEW force \in BOOLEAN,
             Trigger(c, k, skip, force)
      PROVE  MarksInv'
  BY <1>5, TriggerPreserves
<1>6. ASSUME NEW c \in Calls, Proceed(c) PROVE MarksInv'
  <2>1. CASE LookUp(c)
    BY <1>1, <1>2, <2>1, EndPreserves DEF LookUp
  <2>2. CASE StartLog(c)
    BY <1>1, <2>2, CallAdvances DEF StartLog, Run, RunSteps
  <2>3. CASE LoseLog(c)
    BY <1>2, <1>3, <2>3, EndPreserves DEF LoseLog
  <2>4. CASE Execute(c)
    <3>1. PICK next \in {"close", "fail"} : call' = [call EXCEPT ![c] = At(@.key, next, @.cut)]
      BY <2>4 DEF Execute
    <3> QED
      BY <1>1, <2>4, <3>1, CallAdvances DEF Execute, Run, RunSteps
  <2>5. CASE LogDone(c)
    BY <1>1, <1>2, <2>5, EndPreserves DEF LogDone
  <2>6. CASE LoseDone(c)
    BY <1>3, <2>6, CallAdvances DEF LoseDone, Run, RunSteps
  <2>7. CASE LogFailed(c)
    BY <1>1, <1>2, <2>7, EndPreserves DEF LogFailed
  <2> QED
    BY <1>6, <2>1, <2>2, <2>3, <2>4, <2>5, <2>6, <2>7 DEF Proceed
<1>7. CASE Die
  <2>1. Idle \in Call /\ Idle.key = NoKey /\ Idle.step = "idle" /\ Idle.cut = FALSE
    BY IdleFields
  <2>2. running' = {} /\ \A c \in Calls : call'[c] = Idle
    BY <1>7 DEF Die
  <2>3. \A c \in Calls : ~Run(c)'
    BY <2>1, <2>2 DEF Run, RunSteps
  <2>4. call' \in [Calls -> Call] /\ failures' \in 0..MaxFailures
    BY <1>3, <1>7, <2>1 DEF Die
  <2>5. TriggerTypeOK'
    BY <2>2, <2>4, IdleFields DEF TriggerTypeOK
  <2> QED
    BY <2>2, <2>3, <2>5 DEF MarksInv, MarksAreLive, OneRunKeepsMark, UncutIsMarked
<1>8. CASE UNCHANGED triggerVars
  BY <1>8 DEF triggerVars, MarksInv, TriggerTypeOK, MarksAreLive, OneRunKeepsMark, UncutIsMarked, Run
<1> QED
  BY <1>4, <1>5, <1>6, <1>7, <1>8 DEF TriggerNext

LEMMA MarksInductive == TriggerSpec => []MarksInv
BY MarksInitHolds, MarksStepHolds, PTL DEF TriggerSpec

\* Calls, the set of marks and the count of failures have their types.
THEOREM TriggerTypeCorrect == TriggerSpec => []TriggerTypeOK
<1>1. MarksInv => TriggerTypeOK
  BY DEF MarksInv
<1> QED
  BY <1>1, MarksInductive, PTL

\* triggerJob's finally: no key stays in runningJobs without a run of it, for
\* any number of overlapping calls, refusals, failures and crashes.
THEOREM NoMarkLeft == TriggerSpec => []MarksAreLive
<1>1. MarksInv => MarksAreLive
  BY DEF MarksInv
<1> QED
  BY <1>1, MarksInductive, PTL

\* runningJobs.has and runningJobs.add: two runs of a key overlap only when
\* the end of a third call removed the mark of the first.
THEOREM OverlapOnlyByCut == TriggerSpec => []OneRunKeepsMark
<1>1. MarksInv => OneRunKeepsMark
  BY DEF MarksInv
<1> QED
  BY <1>1, MarksInductive, PTL

-----------------------------------------------------------------------------
(* III. No connection is lost, and the pool is not exhausted under a load  *)
(* that PoolAssumption admits, for any number of requests and connections. *)

\* Where a request is tells how many connections it has.
Shape(r) ==
    /\ step[r] = "idle" => at[r] = 0
    /\ step[r] = "asking" => /\ at[r] < Depth[Kind[r]]
                             /\ Keyed(r) /\ at[r] > 0 => owner = r
    /\ step[r] = "working" => /\ at[r] > 0 /\ at[r] <= Depth[Kind[r]]
                              /\ Keyed(r) /\ owner # r => at[r] = 1
    /\ step[r] = "returning" => at[r] > 0

Shapes == \A r \in Requests : Shape(r)

\* Cardinality says nothing of an infinite set.
HeldFinite == IsFiniteSet(Held)

PoolInv == PoolTypeOK /\ Shapes /\ HeldFinite /\ NoneLost

LEMMA DepthFacts ==
    ASSUME NEW r \in Requests
    PROVE  /\ Depth[Kind[r]] \in Nat /\ Depth[Kind[r]] > 0
           /\ Keyed(r) => Depth[Kind[r]] <= 2
<1>1. Kind[r] \in Kinds
  BY PoolAssumption
<1> QED
  BY <1>1 DEF Kinds, Depth, Keyed, Query, ApproveLeave, ApproveExpense, ApproveFuel,
     ApplyLeave, ApproveDay, RegularizeDay, InitiateExit, CreditedPayroll, PlainPayroll

\* The names of the connections held, member by member.
LEMMA HeldMember ==
    ASSUME PoolTypeOK
    PROVE  \A s : s \in Held <=> \E r \in Requests, i \in Nat :
                                    s = <<r, i>> /\ 1 <= i /\ i <= at[r]
<1>1. \A r \in Requests : at[r] \in Nat
  BY DEF PoolTypeOK
<1> QED
  BY <1>1 DEF Held

-----------------------------------------------------------------------------
LEMMA PoolInitHolds == PoolInit => PoolInv
<1> SUFFICES ASSUME PoolInit PROVE PoolInv
  OBVIOUS
<1>1. PoolTypeOK
  <2>1. free \in Nat /\ owner \in Requests \cup {Nobody} /\ row \in BOOLEAN
    BY PoolAssumption DEF PoolInit
  <2>2. queue \in Seq(Requests)
    <3>1. queue = <<>>
      BY DEF PoolInit
    <3> QED
      BY <3>1
  <2>3. step \in [Requests -> {"idle", "asking", "working", "returning"}]
    BY DEF PoolInit
  <2>4. at \in [Requests -> Nat]
    BY DEF PoolInit
  <2> QED
    BY <2>1, <2>2, <2>3, <2>4 DEF PoolTypeOK
<1>2. Shapes
  BY DEF PoolInit, Shapes, Shape
<1>3. Held = {}
  BY <1>1, HeldMember DEF PoolInit
<1>4. HeldFinite /\ NoneLost
  BY <1>3, FS_EmptySet, PoolAssumption DEF HeldFinite, NoneLost, PoolInit
<1> QED
  BY <1>1, <1>2, <1>4 DEF PoolInv

\* A step that moves no connection.
LEMMA KeepPreserves ==
    ASSUME PoolInv, at' = at, free' = free PROVE HeldFinite' /\ NoneLost'
<1>1. Held' = Held
  BY DEF Held
<1> QED
  BY <1>1 DEF PoolInv, HeldFinite, NoneLost

LEMMA AskPreserves ==
    ASSUME PoolInv, NEW r \in Requests, Ask(r) PROVE PoolInv'
<1>1. PoolTypeOK'
  BY DEF PoolInv, PoolTypeOK, Ask
<1>2. Shapes'
  <2> SUFFICES ASSUME NEW q \in Requests PROVE Shape(q)'
    BY DEF Shapes
  <2>1. Shape(q) /\ at'[q] = at[q] /\ owner' = owner
    BY DEF PoolInv, Shapes, Ask
  <2>2. CASE q # r
    <3>1. step'[q] = step[q]
      BY <2>2 DEF Ask, PoolInv, PoolTypeOK
    <3> QED
      BY <2>1, <3>1 DEF Shape, Keyed
  <2>3. CASE q = r
    <3>1. step'[q] = "asking"
      BY <2>3 DEF Ask, PoolInv, PoolTypeOK
    <3>2. at[q] \in Nat /\ Depth[Kind[q]] \in Nat /\ Depth[Kind[q]] > 0
      BY DepthFacts DEF PoolInv, PoolTypeOK
    <3>3. CASE step[q] = "idle"
      BY <2>1, <3>1, <3>2, <3>3 DEF Shape
    <3>4. CASE step[q] = "working" /\ MayGoOn(q) /\ at[q] < Depth[Kind[q]]
      BY <2>1, <3>1, <3>4 DEF Shape, MayGoOn, Keyed
    <3> QED
      BY <2>3, <3>3, <3>4 DEF Ask
  <2> QED
    BY <2>2, <2>3
<1>3. HeldFinite' /\ NoneLost'
  BY KeepPreserves DEF Ask
<1> QED
  BY <1>1, <1>2, <1>3 DEF PoolInv

LEMMA InsertPreserves ==
    ASSUME PoolInv, NEW r \in Requests, Insert(r) PROVE PoolInv'
<1>1. PoolTypeOK'
  BY DEF PoolInv, PoolTypeOK, Insert
<1>2. Shapes'
  <2> SUFFICES ASSUME NEW q \in Requests PROVE Shape(q)'
    BY DEF Shapes
  <2>1. Shape(q) /\ Shape(r) /\ at' = at
    BY DEF PoolInv, Shapes, Insert
  <2>2. CASE row
    <3>1. owner' = owner /\ step' = [step EXCEPT ![r] = "returning"]
      BY <2>2 DEF Insert
    <3>2. q # r => step'[q] = step[q]
      BY <3>1 DEF PoolInv, PoolTypeOK
    <3>3. q = r => step'[q] = "returning" /\ at[q] > 0
      BY <2>1, <3>1 DEF PoolInv, PoolTypeOK, Insert, Shape
    <3> QED
      BY <2>1, <3>1, <3>2, <3>3 DEF Shape, Keyed
  <2>3. CASE ~row
    <3>1. owner = Nobody /\ owner' = r /\ step' = step
      BY <2>3 DEF Insert
    <3>2. owner # q
      BY <3>1, PoolAssumption
    <3>3. step[r] = "working"
      BY DEF Insert
    <3>4. CASE q = r
      BY <2>1, <3>1, <3>3, <3>4 DEF Shape, Keyed
    <3>5. CASE q # r
      BY <2>1, <3>1, <3>2, <3>5 DEF Shape, Keyed
    <3> QED
      BY <3>4, <3>5
  <2> QED
    BY <2>2, <2>3
<1>3. HeldFinite' /\ NoneLost'
  BY KeepPreserves DEF Insert
<1> QED
  BY <1>1, <1>2, <1>3 DEF PoolInv

\* One more name: the connection goes from the pool to the request.
LEMMA GrantPreserves ==
    ASSUME PoolInv, NEW r \in Requests, Grant(r) PROVE PoolInv'
<1>1. at[r] \in Nat /\ free \in Nat /\ free > 0 /\ Size \in Nat
  BY PoolAssumption DEF PoolInv, PoolTypeOK, Grant
<1>2. at'[r] = at[r] + 1 /\ \A q \in Requests \ {r} : at'[q] = at[q] /\ step'[q] = step[q]
  BY DEF Grant, PoolInv, PoolTypeOK
<1>3. PoolTypeOK'
  <2>1. queue' \in Seq(Requests)
    BY DEF Grant, PoolInv, PoolTypeOK
  <2>2. free' \in Nat
    BY <1>1 DEF Grant
  <2>3. at' \in [Requests -> Nat]
    BY <1>1 DEF Grant, PoolInv, PoolTypeOK
  <2> QED
    BY <2>1, <2>2, <2>3 DEF Grant, PoolInv, PoolTypeOK
<1>4. Shapes'
  <2> SUFFICES ASSUME NEW q \in Requests PROVE Shape(q)'
    BY DEF Shapes
  <2>1. Shape(q) /\ owner' = owner
    BY DEF PoolInv, Shapes, Grant
  <2>2. CASE q # r
    BY <1>2, <2>1, <2>2 DEF Shape, Keyed
  <2>3. CASE q = r
    <3>1. step[q] = "asking" /\ step'[q] = "working"
      BY <2>3 DEF Grant, PoolInv, PoolTypeOK
    <3>2. Depth[Kind[q]] \in Nat
      BY DepthFacts
    <3>3. at[q] < Depth[Kind[q]] /\ (Keyed(q) /\ at[q] > 0 => owner = q)
      BY <2>1, <3>1 DEF Shape
    <3>4. at'[q] > 0 /\ at'[q] <= Depth[Kind[q]] /\ (Keyed(q) /\ owner # q => at'[q] = 1)
      BY <1>1, <1>2, <2>3, <3>2, <3>3
    <3> QED
      BY <2>1, <3>1, <3>4 DEF Shape, Keyed
  <2> QED
    BY <2>2, <2>3
<1>5. Held' = Held \cup {<<r, at[r] + 1>>} /\ <<r, at[r] + 1>> \notin Held
  <2>1. \A s : s \in Held' <=> \E q \in Requests, i \in Nat :
                                  s = <<q, i>> /\ 1 <= i /\ i <= at'[q]
    <3>1. \A q \in Requests : at'[q] \in Nat
      BY <1>3 DEF PoolTypeOK
    <3> QED
      BY <3>1 DEF Held
  <2>2. \A s : s \in Held <=> \E q \in Requests, i \in Nat :
                                 s = <<q, i>> /\ 1 <= i /\ i <= at[q]
    BY HeldMember DEF PoolInv
  <2>3. <<r, at[r] + 1>> \notin Held
    BY <1>1, <2>2
  <2>4. ASSUME NEW s PROVE s \in Held' <=> s \in Held \/ s = <<r, at[r] + 1>>
    <3>1. ASSUME s \in Held' PROVE s \in Held \/ s = <<r, at[r] + 1>>
      <4>1. PICK q \in Requests, i \in Nat : s = <<q, i>> /\ 1 <= i /\ i <= at'[q]
        BY <2>1, <3>1
      <4>2. CASE q # r
        BY <1>2, <2>2, <4>1, <4>2
      <4>3. CASE q = r /\ i <= at[r]
        BY <2>2, <4>1, <4>3
      <4>4. CASE q = r /\ ~(i <= at[r])
        BY <1>1, <1>2, <4>1, <4>4
      <4> QED
        BY <4>2, <4>3, <4>4
    <3>2. ASSUME s \in Held PROVE s \in Held'
      <4>1. PICK q \in Requests, i \in Nat : s = <<q, i>> /\ 1 <= i /\ i <= at[q]
        BY <2>2, <3>2
      <4>2. i <= at'[q]
        BY <1>1, <1>2, <4>1
      <4> QED
        BY <2>1, <4>1, <4>2
    <3>3. <<r, at[r] + 1>> \in Held'
      <4>1. at[r] + 1 \in Nat /\ 1 <= at[r] + 1 /\ at[r] + 1 <= at'[r]
        BY <1>1, <1>2
      <4> QED
        BY <2>1, <4>1
    <3> QED
      BY <3>1, <3>2, <3>3
  <2> QED
    BY <2>3, <2>4
<1>6. HeldFinite' /\ Cardinality(Held') = Cardinality(Held) + 1
  BY <1>5, FS_AddElement DEF PoolInv, HeldFinite
<1>7. NoneLost'
  <2>1. Cardinality(Held) \in Nat
    BY FS_CardinalityType DEF PoolInv, HeldFinite
  <2>2. free' = free - 1 /\ free + Cardinality(Held) = Size
    BY DEF Grant, PoolInv, NoneLost
  <2> QED
    BY <1>1, <1>6, <2>1, <2>2 DEF NoneLost
<1> QED
  BY <1>3, <1>4, <1>6, <1>7 DEF PoolInv

\* One name less, the innermost one.
LEMMA ReleasePreserves ==
    ASSUME PoolInv, NEW r \in Requests, Release(r) PROVE PoolInv'
<1>1. at[r] \in Nat /\ at[r] > 0 /\ free \in Nat
  BY DEF PoolInv, PoolTypeOK, Release, Shapes, Shape
<1>2. /\ at'[r] = at[r] - 1
      /\ step'[r] = IF at[r] = 1 THEN "idle" ELSE "returning"
      /\ \A q \in Requests \ {r} : at'[q] = at[q] /\ step'[q] = step[q]
  BY DEF Release, PoolInv, PoolTypeOK
<1>3. PoolTypeOK'
  <2>1. at' \in [Requests -> Nat]
    BY <1>1 DEF Release, PoolInv, PoolTypeOK
  <2>2. step' \in [Requests -> {"idle", "asking", "working", "returning"}]
    BY DEF Release, PoolInv, PoolTypeOK
  <2>3. owner' \in Requests \cup {Nobody} /\ row' \in BOOLEAN
    BY DEF Release, PoolInv, PoolTypeOK
  <2> QED
    BY <1>1, <2>1, <2>2, <2>3 DEF Release, PoolInv, PoolTypeOK
<1>4. Shapes'
  <2> SUFFICES ASSUME NEW q \in Requests PROVE Shape(q)'
    BY DEF Shapes
  <2>1. Shape(q)
    BY DEF PoolInv, Shapes
  <2>2. CASE q # r
    <3>1. owner' = q <=> owner = q
      BY <2>2, PoolAssumption DEF Release
    <3> QED
      BY <1>2, <2>1, <2>2, <3>1 DEF Shape, Keyed
  <2>3. CASE q = r
    BY <1>1, <1>2, <2>3 DEF Shape
  <2> QED
    BY <2>2, <2>3
<1>5. Held' = Held \ {<<r, at[r]>>} /\ <<r, at[r]>> \in Held
  <2>1. \A s : s \in Held' <=> \E q \in Requests, i \in Nat :
                                  s = <<q, i>> /\ 1 <= i /\ i <= at'[q]
    <3>1. \A q \in Requests : at'[q] \in Nat
      BY <1>3 DEF PoolTypeOK
    <3> QED
      BY <3>1 DEF Held
  <2>2. \A s : s \in Held <=> \E q \in Requests, i \in Nat :
                                 s = <<q, i>> /\ 1 <= i /\ i <= at[q]
    BY HeldMember DEF PoolInv
  <2>3. <<r, at[r]>> \in Held
    BY <1>1, <2>2
  <2>4. ASSUME NEW s PROVE s \in Held' <=> s \in Held /\ s # <<r, at[r]>>
    <3>1. ASSUME s \in Held' PROVE s \in Held /\ s # <<r, at[r]>>
      <4>1. PICK q \in Requests, i \in Nat : s = <<q, i>> /\ 1 <= i /\ i <= at'[q]
        BY <2>1, <3>1
      <4>2. i <= at[q] /\ (q = r => i # at[r])
        BY <1>1, <1>2, <4>1
      <4> QED
        BY <2>2, <4>1, <4>2
    <3>2. ASSUME s \in Held, s # <<r, at[r]>> PROVE s \in Held'
      <4>1. PICK q \in Requests, i \in Nat : s = <<q, i>> /\ 1 <= i /\ i <= at[q]
        BY <2>2, <3>2
      <4>2. i <= at'[q]
        BY <1>1, <1>2, <3>2, <4>1
      <4> QED
        BY <2>1, <4>1, <4>2
    <3> QED
      BY <3>1, <3>2
  <2> QED
    BY <2>3, <2>4
<1>6. HeldFinite' /\ Cardinality(Held') = Cardinality(Held) - 1
  BY <1>5, FS_RemoveElement DEF PoolInv, HeldFinite
<1>7. NoneLost'
  <2>1. Cardinality(Held) \in Nat
    BY FS_CardinalityType DEF PoolInv, HeldFinite
  <2>2. free' = free + 1 /\ free + Cardinality(Held) = Size
    BY DEF Release, PoolInv, NoneLost
  <2> QED
    BY <1>1, <1>6, <2>1, <2>2 DEF NoneLost
<1> QED
  BY <1>3, <1>4, <1>6, <1>7 DEF PoolInv

LEMMA PoolStepHolds == PoolInv /\ [PoolNext]_poolVars => PoolInv'
<1> SUFFICES ASSUME PoolInv, [PoolNext]_poolVars PROVE PoolInv'
  OBVIOUS
<1>1. CASE PoolNext
  BY <1>1, AskPreserves, GrantPreserves, InsertPreserves, ReleasePreserves DEF PoolNext
<1>2. CASE UNCHANGED poolVars
  <2>1. HeldFinite' /\ NoneLost'
    BY <1>2, KeepPreserves DEF poolVars
  <2> QED
    BY <1>2, <2>1 DEF poolVars, PoolInv, PoolTypeOK, Shapes, Shape, Keyed
<1> QED
  BY <1>1, <1>2

LEMMA PoolInductive == PoolSpec => []PoolInv
BY PoolInitHolds, PoolStepHolds, PTL DEF PoolSpec

-----------------------------------------------------------------------------
\* If every holder waits, the names in use are among those of WaitSlots, of
\* which there are fewer than connections: some are still in the pool.
LEMMA RoomLeft == PoolInv => NeverExhausted
<1> SUFFICES ASSUME PoolInv, free = 0, \A r \in Requests : at[r] > 0 => Waiting(r)
             PROVE  FALSE
  BY DEF NeverExhausted
<1>1. \A r \in Requests : at[r] <= HeldWaiting(r) \/ at[r] = 0
  <2> SUFFICES ASSUME NEW r \in Requests, at[r] > 0 PROVE at[r] <= HeldWaiting(r)
    BY DEF PoolInv, PoolTypeOK
  <2>1. at[r] \in Nat /\ Waiting(r) /\ Shape(r)
    BY DEF PoolInv, PoolTypeOK, Shapes
  <2>2. Depth[Kind[r]] \in Nat /\ Depth[Kind[r]] > 0 /\ (Keyed(r) => Depth[Kind[r]] <= 2)
    BY DepthFacts
  <2>3. CASE step[r] = "asking"
    BY <2>1, <2>2, <2>3 DEF Shape, HeldWaiting
  <2>4. CASE step[r] = "working" /\ Keyed(r) /\ owner # r
    BY <2>1, <2>4 DEF Shape, HeldWaiting
  <2> QED
    BY <2>1, <2>3, <2>4 DEF Waiting
<1>2. Held \subseteq WaitSlots
  <2> SUFFICES ASSUME NEW s \in Held PROVE s \in WaitSlots
    OBVIOUS
  <2>1. PICK r \in Requests, i \in Nat : s = <<r, i>> /\ 1 <= i /\ i <= at[r]
    BY HeldMember DEF PoolInv
  <2>2. at[r] \in Nat /\ HeldWaiting(r) \in Nat
    BY DepthFacts DEF PoolInv, PoolTypeOK, HeldWaiting
  <2>3. i \in 1..HeldWaiting(r)
    BY <1>1, <2>1, <2>2
  <2> QED
    BY <2>1, <2>3 DEF WaitSlots
<1>3. Cardinality(Held) <= Cardinality(WaitSlots)
  BY <1>2, FS_Subset, PoolAssumption
<1>4. Cardinality(Held) = Size
  BY FS_CardinalityType DEF PoolInv, HeldFinite, NoneLost
<1> QED
  BY <1>3, <1>4, FS_CardinalityType, PoolAssumption DEF PoolInv, HeldFinite

\* Steps, queue, levels and the lock have their types.
THEOREM PoolTypeCorrect == PoolSpec => []PoolTypeOK
<1>1. PoolInv => PoolTypeOK
  BY DEF PoolInv
<1> QED
  BY <1>1, PoolInductive, PTL

\* A connection taken for a transaction or a statement comes back by every
\* path: answered, refused by the unique index, or rolled back.
THEOREM NoConnectionLost == PoolSpec => []NoneLost
<1>1. PoolInv => NoneLost
  BY DEF PoolInv
<1> QED
  BY <1>1, PoolInductive, PTL

\* getOrmConfig's pool under the nesting of the handlers: with fewer places to
\* wait in than connections, some holder of one can always go on.
THEOREM RoomForNesting == PoolSpec => []NeverExhausted
BY RoomLeft, PoolInductive, PTL
=============================================================================
