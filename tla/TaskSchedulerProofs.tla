------------------------ MODULE TaskSchedulerProofs ------------------------
(***************************************************************************)
(* For any number of tasks, schedulers and schedules, in any calendar: what *)
(* next_run finds, that claims are in order and follow the schedule, and   *)
(* that every run has one starter.                                         *)
(*                                                                         *)
(* The inductive invariant adds to the types that rows read by a scheduler *)
(* were due (ReadRows), and that a row whose task has another schedule by  *)
(* now is behind it (StaleRows), since it was due when it was read and an  *)
(* update counts from the present: the claim finds the row changed.        *)
(***************************************************************************)
EXTENDS TaskScheduler, FiniteSetTheorems, WellFoundedInduction, TLAPS

-----------------------------------------------------------------------------
\* The first run found: a set of integers with a lower bound has a least element.
LEMMA NatHasMin ==
  ASSUME NEW T \in SUBSET Nat, T # {}
  PROVE  \E x \in T : \A y \in T : x <= y
<1> DEFINE R == OpToRel(<, Nat)
<1>1. IsWellFoundedOn(R, Nat)
  BY NatLessThanWellFounded
<1>2. \A x, y \in Nat : y < x => <<y, x>> \in R
  BY DEF OpToRel
<1> HIDE DEF R
<1>3. \E x \in T : \A y \in T : ~(<<y, x>> \in R)
  BY <1>1, WFMin
<1>4. \A x, y \in T : ~(<<y, x>> \in R) => x <= y
  BY <1>2
<1> QED BY <1>3, <1>4

LEMMA MinIsLeast ==
  ASSUME NEW T \in SUBSET Int, T # {}, NEW b \in Int, \A x \in T : b <= x
  PROVE  Min(T) \in T /\ \A y \in T : Min(T) <= y
<1> DEFINE D == {x - b : x \in T}
<1>1. D \in SUBSET Nat /\ D # {}
  <2>1. \A x \in T : x \in Int /\ b <= x
    OBVIOUS
  <2>2. \A x \in T : x - b \in Nat
    BY <2>1
  <2> QED BY <2>2
<1>2. PICK d \in D : \A e \in D : d <= e
  <2> HIDE DEF D
  <2> QED BY <1>1, NatHasMin
<1>3. PICK x \in T : d = x - b
  OBVIOUS
<1>4. \A y \in T : x <= y
  <2> TAKE y \in T
  <2>1. y - b \in D
    OBVIOUS
  <2>2. x - b <= y - b
    BY <1>2, <1>3, <2>1
  <2>3. x \in Int /\ y \in Int
    OBVIOUS
  <2> HIDE DEF D
  <2> QED BY <2>2, <2>3
<1> QED BY <1>4 DEF Min

\* A wall time is a day and a slot, in one way.
LEMMA Division ==
  ASSUME NEW w \in Int
  PROVE  /\ DayOf(w) \in Int /\ SlotOf(w) \in 0 .. SlotsPerDay - 1
         /\ w = DayOf(w) * SlotsPerDay + SlotOf(w)
<1> DEFINE n == SlotsPerDay
<1>1. n \in Nat \ {0}
  BY ScheduleTimesAssumption
<1>2. w \div n \in Int /\ w % n \in 0 .. n - 1
  BY <1>1
<1>3. w = n * (w \div n) + (w % n)
  BY <1>1
<1>4. n * (w \div n) = (w \div n) * n
  BY <1>1, <1>2
<1> QED BY <1>2, <1>3, <1>4 DEF DayOf, SlotOf

LEMMA DayOrder ==
  ASSUME NEW n \in Nat \ {0}, NEW a \in Int, NEW b \in Int,
         NEW c \in 0 .. n - 1, NEW e \in 0 .. n - 1, a * n + c < b * n + e
  PROVE  a <= b
<1> SUFFICES ASSUME b <= a - 1 PROVE FALSE
  OBVIOUS
<1>1. b * n <= (a - 1) * n
  OBVIOUS
<1>2. (a - 1) * n = a * n - n
  OBVIOUS
<1> QED BY <1>1, <1>2

LEMMA SlotOfClock ==
  ASSUME NEW d \in Int, NEW c \in 0 .. SlotsPerDay - 1
  PROVE  SlotOf(d * SlotsPerDay + c) = c /\ DayOf(d * SlotsPerDay + c) = d
<1> DEFINE w == d * SlotsPerDay + c
<1>1. w \in Int
  BY ScheduleTimesAssumption
<1> QED
  BY <1>1, ScheduleTimesAssumption DEF DayOf, SlotOf

-----------------------------------------------------------------------------
\* What next_run finds: the first time of the schedule the clocks show after w.
FirstAfter(s, w, x) ==
  /\ x \in Int /\ x > w /\ OnSchedule(s, x)
  /\ \A y \in w + 1 .. x - 1 : ~OnSchedule(s, y)

ClockIsValid(s) == s.type # "cron" => s.clock \in 0 .. SlotsPerDay - 1

LEMMA CronFindsFirst ==
  ASSUME NEW s \in Schedules, s.type = "cron", NEW w \in Int, CronNext(s, w) # NoRun
  PROVE  FirstAfter(s, w, CronNext(s, w))
<1> DEFINE found == {x \in w + 1 .. w + Window : CronMatches(s, x)}
<1>1. found # {} /\ CronNext(s, w) = Min(found)
  BY DEF CronNext
<1>2. found \in SUBSET Int /\ (\A x \in found : w <= x)
  BY ScheduleTimesAssumption
<1>3. Min(found) \in found /\ \A y \in found : Min(found) <= y
  <2> HIDE DEF found
  <2> QED BY <1>1, <1>2, MinIsLeast
<1>4. \A x : OnSchedule(s, x) <=> CronMatches(s, x)
  BY DEF OnSchedule
<1>5. ASSUME NEW y \in w + 1 .. Min(found) - 1, CronMatches(s, y) PROVE FALSE
  <2>1. y \in Int /\ w + 1 <= y /\ y < Min(found) /\ Min(found) <= w + Window
    BY <1>3, ScheduleTimesAssumption
  <2>2. y \in found
    <3>1. w + Window \in Int /\ y <= w + Window
      BY <2>1, <1>2, <1>3, ScheduleTimesAssumption
    <3> QED BY <2>1, <3>1, <1>5
  <2> QED BY <1>3, <2>1, <2>2, <1>2
<1>6. Min(found) \in Int /\ Min(found) > w /\ CronMatches(s, Min(found))
  BY <1>3, ScheduleTimesAssumption
<1> HIDE DEF found
<1> QED BY <1>1, <1>4, <1>5, <1>6 DEF FirstAfter

\* The candidates of a clock time are complete up to the last of them.
LEMMA ClockFindsFirst ==
  ASSUME NEW s \in Schedules, s.type # "cron", ClockIsValid(s), NEW w \in Int,
         ClockNext(s, w) # NoRun
  PROVE  FirstAfter(s, w, ClockNext(s, w))
<1> DEFINE days == {DayOf(w) + d : d \in 0 .. DaysPerWeek}
           found == {x \in {d * SlotsPerDay + s.clock : d \in days} :
                       x > w /\ (s.type = "weekly" => Weekday(x) = s.weekday)}
<1>1. found # {} /\ ClockNext(s, w) = Min(found)
  BY DEF ClockNext
<1>2. s.clock \in 0 .. SlotsPerDay - 1 /\ s.type \in {"daily", "weekly"}
  BY SchedulesAssumption DEF ClockIsValid
<1>3. DayOf(w) \in Int /\ SlotsPerDay \in Nat \ {0} /\ DaysPerWeek \in Nat \ {0}
  BY Division, ScheduleTimesAssumption
<1>4. days \in SUBSET Int /\ \A d \in days : DayOf(w) <= d /\ d <= DayOf(w) + DaysPerWeek
  BY <1>3
<1>5. \A d \in Int : d * SlotsPerDay + s.clock \in Int
  BY <1>2, <1>3
<1>6. found \in SUBSET Int /\ \A x \in found : w <= x
  <2> HIDE DEF days
  <2> QED BY <1>4, <1>5
<1>7. Min(found) \in found /\ \A y \in found : Min(found) <= y
  <2> HIDE DEF found
  <2> QED BY <1>1, <1>6, MinIsLeast
<1>8. PICK m \in days : Min(found) = m * SlotsPerDay + s.clock
  <2> HIDE DEF days
  <2> QED BY <1>7
<1>9. \A x \in Int : OnSchedule(s, x) <=>
        SlotOf(x) = s.clock /\ (s.type = "weekly" => Weekday(x) = s.weekday)
  BY <1>2 DEF OnSchedule
<1>10. Min(found) > w /\ Min(found) \in Int /\ OnSchedule(s, Min(found))
  <2>1. SlotOf(Min(found)) = s.clock
    BY <1>2, <1>4, <1>8, SlotOfClock
  <2> HIDE DEF days
  <2> QED BY <1>6, <1>7, <1>9, <2>1
<1>11. ASSUME NEW y \in w + 1 .. Min(found) - 1, OnSchedule(s, y) PROVE FALSE
  <2>1. y \in Int /\ w < y /\ y < Min(found)
    BY <1>10
  <2>2. /\ DayOf(y) \in Int /\ y = DayOf(y) * SlotsPerDay + s.clock
        /\ w = DayOf(w) * SlotsPerDay + SlotOf(w) /\ SlotOf(w) \in 0 .. SlotsPerDay - 1
    BY <1>9, <1>11, <2>1, Division
  <2>3. DayOf(w) <= DayOf(y)
    BY <1>2, <1>3, <2>1, <2>2, DayOrder
  <2>4. DayOf(y) <= m
    <3>1. m \in Int
      BY <1>4
    <3>2. DayOf(y) * SlotsPerDay + s.clock < m * SlotsPerDay + s.clock
      BY <1>8, <2>1, <2>2
    <3> QED BY <1>2, <1>3, <2>2, <3>1, <3>2, DayOrder
  <2>5. DayOf(y) \in days
    <3>1. DayOf(y) - DayOf(w) \in 0 .. DaysPerWeek
      BY <1>3, <1>4, <2>2, <2>3, <2>4
    <3>2. DayOf(y) = DayOf(w) + (DayOf(y) - DayOf(w))
      BY <1>3, <2>2
    <3> QED BY <3>1, <3>2
  <2>6. y \in found
    <3> HIDE DEF days
    <3> QED BY <1>9, <1>11, <2>1, <2>2, <2>5
  <2> HIDE DEF found
  <2> QED BY <1>7, <1>10, <2>1, <2>6
<1> HIDE DEF found
<1> QED BY <1>1, <1>10, <1>11 DEF FirstAfter

LEMMA Zones ==
  ASSUME NEW s \in Schedules
  PROVE  /\ s.zone.shift \in Int /\ s.zone.before \in Int /\ s.zone.after \in Int
         /\ s.zone.before - s.zone.after <= s.zone.shift
         /\ \A u \in Int : WallOf(s.zone, u) \in Int
         /\ \A w \in Int : InstantOf(s.zone, w) \in Int
<1>1. s.zone.shift \in Int /\ s.zone.before \in Int /\ s.zone.after \in Int
  BY SchedulesAssumption
<1>2. s.zone.before - s.zone.after <= s.zone.shift
  BY SchedulesAssumption
<1> QED BY <1>1, <1>2 DEF WallOf, InstantOf

\* NextRun is the instant of the first time after, or raises.
LEMMA NextRunFinds ==
  ASSUME NEW s \in Schedules, ClockIsValid(s), NEW u \in Nat, NextRun(s, u) # NoRun
  PROVE  \E x \in Int : NextRun(s, u) = InstantOf(s.zone, x) /\ FirstAfter(s, WallOf(s.zone, u), x)
<1> DEFINE w == WallOf(s.zone, u)
<1>1. w \in Int
  BY Zones
<1>2. CASE s.type = "cron"
  <2>1. CronNext(s, w) # NoRun /\ NextRun(s, u) = InstantOf(s.zone, CronNext(s, w))
    BY <1>2 DEF NextRun
  <2>2. FirstAfter(s, w, CronNext(s, w))
    BY <1>1, <1>2, <2>1, CronFindsFirst
  <2> QED BY <2>1, <2>2 DEF FirstAfter
<1>3. CASE s.type # "cron"
  <2>1. ClockNext(s, w) # NoRun /\ NextRun(s, u) = InstantOf(s.zone, ClockNext(s, w))
    BY <1>3 DEF NextRun
  <2>2. FirstAfter(s, w, ClockNext(s, w))
    BY <1>1, <1>3, <2>1, ClockFindsFirst
  <2> QED BY <2>1, <2>2 DEF FirstAfter
<1> QED BY <1>2, <1>3

LEMMA NextRunIsNat ==
  ASSUME NEW s \in Schedules, ClockIsValid(s), NEW u \in Nat, NextRun(s, u) # NoRun
  PROVE  NextRun(s, u) \in Nat
<1>1. PICK x \in Int : NextRun(s, u) = InstantOf(s.zone, x) /\ x > WallOf(s.zone, u)
  BY NextRunFinds DEF FirstAfter
<1> DEFINE shift == s.zone.shift  before == s.zone.before  after == s.zone.after
<1>2. shift \in Int /\ before \in Int /\ after \in Int /\ before - after <= shift
  BY Zones
<1>3. WallOf(s.zone, u) = u + (IF u < shift THEN before ELSE after)
  BY DEF WallOf
<1>4. InstantOf(s.zone, x) = IF x - before >= shift /\ x - after >= shift THEN x - after ELSE x - before
  BY DEF InstantOf
<1> HIDE DEF shift, before, after
<1>5. InstantOf(s.zone, x) \in Int /\ InstantOf(s.zone, x) >= 0
  BY <1>1, <1>2, <1>3, <1>4
<1> QED BY <1>1, <1>5

\* next_run finds the first time of a valid schedule that the clocks of its zone
\* show after the given instant, by the fallback cron's search as by the clock
\* times of the next week, in any calendar and any zone.
THEOREM NextRunIsNext ==
  ASSUME NEW s \in Schedules, ClockIsValid(s), NEW u \in Nat, NextRun(s, u) # NoRun
  PROVE  IsNextOf(s, u, NextRun(s, u)) /\ IsOn(s, NextRun(s, u))
<1> DEFINE zone == s.zone  next == NextRun(s, u)
<1>1. PICK x \in Int : next = InstantOf(zone, x) /\ FirstAfter(s, WallOf(zone, u), x)
  BY NextRunFinds
<1>2. x \in {WallOf(zone, next), next + zone.before}
  BY <1>1, Zones DEF WallOf, InstantOf
<1>3. x > WallOf(zone, u) /\ OnSchedule(s, x) /\ \A y \in WallOf(zone, u) + 1 .. x - 1 : ~OnSchedule(s, y)
  BY <1>1 DEF FirstAfter
<1> HIDE DEF zone, next
<1>4. IsOn(s, next)
  BY <1>1, <1>2, <1>3 DEF IsOn, zone
<1>5. IsNextOf(s, u, next)
  BY <1>1, <1>2, <1>3 DEF IsNextOf, zone
<1> QED BY <1>4, <1>5 DEF next

\* Only in an hour that is repeated does the next run come before the present.
LEMMA NextRunIsLater ==
  ASSUME NEW s \in Schedules, ClockIsValid(s), NEW u \in Nat, NextRun(s, u) # NoRun
  PROVE  NextRun(s, u) > u \/ \A v \in NextRun(s, u) .. u : Ambiguous(v)
<1>1. PICK x \in Int : NextRun(s, u) = InstantOf(s.zone, x) /\ x > WallOf(s.zone, u)
  BY NextRunFinds DEF FirstAfter
<1> DEFINE shift == s.zone.shift  before == s.zone.before  after == s.zone.after
<1>2. shift \in Int /\ before \in Int /\ after \in Int
  BY Zones
<1>3. WallOf(s.zone, u) = u + (IF u < shift THEN before ELSE after)
  BY DEF WallOf
<1>4. InstantOf(s.zone, x) = IF x - before >= shift /\ x - after >= shift THEN x - after ELSE x - before
  BY DEF InstantOf
<1>5. \A v : shift - (before - after) <= v /\ v < shift + (before - after) => Ambiguous(v)
  BY DEF Ambiguous
<1> HIDE DEF shift, before, after
<1>6. SUFFICES ASSUME InstantOf(s.zone, x) <= u, NEW v \in InstantOf(s.zone, x) .. u PROVE Ambiguous(v)
  BY <1>1, <1>2, <1>4
<1>7. shift - (before - after) <= InstantOf(s.zone, x) /\ u < shift + (before - after)
  BY <1>1, <1>2, <1>3, <1>4, <1>6
<1>8. InstantOf(s.zone, x) \in Int
  BY <1>2, <1>4
<1> QED BY <1>2, <1>5, <1>6, <1>7, <1>8

-----------------------------------------------------------------------------
\* The inductive invariant.  A row that a scheduler has read is stale once the
\* task has another schedule: then its run is before the next one, and a claim
\* from it comes to nothing, but for the hours that are repeated.
LiveRows ==
  \A t \in Tasks : task[t].life = "live" =>
    ClockIsValid(task[t].schedule) /\ (task[t].enabled => task[t].next # Never)

ReadRows ==
  \A s \in Schedulers : \A r \in due[s] : r.at <= now /\ ClockIsValid(r.schedule)

StaleRows ==
  \A s \in Schedulers : \A r \in due[s] :
    task[r.task].life = "live" /\ task[r.task].enabled /\ task[r.task].schedule # r.schedule =>
      r.at < task[r.task].next \/ Ambiguous(r.at)

SchedulerInv == SchedulerTypeOK /\ LiveRows /\ ReadRows /\ StaleRows

LEMMA Basics ==
  /\ MaxTime \in Nat /\ MaxFaults \in Nat /\ Instants \in SUBSET Nat /\ Start \in Instants
  /\ \A n \in Nat : n # Never
  /\ \A v \in Works : v # Never
BY TaskSchedulerAssumption DEF Instants

LEMMA RowFields ==
  ASSUME NEW row \in TaskRows
  PROVE  /\ row.life \in {"unborn", "live", "deleted"} /\ row.enabled \in BOOLEAN
         /\ row.schedule \in Schedules /\ row.next \in Nat \cup {Never}
         /\ \A l \in {"unborn", "live", "deleted"} :
              LET new == [row EXCEPT !.life = l, !.enabled = FALSE] IN
              new \in TaskRows /\ new.life = l /\ new.enabled = FALSE
         /\ [row EXCEPT !.enabled = FALSE] \in TaskRows
         /\ [row EXCEPT !.enabled = FALSE].life = row.life
         /\ [row EXCEPT !.enabled = FALSE].enabled = FALSE
         /\ [row EXCEPT !.enabled = FALSE].schedule = row.schedule
BY DEF TaskRows

LEMMA AcceptedSchedules ==
  ASSUME SchedulerTypeOK, NEW s \in Schedules, NEW e \in BOOLEAN, Accepts(s, e)
  PROVE  /\ ClockIsValid(s)
         /\ e => /\ NextRun(s, now) \in Nat /\ IsOn(s, NextRun(s, now))
                 /\ NextRun(s, now) > now \/ \A v \in NextRun(s, now) .. now : Ambiguous(v)
<1>1. ClockIsValid(s)
  <2>1. s.type \in {"daily", "weekly", "cron"}
    BY SchedulesAssumption
  <2> QED BY <2>1 DEF Accepts, IsValidSchedule, ClockIsValid
<1>2. now \in Nat
  BY Basics DEF SchedulerTypeOK
<1>3. e => NextRun(s, now) # NoRun
  BY DEF Accepts
<1> QED BY <1>1, <1>2, <1>3, NextRunIsNat, NextRunIsNext, NextRunIsLater

\* What a claim computes.
LEMMA ClaimedRows ==
  ASSUME SchedulerInv, NEW s \in Schedulers, NEW r \in due[s], NextAfterClaim(r) # NoRun
  PROVE  /\ r \in DueRows /\ r.task \in Tasks /\ r.at \in Instants /\ r.at \in Nat /\ r.schedule \in Schedules
         /\ NextAfterClaim(r) \in Nat
         /\ IsOn(r.schedule, NextAfterClaim(r)) /\ IsNextOf(r.schedule, r.at, NextAfterClaim(r))
         /\ NextAfterClaim(r) > r.at \/ \A v \in NextAfterClaim(r) .. r.at : Ambiguous(v)
<1>1. r \in DueRows /\ r.task \in Tasks /\ r.at \in Instants /\ r.schedule \in Schedules
  BY DEF SchedulerInv, SchedulerTypeOK, DueRows
<1>2. r.at \in Nat /\ ClockIsValid(r.schedule)
  BY <1>1, Basics DEF SchedulerInv, ReadRows
<1> QED BY <1>1, <1>2, NextRunIsNat, NextRunIsNext, NextRunIsLater DEF NextAfterClaim

\* What was due at ref is behind a next run computed from it, or ambiguous.
LEMMA EarlierOrAmbiguous ==
  ASSUME NEW at \in Nat, NEW next \in Nat, NEW ref \in Nat, at <= ref,
         next > ref \/ \A v \in next .. ref : Ambiguous(v)
  PROVE  at < next \/ Ambiguous(at)
OBVIOUS

-----------------------------------------------------------------------------
\* Each action keeps the invariant.  A created or updated task:
LEMMA SetTask ==
  ASSUME SchedulerInv, NEW t \in Tasks, NEW s \in Schedules, NEW e \in BOOLEAN, Accepts(s, e),
         task' \in [Tasks -> TaskRows],
         task'[t].schedule = s, task'[t].enabled = e, e => task'[t].next = NextRun(s, now),
         \A u \in Tasks \ {t} : task'[u] = task[u],
         UNCHANGED <<now, due>>
  PROVE  LiveRows' /\ ReadRows' /\ StaleRows' /\ (e => IsOn(s, task'[t].next))
<1>1. ClockIsValid(s) /\ (e => NextRun(s, now) \in Nat /\ IsOn(s, NextRun(s, now)))
  BY AcceptedSchedules DEF SchedulerInv
<1>2. LiveRows'
  BY <1>1, Basics DEF SchedulerInv, LiveRows
<1>3. ReadRows'
  BY DEF SchedulerInv, ReadRows
<1>4. StaleRows'
  <2> SUFFICES ASSUME NEW p \in Schedulers, NEW r \in due[p],
                      task'[r.task].enabled, task'[r.task].life = "live",
                      task'[r.task].schedule # r.schedule
               PROVE  r.at < task'[r.task].next \/ Ambiguous(r.at)
    BY DEF StaleRows
  <2>1. r \in DueRows /\ r.at \in Nat /\ r.at <= now /\ r.task \in Tasks
    BY Basics DEF SchedulerInv, SchedulerTypeOK, ReadRows, DueRows
  <2>2. CASE r.task = t
    <3>1. now \in Nat /\ NextRun(s, now) \in Nat
      BY <1>1, <2>2, Basics DEF SchedulerInv, SchedulerTypeOK
    <3>2. NextRun(s, now) > now \/ \A v \in NextRun(s, now) .. now : Ambiguous(v)
      BY <2>2, AcceptedSchedules DEF SchedulerInv
    <3>3. r.at < NextRun(s, now) \/ Ambiguous(r.at)
      BY <2>1, <3>1, <3>2, EarlierOrAmbiguous
    <3> QED BY <2>2, <3>3
  <2>3. CASE r.task # t
    BY <2>1, <2>3 DEF SchedulerInv, StaleRows
  <2> QED BY <2>2, <2>3
<1> QED BY <1>1, <1>2, <1>3, <1>4

LEMMA CreateTaskStep ==
  ASSUME SchedulerInv, NEW t \in Tasks, NEW s \in Schedules, NEW e \in BOOLEAN, CreateTask(t, s, e)
  PROVE  /\ SchedulerInv'
         /\ \A u \in Tasks \ {t} : task'[u] = task[u]
         /\ task'[t].schedule = s /\ (task'[t].enabled => IsOn(s, task'[t].next))
<1> DEFINE new == [life |-> "live", enabled |-> e, schedule |-> s,
                   next |-> IF e THEN NextRun(s, now) ELSE Never]
<1>1. Accepts(s, e) /\ UNCHANGED <<now, runs, lease, due, work, busy, faults>>
  BY DEF CreateTask
<1>2. new \in TaskRows
  BY <1>1, AcceptedSchedules DEF TaskRows, SchedulerInv
<1>3. task \in [Tasks -> TaskRows]
  BY DEF SchedulerInv, SchedulerTypeOK
<1>4. task' = [task EXCEPT ![t] = new]
  BY DEF CreateTask
<1>5. new.schedule = s /\ new.enabled = e /\ (e => new.next = NextRun(s, now))
  OBVIOUS
<1> HIDE DEF new
<1>6. task' \in [Tasks -> TaskRows] /\ task'[t] = new /\ \A u \in Tasks \ {t} : task'[u] = task[u]
  BY <1>2, <1>3, <1>4
<1>7. LiveRows' /\ ReadRows' /\ StaleRows' /\ (e => IsOn(s, task'[t].next))
  BY <1>1, <1>5, <1>6, SetTask
<1>8. SchedulerTypeOK'
  BY <1>1, <1>6 DEF SchedulerInv, SchedulerTypeOK
<1> QED BY <1>5, <1>6, <1>7, <1>8 DEF SchedulerInv

LEMMA UpdateTaskStep ==
  ASSUME SchedulerInv, NEW t \in Tasks, NEW s \in Schedules, NEW e \in BOOLEAN, NEW says \in BOOLEAN,
         UpdateTask(t, s, e, says)
  PROVE  /\ SchedulerInv'
         /\ \A u \in Tasks \ {t} : task'[u] = task[u]
         /\ task'[t].schedule = s /\ (task'[t].enabled => IsOn(s, task'[t].next))
<1> DEFINE next == NextOnUpdate(task[t], s, e, says)
           new  == [task[t] EXCEPT !.schedule = s, !.enabled = e, !.next = next]
<1>1. Accepts(s, e) /\ UNCHANGED <<now, runs, lease, due, work, busy, faults>>
  BY DEF UpdateTask
<1>2. task \in [Tasks -> TaskRows] /\ task[t] \in TaskRows
  BY DEF SchedulerInv, SchedulerTypeOK
<1>3. next \in Nat \cup {Never} /\ (e => next = NextRun(s, now))
  <2>1. CASE e
    <3>1. NextRun(s, now) \in Nat
      BY <1>1, <2>1, AcceptedSchedules DEF SchedulerInv
    <3> QED BY <2>1, <3>1 DEF NextOnUpdate
  <2>2. CASE ~e
    <3>1. task[t].next \in Nat \cup {Never}
      BY <1>2, RowFields
    <3> QED BY <2>2, <3>1 DEF NextOnUpdate
  <2> QED BY <2>1, <2>2
<1>4. task' = [task EXCEPT ![t] = new]
  BY <1>2 DEF UpdateTask
<1> HIDE DEF next
<1>5. new \in TaskRows /\ new.schedule = s /\ new.enabled = e /\ new.next = next
  BY <1>2, <1>3 DEF TaskRows
<1> HIDE DEF new
<1>6. task' \in [Tasks -> TaskRows] /\ task'[t] = new /\ \A u \in Tasks \ {t} : task'[u] = task[u]
  BY <1>2, <1>4, <1>5
<1>7. LiveRows' /\ ReadRows' /\ StaleRows' /\ (e => IsOn(s, task'[t].next))
  BY <1>1, <1>3, <1>5, <1>6, SetTask
<1>8. SchedulerTypeOK'
  BY <1>1, <1>6 DEF SchedulerInv, SchedulerTypeOK
<1> QED BY <1>5, <1>6, <1>7, <1>8 DEF SchedulerInv

\* A task that is disabled leaves nothing to follow.
LEMMA DisableStep ==
  ASSUME SchedulerInv, task' \in [Tasks -> TaskRows],
         \A t \in Tasks : task'[t] = task[t] \/ task'[t].enabled = FALSE,
         \A t \in Tasks : task'[t].life = "live" =>
           task[t].life = "live" /\ task'[t].schedule = task[t].schedule,
         UNCHANGED <<now, runs, lease, due, work, busy, faults>>
  PROVE  SchedulerInv'
<1>1. SchedulerTypeOK'
  BY DEF SchedulerInv, SchedulerTypeOK
<1>2. LiveRows'
  BY DEF SchedulerInv, LiveRows
<1>3. ReadRows'
  BY DEF SchedulerInv, ReadRows
<1>4. \A p \in Schedulers : \A r \in due[p] : r.task \in Tasks
  BY DEF SchedulerInv, SchedulerTypeOK, DueRows
<1>5. StaleRows'
  BY <1>4 DEF SchedulerInv, StaleRows
<1> QED BY <1>1, <1>2, <1>3, <1>5 DEF SchedulerInv

LEMMA DeleteTaskStep ==
  ASSUME SchedulerInv, NEW t \in Tasks, DeleteTask(t)
  PROVE  /\ SchedulerInv'
         /\ \A u \in Tasks : task'[u] = task[u] \/ task'[u].enabled = FALSE
<1> DEFINE new == [task[t] EXCEPT !.life = "deleted", !.enabled = FALSE]
<1>1. task \in [Tasks -> TaskRows] /\ task[t] \in TaskRows
  BY DEF SchedulerInv, SchedulerTypeOK
<1>2. task' = [task EXCEPT ![t] = new]
  BY <1>1 DEF DeleteTask
<1>3. new \in TaskRows /\ new.life = "deleted" /\ new.enabled = FALSE
  BY <1>1, RowFields
<1> HIDE DEF new
<1>4. task' \in [Tasks -> TaskRows] /\ task'[t] = new /\ \A u \in Tasks \ {t} : task'[u] = task[u]
  BY <1>1, <1>2, <1>3
<1>5. UNCHANGED <<now, runs, lease, due, work, busy, faults>>
  BY DEF DeleteTask
<1>6. \A u \in Tasks : task'[u] = task[u] \/ task'[u].enabled = FALSE
  BY <1>3, <1>4
<1>7. \A u \in Tasks : task'[u].life = "live" =>
        task[u].life = "live" /\ task'[u].schedule = task[u].schedule
  BY <1>3, <1>4
<1> QED BY <1>4, <1>5, <1>6, <1>7, DisableStep

LEMMA DeleteTargetStep ==
  ASSUME SchedulerInv, DeleteTarget
  PROVE  /\ SchedulerInv'
         /\ \A u \in Tasks : task'[u].enabled = FALSE
<1> DEFINE Off(row) == [row EXCEPT !.enabled = FALSE]
<1>1. \A t \in Tasks : task[t] \in TaskRows
  BY DEF SchedulerInv, SchedulerTypeOK
<1>2. task' = [t \in Tasks |-> Off(task[t])]
  BY DEF DeleteTarget
<1>3. \A t \in Tasks : /\ Off(task[t]) \in TaskRows /\ Off(task[t]).enabled = FALSE
                       /\ Off(task[t]).life = task[t].life
                       /\ Off(task[t]).schedule = task[t].schedule
  BY <1>1, RowFields
<1> HIDE DEF Off
<1>4. task' \in [Tasks -> TaskRows] /\ \A t \in Tasks : task'[t] = Off(task[t])
  BY <1>2, <1>3
<1>5. UNCHANGED <<now, runs, lease, due, work, busy, faults>>
  BY DEF DeleteTarget
<1>6. \A t \in Tasks : task'[t].enabled = FALSE
  BY <1>3, <1>4
<1>7. \A t \in Tasks : task'[t].life = "live" =>
        task[t].life = "live" /\ task'[t].schedule = task[t].schedule
  BY <1>3, <1>4
<1> QED BY <1>4, <1>5, <1>6, <1>7, DisableStep

LEMMA BeginStep ==
  ASSUME SchedulerInv, NEW s \in Schedulers, Begin(s)
  PROVE  SchedulerInv'
<1>1. UNCHANGED <<now, task, runs, work, faults>> /\ lease' = s /\ busy' = busy \cup {s}
  BY DEF Begin
<1> DEFINE rows == {[task |-> t, at |-> task[t].next, schedule |-> task[t].schedule] :
                     t \in {u \in Tasks : IsDue(u)}}
<1>a. PICK chosen \in SUBSET rows : due' = [due EXCEPT ![s] = chosen]
  BY DEF Begin
<1>b. \A r \in rows : \E t \in Tasks :
        IsDue(t) /\ r = [task |-> t, at |-> task[t].next, schedule |-> task[t].schedule]
  OBVIOUS
<1> HIDE DEF rows
<1>2. /\ due' = [due EXCEPT ![s] = chosen]
      /\ \A r \in chosen : \E t \in Tasks :
           IsDue(t) /\ r = [task |-> t, at |-> task[t].next, schedule |-> task[t].schedule]
  BY <1>a, <1>b
<1>3. DOMAIN due = Schedulers
  BY DEF SchedulerInv, SchedulerTypeOK
<1>4. DOMAIN due' = Schedulers /\ due'[s] = chosen /\ \A p \in Schedulers \ {s} : due'[p] = due[p]
  BY <1>2, <1>3
<1>5. ASSUME NEW r \in chosen
      PROVE  /\ r \in DueRows /\ r.at <= now /\ ClockIsValid(r.schedule)
             /\ task[r.task].schedule = r.schedule
  <2>1. PICK t \in Tasks :
          IsDue(t) /\ r = [task |-> t, at |-> task[t].next, schedule |-> task[t].schedule]
    BY <1>2
  <2>2. task[t] \in TaskRows /\ now \in 0 .. MaxTime
    BY DEF SchedulerInv, SchedulerTypeOK, Instants
  <2>3. task[t].next \in Nat /\ task[t].next <= now /\ task[t].schedule \in Schedules
    BY <2>1, <2>2, RowFields DEF IsDue
  <2>4. task[t].next \in Instants
    BY <2>2, <2>3, Basics DEF Instants
  <2>5. ClockIsValid(task[t].schedule)
    BY <2>1 DEF IsDue, SchedulerInv, LiveRows
  <2> QED BY <2>1, <2>3, <2>4, <2>5 DEF DueRows
<1>6. SchedulerTypeOK'
  BY <1>1, <1>4, <1>5 DEF SchedulerInv, SchedulerTypeOK
<1>7. LiveRows'
  BY <1>1 DEF SchedulerInv, LiveRows
<1>8. ReadRows'
  BY <1>1, <1>4, <1>5 DEF SchedulerInv, ReadRows
<1>9. StaleRows'
  BY <1>1, <1>4, <1>5 DEF SchedulerInv, StaleRows
<1> QED BY <1>6, <1>7, <1>8, <1>9 DEF SchedulerInv

\* A claim whose row is not as it was read changes nothing; one whose row is
\* advances the task.
ClaimMoves(r) ==
  /\ task' \in [Tasks -> TaskRows]
  /\ \A u \in Tasks \ {r.task} : task'[u] = task[u]
  /\ task'[r.task].life = task[r.task].life /\ task'[r.task].enabled = task[r.task].enabled
  /\ task'[r.task].schedule = task[r.task].schedule
  /\ task'[r.task].next = NextAfterClaim(r)

LEMMA ClaimChanges ==
  ASSUME SchedulerInv, NEW s \in Schedulers, NEW r \in due[s], Claim(s, r)
  PROVE  /\ IF Claimable(r) THEN ClaimMoves(r) ELSE task' = task
         /\ due'[s] = due[s] \ {r} /\ \A p \in Schedulers \ {s} : due'[p] = due[p]
         /\ DOMAIN due' = Schedulers
         /\ UNCHANGED <<now, lease, busy, faults>>
<1>1. task \in [Tasks -> TaskRows] /\ DOMAIN due = Schedulers
  BY DEF SchedulerInv, SchedulerTypeOK
<1>2. NextAfterClaim(r) # NoRun
  BY DEF Claim
<1>3. r.task \in Tasks /\ NextAfterClaim(r) \in Nat
  BY <1>2, ClaimedRows
<1>4. CASE Claimable(r)
  <2> DEFINE next == NextAfterClaim(r)  t == r.task  new == [task[t] EXCEPT !.next = next]
  <2>1. task' = [task EXCEPT ![t] = new]
    BY <1>4 DEF Claim
  <2> HIDE DEF next
  <2>2. /\ new \in TaskRows /\ new.life = task[t].life /\ new.enabled = task[t].enabled
        /\ new.schedule = task[t].schedule /\ new.next = next
    <3>1. task[t] \in TaskRows /\ next \in Nat
      BY <1>1, <1>3 DEF next
    <3> QED BY <3>1 DEF TaskRows
  <2> HIDE DEF new
  <2>3. task' \in [Tasks -> TaskRows] /\ task'[t] = new /\ \A u \in Tasks \ {t} : task'[u] = task[u]
    BY <1>1, <1>3, <2>1, <2>2
  <2>4. ClaimMoves(r)
    BY <2>2, <2>3 DEF ClaimMoves, next
  <2> QED BY <1>4, <2>4, <1>1 DEF Claim, DueAfter
<1>5. CASE ~Claimable(r)
  BY <1>5, <1>1 DEF Claim, DueAfter
<1> QED BY <1>4, <1>5

LEMMA ClaimStep ==
  ASSUME SchedulerInv, NEW s \in Schedulers, NEW r \in due[s], Claim(s, r)
  PROVE  SchedulerInv'
<1>1. /\ IF Claimable(r) THEN ClaimMoves(r) ELSE task' = task
      /\ due'[s] = due[s] \ {r} /\ \A p \in Schedulers \ {s} : due'[p] = due[p]
      /\ DOMAIN due' = Schedulers /\ UNCHANGED <<now, lease, busy, faults>>
  BY ClaimChanges
<1>2. /\ r.task \in Tasks /\ r.at \in Instants /\ r.at \in Nat /\ NextAfterClaim(r) \in Nat
      /\ NextAfterClaim(r) > r.at \/ \A v \in NextAfterClaim(r) .. r.at : Ambiguous(v)
  <2>1. NextAfterClaim(r) # NoRun
    BY DEF Claim
  <2> QED BY <2>1, ClaimedRows
<1>3. \A p \in Schedulers : \A q \in due'[p] : q \in due[p]
  BY <1>1
<1>4. \A p \in Schedulers : \A q \in due[p] : q \in DueRows /\ q.task \in Tasks /\ q.at \in Nat
  BY Basics DEF SchedulerInv, SchedulerTypeOK, DueRows
<1>5. SchedulerTypeOK'
  <2>1. task' \in [Tasks -> TaskRows]
    BY <1>1 DEF SchedulerInv, SchedulerTypeOK, ClaimMoves
  <2>2. runs' \in [Tasks -> [Instants -> RunStates]]
    <3>1. CASE Starts(r)
      <4>1. runs' = [runs EXCEPT ![r.task][r.at] = "running"]
        BY <3>1 DEF Claim
      <4>2. runs \in [Tasks -> [Instants -> RunStates]] /\ "running" \in RunStates
        BY DEF SchedulerInv, SchedulerTypeOK, RunStates
      <4> QED BY <1>2, <4>1, <4>2
    <3>2. CASE ~Starts(r)
      BY <3>2 DEF Claim, SchedulerInv, SchedulerTypeOK
    <3> QED BY <3>1, <3>2
  <2>3. work' \in [Schedulers -> Works \cup {Never}]
    <3>1. CASE Starts(r)
      <4>1. work' = [work EXCEPT ![s] = [task |-> r.task, at |-> r.at, left |-> Targets, open |-> FALSE]]
        BY <3>1 DEF Claim
      <4>2. [task |-> r.task, at |-> r.at, left |-> Targets, open |-> FALSE] \in Works
        BY <1>2 DEF Works
      <4> QED BY <4>1, <4>2 DEF SchedulerInv, SchedulerTypeOK
    <3>2. CASE ~Starts(r)
      BY <3>2 DEF Claim, SchedulerInv, SchedulerTypeOK
    <3> QED BY <3>1, <3>2
  <2> QED BY <1>1, <1>3, <1>4, <2>1, <2>2, <2>3 DEF SchedulerInv, SchedulerTypeOK
<1>6. LiveRows'
  BY <1>1, <1>2, Basics DEF SchedulerInv, LiveRows, ClaimMoves
<1>7. ReadRows'
  BY <1>1, <1>3 DEF SchedulerInv, ReadRows
<1>8. StaleRows'
  <2> SUFFICES ASSUME NEW p \in Schedulers, NEW q \in due[p],
                      task'[q.task].life = "live", task'[q.task].enabled,
                      task'[q.task].schedule # q.schedule
               PROVE  q.at < task'[q.task].next \/ Ambiguous(q.at)
    BY <1>3 DEF StaleRows
  <2>1. CASE ~(Claimable(r) /\ q.task = r.task)
    <3>1. task'[q.task] = task[q.task]
      BY <1>1, <1>4, <2>1 DEF ClaimMoves
    <3> QED BY <3>1 DEF SchedulerInv, StaleRows
  <2>2. CASE Claimable(r) /\ q.task = r.task
    <3>1. /\ task[q.task].life = "live" /\ task[q.task].enabled
          /\ task[q.task].schedule # q.schedule /\ task'[q.task].next = NextAfterClaim(r)
      BY <1>1, <2>2 DEF ClaimMoves
    <3>2. q.at < r.at \/ Ambiguous(q.at)
      BY <2>2, <3>1 DEF SchedulerInv, StaleRows, Claimable
    <3>3. q.at < NextAfterClaim(r) \/ Ambiguous(q.at)
      BY <1>2, <1>4, <3>2, EarlierOrAmbiguous
    <3> QED BY <3>1, <3>3
  <2> QED BY <2>1, <2>2
<1> QED BY <1>5, <1>6, <1>7, <1>8 DEF SchedulerInv

\* The actions that change no task.
LEMMA QuietStep ==
  ASSUME SchedulerInv, SchedulerTypeOK', task' = task, now <= now',
         \A p \in Schedulers : due'[p] \subseteq due[p]
  PROVE  SchedulerInv'
<1>1. LiveRows'
  BY DEF SchedulerInv, LiveRows
<1>2. ReadRows'
  <2> SUFFICES ASSUME NEW p \in Schedulers, NEW r \in due'[p]
               PROVE  r.at <= now' /\ ClockIsValid(r.schedule)
    BY DEF ReadRows
  <2>1. r \in due[p] /\ r.at \in Nat /\ now \in Nat /\ now' \in Nat
    BY Basics DEF SchedulerInv, SchedulerTypeOK, DueRows
  <2>2. r.at <= now /\ ClockIsValid(r.schedule)
    BY <2>1 DEF SchedulerInv, ReadRows
  <2> QED BY <2>1, <2>2
<1>3. StaleRows'
  BY DEF SchedulerInv, StaleRows
<1> QED BY <1>1, <1>2, <1>3 DEF SchedulerInv

LEMMA WorkFields ==
  ASSUME SchedulerTypeOK, NEW s \in Schedulers, work[s] # Never
  PROVE  /\ work[s] \in Works /\ work[s].task \in Tasks /\ work[s].at \in Instants
         /\ work[s].left \in SUBSET Targets /\ work[s].open \in BOOLEAN
BY DEF SchedulerTypeOK, Works

\* A node of a run is started: the run stays the same one.
LEMMA StartOnStep ==
  ASSUME SchedulerInv, NEW s \in Schedulers, NEW n \in Targets, StartOn(s, n)
  PROVE  /\ SchedulerInv'
         /\ \A p \in Schedulers : /\ work'[p] = Never <=> work[p] = Never
                                  /\ work[p] # Never => work'[p].task = work[p].task
                                                        /\ work'[p].at = work[p].at
<1> DEFINE Started(open) == [work[s] EXCEPT !.left = work[s].left \ {n}, !.open = work[s].open \/ open]
<1>1. work \in [Schedulers -> Works \cup {Never}]
  BY DEF SchedulerInv, SchedulerTypeOK
<1>2. work[s] # Never /\ work[s] \in Works
  BY WorkFields DEF StartOn, SchedulerInv
<1>3. PICK open \in BOOLEAN : work' = [work EXCEPT ![s] = Started(open)]
  BY <1>1 DEF StartOn
<1>4. Started(open).task = work[s].task /\ Started(open).at = work[s].at /\ Started(open) \in Works
  BY <1>2 DEF Works
<1>5. Started(open) # Never
  BY <1>4, Basics
<1> HIDE DEF Started
<1>6. work' \in [Schedulers -> Works \cup {Never}]
  BY <1>1, <1>3, <1>4
<1>7. UNCHANGED <<now, task, runs, lease, due, busy, faults>>
  BY DEF StartOn
<1>8. SchedulerTypeOK'
  BY <1>6, <1>7 DEF SchedulerInv, SchedulerTypeOK
<1>9. SchedulerInv'
  BY <1>7, <1>8, QuietStep DEF SchedulerInv, SchedulerTypeOK, Instants
<1>10. work'[s] = Started(open) /\ \A p \in Schedulers \ {s} : work'[p] = work[p]
  BY <1>1, <1>3
<1> QED BY <1>2, <1>4, <1>5, <1>9, <1>10

LEMMA EndRunStep ==
  ASSUME SchedulerInv, NEW s \in Schedulers, EndRun(s)
  PROVE  SchedulerInv'
<1>1. UNCHANGED <<now, task, lease, due, busy, faults>>
  BY DEF EndRun
<1>2. work[s].task \in Tasks /\ work[s].at \in Instants
  BY WorkFields DEF EndRun, SchedulerInv
<1>3. runs' \in [Tasks -> [Instants -> RunStates]]
  <2>1. PICK end \in RunStates : runs' = [runs EXCEPT ![work[s].task][work[s].at] = end]
    BY DEF EndRun, RunStates
  <2> QED BY <1>2, <2>1 DEF SchedulerInv, SchedulerTypeOK
<1>4. work' \in [Schedulers -> Works \cup {Never}]
  BY DEF EndRun, SchedulerInv, SchedulerTypeOK
<1>5. SchedulerTypeOK'
  BY <1>1, <1>3, <1>4 DEF SchedulerInv, SchedulerTypeOK
<1> QED BY <1>1, <1>5, QuietStep DEF SchedulerInv, SchedulerTypeOK, Instants

LEMMA AbandonStep ==
  ASSUME SchedulerInv, NEW s \in Schedulers, Abandon(s),
         lease' \in Schedulers \cup {"gone", Never}, faults' \in 0 .. MaxFaults
  PROVE  SchedulerInv'
<1>1. UNCHANGED <<now, task, runs>>
  BY DEF Abandon
<1>2. DOMAIN due' = Schedulers /\ \A p \in Schedulers : due'[p] \subseteq due[p]
  BY DEF Abandon, SchedulerInv, SchedulerTypeOK
<1>3. work' \in [Schedulers -> Works \cup {Never}] /\ busy' \subseteq Schedulers
  BY DEF Abandon, SchedulerInv, SchedulerTypeOK
<1>4. SchedulerTypeOK'
  BY <1>1, <1>2, <1>3 DEF SchedulerInv, SchedulerTypeOK
<1> QED BY <1>1, <1>2, <1>4, QuietStep DEF SchedulerInv, SchedulerTypeOK, Instants

LEMMA FaultStep ==
  ASSUME SchedulerInv, NEW s \in Schedulers, Fault(s)
  PROVE  SchedulerInv' /\ faults' = faults + 1
<1>1. Abandon(s) /\ faults' = faults + 1 /\ faults < MaxFaults
  BY DEF Fault
<1>2. faults' \in 0 .. MaxFaults
  BY <1>1, Basics DEF SchedulerInv, SchedulerTypeOK
<1>3. lease' \in Schedulers \cup {"gone", Never}
  BY DEF Fault, SchedulerInv, SchedulerTypeOK
<1> QED BY <1>1, <1>2, <1>3, AbandonStep

LEMMA PoisonedStep ==
  ASSUME SchedulerInv, NEW s \in Schedulers, NEW r \in due[s], Poisoned(s, r)
  PROVE  SchedulerInv' /\ UNCHANGED <<runs, work, faults>>
<1>1. Abandon(s) /\ UNCHANGED <<lease, faults>> /\ work[s] = Never
  BY DEF Poisoned, Visits
<1>2. SchedulerInv'
  BY <1>1, AbandonStep DEF SchedulerInv, SchedulerTypeOK
<1>3. UNCHANGED <<runs, work, faults>>
  BY <1>1 DEF Abandon, SchedulerInv, SchedulerTypeOK
<1> QED BY <1>2, <1>3

LEMMA OtherSteps ==
  ASSUME SchedulerInv,
         \/ \E s \in Schedulers : Sweep(s)
         \/ LeaseExpires \/ Tick \/ UNCHANGED scheduling
  PROVE  SchedulerInv' /\ UNCHANGED <<runs, work, faults>>
<1>1. CASE \E s \in Schedulers : Sweep(s)
  <2>1. SchedulerTypeOK' /\ UNCHANGED <<now, task, due, runs, work, faults>>
    BY <1>1 DEF Sweep, SchedulerInv, SchedulerTypeOK
  <2> QED BY <2>1, QuietStep DEF SchedulerInv, SchedulerTypeOK, Instants
<1>2. CASE LeaseExpires
  <2>1. SchedulerTypeOK' /\ UNCHANGED <<now, task, due, runs, work, faults>>
    BY <1>2 DEF LeaseExpires, SchedulerInv, SchedulerTypeOK
  <2> QED BY <2>1, QuietStep DEF SchedulerInv, SchedulerTypeOK, Instants
<1>3. CASE Tick
  <2>1. now' \in Instants /\ now <= now'
    BY <1>3, Basics DEF Tick, SchedulerInv, SchedulerTypeOK, Instants
  <2>2. SchedulerTypeOK' /\ UNCHANGED <<task, due, runs, work, faults>>
    BY <1>3, <2>1 DEF Tick, SchedulerInv, SchedulerTypeOK
  <2> QED BY <2>1, <2>2, QuietStep
<1>4. CASE UNCHANGED scheduling
  <2>1. SchedulerTypeOK' /\ UNCHANGED <<now, task, due, runs, work, faults>>
    BY <1>4 DEF scheduling, SchedulerInv, SchedulerTypeOK
  <2> QED BY <2>1, QuietStep DEF SchedulerInv, SchedulerTypeOK, Instants
<1> QED BY <1>1, <1>2, <1>3, <1>4

LEMMA SchedulerInvInit == SchedulerInit => SchedulerInv
<1> SUFFICES ASSUME SchedulerInit PROVE SchedulerInv
  OBVIOUS
<1>1. \A t \in Tasks : task[t].life = "unborn" /\ ~task[t].enabled
  BY DEF SchedulerInit
<1>2. task \in [Tasks -> TaskRows]
  BY DEF SchedulerInit, TaskRows
<1>3. SchedulerTypeOK
  BY <1>2, Basics DEF SchedulerInit, SchedulerTypeOK, RunStates
<1>4. LiveRows /\ ReadRows /\ StaleRows
  BY <1>1 DEF SchedulerInit, LiveRows, ReadRows, StaleRows
<1> QED BY <1>3, <1>4 DEF SchedulerInv

LEMMA SchedulerInvNext == SchedulerInv /\ [SchedulerNext]_scheduling => SchedulerInv'
<1> SUFFICES ASSUME SchedulerInv, [SchedulerNext]_scheduling PROVE SchedulerInv'
  OBVIOUS
<1>1. CASE \E t \in Tasks, s \in Schedules, e \in BOOLEAN : CreateTask(t, s, e)
  BY <1>1, CreateTaskStep
<1>2. CASE \E t \in Tasks, s \in Schedules, e \in BOOLEAN, says \in BOOLEAN : UpdateTask(t, s, e, says)
  BY <1>2, UpdateTaskStep
<1>3. CASE \E t \in Tasks : DeleteTask(t)
  BY <1>3, DeleteTaskStep
<1>4. CASE DeleteTarget
  BY <1>4, DeleteTargetStep
<1>5. CASE \E s \in Schedulers : Begin(s)
  BY <1>5, BeginStep
<1>6. CASE \E s \in Schedulers : EndRun(s)
  BY <1>6, EndRunStep
<1>7. CASE \E s \in Schedulers, n \in Targets : StartOn(s, n)
  BY <1>7, StartOnStep
<1>8. CASE \E s \in Schedulers : \E r \in due[s] : Claim(s, r)
  BY <1>8, ClaimStep
<1>9. CASE \E s \in Schedulers : \E r \in due[s] : Poisoned(s, r)
  BY <1>9, PoisonedStep
<1>10. CASE \E s \in Schedulers : Fault(s)
  BY <1>10, FaultStep
<1>11. CASE \/ \E s \in Schedulers : Sweep(s)
            \/ LeaseExpires \/ Tick \/ UNCHANGED scheduling
  BY <1>11, OtherSteps
<1> QED BY <1>1, <1>2, <1>3, <1>4, <1>5, <1>6, <1>7, <1>8, <1>9, <1>10, <1>11
        DEF SchedulerNext, Iteration

\* For any number of tasks, schedulers, schedules and instants the state has its
\* types: the run that is claimed is one of a past instant.
THEOREM SchedulerTypes == SchedulerSpec => []SchedulerTypeOK
<1>1. SchedulerInv => SchedulerTypeOK
  BY DEF SchedulerInv
<1> QED BY <1>1, SchedulerInvInit, SchedulerInvNext, PTL DEF SchedulerSpec

-----------------------------------------------------------------------------
\* The claims.
LEMMA ClaimFollows ==
  ASSUME SchedulerInv, NEW s \in Schedulers, NEW r \in due[s], Claim(s, r), Claimable(r)
  PROVE  /\ r.task \in Tasks /\ task[r.task].next = r.at /\ ClaimMoves(r) /\ IsDue(r.task)
         /\ Ambiguous(r.at) \/
              /\ task'[r.task].next > r.at
              /\ IsNextOf(task[r.task].schedule, r.at, task'[r.task].next)
              /\ IsOn(task'[r.task].schedule, task'[r.task].next)
<1>1. ClaimMoves(r)
  BY ClaimChanges
<1>2. /\ r.task \in Tasks /\ r.at \in Nat /\ NextAfterClaim(r) \in Nat
      /\ IsOn(r.schedule, NextAfterClaim(r)) /\ IsNextOf(r.schedule, r.at, NextAfterClaim(r))
      /\ NextAfterClaim(r) > r.at \/ \A v \in NextAfterClaim(r) .. r.at : Ambiguous(v)
  <2>1. NextAfterClaim(r) # NoRun
    BY DEF Claim
  <2> QED BY <2>1, ClaimedRows
<1>3. /\ task[r.task].next = r.at /\ task[r.task].life = "live" /\ task[r.task].enabled
      /\ task'[r.task].next = NextAfterClaim(r) /\ task'[r.task].schedule = task[r.task].schedule
  BY <1>1 DEF Claimable, ClaimMoves
<1>4. task[r.task].schedule = r.schedule \/ Ambiguous(r.at)
  BY <1>2, <1>3 DEF SchedulerInv, StaleRows
<1>5. NextAfterClaim(r) > r.at \/ Ambiguous(r.at)
  BY <1>2
<1>6. IsDue(r.task)
  BY <1>2, <1>3, Basics DEF IsDue, SchedulerInv, ReadRows
<1>7. CASE Ambiguous(r.at)
  BY <1>1, <1>2, <1>3, <1>6, <1>7
<1>8. CASE ~Ambiguous(r.at)
  BY <1>1, <1>2, <1>3, <1>4, <1>5, <1>6, <1>8
<1> QED BY <1>7, <1>8

LEMMA NoClaim ==
  ASSUME SchedulerInv, [SchedulerNext]_scheduling,
         ~\E s \in Schedulers : \E r \in due[s] : Claim(s, r)
  PROVE  /\ \A t \in Tasks, i \in Instants : ~(runs[t][i] = "none" /\ runs'[t][i] = "running")
         /\ due' # due => task' = task
<1>1. CASE \E t \in Tasks, s \in Schedules, e \in BOOLEAN : CreateTask(t, s, e)
  BY <1>1 DEF CreateTask
<1>2. CASE \E t \in Tasks, s \in Schedules, e \in BOOLEAN, says \in BOOLEAN : UpdateTask(t, s, e, says)
  BY <1>2 DEF UpdateTask
<1>3. CASE \E t \in Tasks : DeleteTask(t)
  BY <1>3 DEF DeleteTask
<1>4. CASE DeleteTarget
  BY <1>4 DEF DeleteTarget
<1>5. CASE \E s \in Schedulers : Begin(s)
  BY <1>5 DEF Begin
<1>6. CASE \E s \in Schedulers : EndRun(s)
  <2>1. PICK s \in Schedulers : EndRun(s)
    BY <1>6
  <2>2. PICK end \in {"dispatched", "completed"} :
          runs' = [runs EXCEPT ![work[s].task][work[s].at] = end]
    BY <2>1 DEF EndRun
  <2>3. runs \in [Tasks -> [Instants -> RunStates]] /\ work[s].task \in Tasks /\ work[s].at \in Instants
    BY <2>1, WorkFields DEF EndRun, SchedulerInv, SchedulerTypeOK
  <2>4. \A t \in Tasks, i \in Instants : runs'[t][i] = runs[t][i] \/ runs'[t][i] # "running"
    BY <2>2, <2>3
  <2> QED BY <2>1, <2>4 DEF EndRun
<1>7. CASE \E s \in Schedulers, n \in Targets : StartOn(s, n)
  BY <1>7 DEF StartOn
<1>9. CASE \E s \in Schedulers : \E r \in due[s] : Poisoned(s, r)
  BY <1>9 DEF Poisoned, Abandon
<1>10. CASE \E s \in Schedulers : Fault(s)
  BY <1>10 DEF Fault, Abandon
<1>11. CASE \/ \E s \in Schedulers : Sweep(s)
            \/ LeaseExpires \/ Tick \/ UNCHANGED scheduling
  BY <1>11 DEF Sweep, LeaseExpires, Tick, scheduling
<1> QED BY <1>1, <1>2, <1>3, <1>4, <1>5, <1>6, <1>7, <1>9, <1>10, <1>11
        DEF SchedulerNext, Iteration

\* A claim moves a task to the soonest later time of its schedule, in any calendar
\* and zone, however late the schedulers are; only a due run of a live task starts.
THEOREM ClaimsAreInOrderHolds == SchedulerSpec => ClaimsAreInOrder
<1> DEFINE Starting(t) == \E i \in Instants : runs[t][i] = "none" /\ runs'[t][i] = "running"
           Moving(t)   == due' # due /\ task'[t] # task[t]
           Forward(t)  == \/ /\ task'[t].next > task[t].next
                             /\ IsNextOf(task[t].schedule, task[t].next, task'[t].next)
                          \/ Ambiguous(task[t].next)
<1>1. ASSUME SchedulerInv, [SchedulerNext]_scheduling, NEW t \in Tasks
      PROVE  /\ Starting(t) => IsDue(t) /\ runs'[t][task[t].next] = "running"
             /\ Starting(t) \/ Moving(t) => Forward(t)
  <2>1. CASE ~\E s \in Schedulers : \E r \in due[s] : Claim(s, r)
    BY <1>1, <2>1, NoClaim
  <2>2. CASE \E s \in Schedulers : \E r \in due[s] : Claim(s, r)
    <3>1. PICK s \in Schedulers : \E r \in due[s] : Claim(s, r)
      BY <2>2
    <3>2. PICK r \in due[s] : Claim(s, r)
      BY <3>1
    <3>3. r.task \in Tasks /\ r.at \in Instants
      BY <1>1 DEF SchedulerInv, SchedulerTypeOK, DueRows
    <3>4. Starting(t) => t = r.task /\ Claimable(r) /\ runs'[t][r.at] = "running"
      <4>1. CASE Starts(r)
        <5>1. runs' = [runs EXCEPT ![r.task][r.at] = "running"]
          BY <3>2, <4>1 DEF Claim
        <5>2. runs \in [Tasks -> [Instants -> RunStates]]
          BY <1>1 DEF SchedulerInv, SchedulerTypeOK
        <5> QED BY <3>3, <4>1, <5>1, <5>2 DEF Starts
      <4>2. CASE ~Starts(r)
        BY <3>2, <4>2 DEF Claim
      <4> QED BY <4>1, <4>2
    <3>5. Moving(t) => t = r.task /\ Claimable(r)
      BY <1>1, <3>2, ClaimChanges DEF ClaimMoves
    <3>6. ASSUME Claimable(r), t = r.task
          PROVE  IsDue(t) /\ task[t].next = r.at /\ Forward(t)
      BY <1>1, <3>2, <3>6, ClaimFollows
    <3> QED BY <3>4, <3>5, <3>6
  <2> QED BY <2>1, <2>2
<1>2. SchedulerInv /\ [SchedulerNext]_scheduling => [\A t \in Tasks : ClaimsInOrder(t)]_scheduling
  BY <1>1 DEF ClaimsInOrder
<1> QED BY <1>2, SchedulerInvInit, SchedulerInvNext, PTL DEF SchedulerSpec, ClaimsAreInOrder

\* A change of an enabled task leaves it a next run of its schedule, whichever
\* row a claim had read; but in an hour that the clocks repeat.
THEOREM NextFollowsScheduleHolds == SchedulerSpec => NextFollowsSchedule
<1>1. ASSUME SchedulerInv, [SchedulerNext]_scheduling, NEW t \in Tasks,
             task'[t] # task[t], task'[t].life = "live", task'[t].enabled
      PROVE  \/ IsOn(task'[t].schedule, task'[t].next)
             \/ task[t].enabled /\ Ambiguous(task[t].next)
  <2>1. CASE \E u \in Tasks, s \in Schedules, e \in BOOLEAN : CreateTask(u, s, e)
    <3>1. PICK u \in Tasks, s \in Schedules, e \in BOOLEAN : CreateTask(u, s, e)
      BY <2>1
    <3> QED BY <1>1, <3>1, CreateTaskStep
  <2>2. CASE \E u \in Tasks, s \in Schedules, e \in BOOLEAN, says \in BOOLEAN : UpdateTask(u, s, e, says)
    <3>1. PICK u \in Tasks, s \in Schedules, e \in BOOLEAN, says \in BOOLEAN : UpdateTask(u, s, e, says)
      BY <2>2
    <3> QED BY <1>1, <3>1, UpdateTaskStep
  <2>3. CASE \E u \in Tasks : DeleteTask(u)
    BY <1>1, <2>3, DeleteTaskStep
  <2>4. CASE DeleteTarget
    BY <1>1, <2>4, DeleteTargetStep
  <2>5. CASE \E s \in Schedulers : \E r \in due[s] : Claim(s, r)
    <3>1. PICK s \in Schedulers : \E r \in due[s] : Claim(s, r)
      BY <2>5
    <3>2. PICK r \in due[s] : Claim(s, r)
      BY <3>1
    <3>3. t = r.task /\ Claimable(r)
      BY <1>1, <3>2, ClaimChanges DEF ClaimMoves
    <3> QED BY <1>1, <3>2, <3>3, ClaimFollows DEF Claimable
  <2>6. CASE task' = task
    BY <1>1, <2>6
  <2>7. CASE \/ \E s \in Schedulers : Begin(s) \/ EndRun(s) \/ Sweep(s) \/ Fault(s)
             \/ \E s \in Schedulers, n \in Targets : StartOn(s, n)
             \/ \E s \in Schedulers : \E r \in due[s] : Poisoned(s, r)
             \/ LeaseExpires \/ Tick \/ UNCHANGED scheduling
    BY <2>6, <2>7 DEF Begin, EndRun, Sweep, Fault, Abandon, StartOn, Poisoned, LeaseExpires, Tick, scheduling
  <2> QED BY <1>1, <2>1, <2>2, <2>3, <2>4, <2>5, <2>7 DEF SchedulerNext, Iteration
<1>2. SchedulerInv /\ [SchedulerNext]_scheduling => [\A t \in Tasks : KeepsToSchedule(t)]_scheduling
  BY <1>1 DEF KeepsToSchedule
<1> QED BY <1>2, SchedulerInvInit, SchedulerInvNext, PTL DEF SchedulerSpec, NextFollowsSchedule

-----------------------------------------------------------------------------
\* Who works on what.
RunOf(s) == <<work[s].task, work[s].at>>

Orphans ==
  {r \in Tasks \X Instants :
     /\ runs[r[1]][r[2]] = "running"
     /\ \A s \in Schedulers : work[s] # Never => RunOf(s) # r}

WorkIsRunning == \A s \in Schedulers : work[s] # Never => runs[work[s].task][work[s].at] = "running"

WorkIsApart ==
  \A s, p \in Schedulers : s # p /\ work[s] # Never /\ work[p] # Never => RunOf(s) # RunOf(p)

FewOrphans == Cardinality(Orphans) <= faults

LEMMA StartersSplit == RunsHaveOneStarter <=> WorkIsRunning /\ WorkIsApart /\ FewOrphans
BY DEF RunsHaveOneStarter, WorkIsRunning, WorkIsApart, FewOrphans, Orphans, RunOf

LEMMA OrphansFinite == IsFiniteSet(Orphans) /\ Cardinality(Orphans) \in Nat
<1>1. IsFiniteSet(Tasks) /\ IsFiniteSet(Instants)
  BY TaskSchedulerAssumption, FS_Interval DEF Instants
<1>2. IsFiniteSet(Tasks \X Instants)
  BY <1>1, FS_Product
<1> QED BY <1>2, FS_Subset, FS_CardinalityType DEF Orphans

LEMMA NoNewOrphans ==
  ASSUME FewOrphans, Orphans' \subseteq Orphans, faults' = faults, faults \in Nat
  PROVE  FewOrphans'
<1>1. Cardinality(Orphans') <= Cardinality(Orphans) /\ Cardinality(Orphans') \in Nat
  BY OrphansFinite, FS_Subset, FS_CardinalityType
<1> QED BY <1>1, OrphansFinite DEF FewOrphans

LEMMA RunsKept ==
  ASSUME SchedulerTypeOK, RunsHaveOneStarter, UNCHANGED <<runs, faults>>,
         \A p \in Schedulers : /\ work'[p] = Never <=> work[p] = Never
                               /\ work[p] # Never => work'[p].task = work[p].task
                                                     /\ work'[p].at = work[p].at
  PROVE  RunsHaveOneStarter'
<1>1. WorkIsRunning /\ WorkIsApart /\ FewOrphans
  BY StartersSplit
<1>2. WorkIsRunning' /\ WorkIsApart'
  BY <1>1 DEF WorkIsRunning, WorkIsApart, RunOf
<1>3. Orphans' \subseteq Orphans
  BY DEF Orphans, RunOf
<1>4. FewOrphans'
  BY <1>1, <1>3, NoNewOrphans DEF SchedulerTypeOK
<1> QED BY <1>2, <1>4, StartersSplit, PTL

LEMMA EndRunKeepsStarters ==
  ASSUME SchedulerInv, RunsHaveOneStarter, NEW s \in Schedulers, EndRun(s)
  PROVE  RunsHaveOneStarter'
<1>1. WorkIsRunning /\ WorkIsApart /\ FewOrphans
  BY StartersSplit
<1>2. PICK end \in {"dispatched", "completed"} :
        runs' = [runs EXCEPT ![work[s].task][work[s].at] = end]
  BY DEF EndRun
<1>3. /\ runs \in [Tasks -> [Instants -> RunStates]]
      /\ work[s].task \in Tasks /\ work[s].at \in Instants /\ work[s] # Never
  BY WorkFields DEF EndRun, SchedulerInv, SchedulerTypeOK
<1>4. /\ work'[s] = Never /\ \A p \in Schedulers \ {s} : work'[p] = work[p]
      /\ faults' = faults /\ faults \in Nat
  BY DEF EndRun, SchedulerInv, SchedulerTypeOK
<1>5. /\ runs'[work[s].task][work[s].at] = end
      /\ \A t \in Tasks, i \in Instants : <<t, i>> # RunOf(s) => runs'[t][i] = runs[t][i]
  BY <1>2, <1>3 DEF RunOf
<1>6. WorkIsRunning'
  <2> SUFFICES ASSUME NEW p \in Schedulers, work'[p] # Never
               PROVE  runs'[work'[p].task][work'[p].at] = "running"
    BY DEF WorkIsRunning
  <2>1. p # s /\ work'[p] = work[p]
    BY <1>4
  <2>2. work[p].task \in Tasks /\ work[p].at \in Instants
    BY <2>1, WorkFields DEF SchedulerInv
  <2>3. RunOf(p) # RunOf(s)
    BY <1>1, <1>3, <2>1 DEF WorkIsApart
  <2> QED BY <1>1, <1>5, <2>1, <2>2, <2>3 DEF WorkIsRunning, RunOf
<1>7. WorkIsApart'
  BY <1>1, <1>4 DEF WorkIsApart, RunOf
<1>8. Orphans' \subseteq Orphans
  <2> SUFFICES ASSUME NEW r \in Orphans' PROVE r \in Orphans
    OBVIOUS
  <2>1. /\ r \in Tasks \X Instants /\ runs'[r[1]][r[2]] = "running"
        /\ \A p \in Schedulers : work'[p] # Never => RunOf(p)' # r
    BY DEF Orphans
  <2>2. r # RunOf(s) /\ r = <<r[1], r[2]>> /\ r[1] \in Tasks /\ r[2] \in Instants
    BY <1>2, <1>3, <1>5, <2>1 DEF RunOf
  <2>3. runs[r[1]][r[2]] = "running"
    BY <1>5, <2>1, <2>2
  <2>4. \A p \in Schedulers : work[p] # Never => RunOf(p) # r
    BY <1>4, <2>1, <2>2 DEF RunOf
  <2> QED BY <2>1, <2>3, <2>4 DEF Orphans
<1>9. FewOrphans'
  BY <1>1, <1>4, <1>8, NoNewOrphans
<1> QED BY <1>6, <1>7, <1>9, StartersSplit, PTL

\* A claim starts a run that nobody works on: it was not 'running'.
LEMMA ClaimKeepsStarters ==
  ASSUME SchedulerInv, RunsHaveOneStarter, NEW s \in Schedulers, NEW r \in due[s], Claim(s, r)
  PROVE  RunsHaveOneStarter'
<1>1. WorkIsRunning /\ WorkIsApart /\ FewOrphans
  BY StartersSplit
<1>2. CASE ~Starts(r)
  BY <1>2, RunsKept DEF Claim, SchedulerInv
<1>3. CASE Starts(r)
  <2> DEFINE new == [task |-> r.task, at |-> r.at, left |-> Targets, open |-> FALSE]
  <2>1. /\ runs' = [runs EXCEPT ![r.task][r.at] = "running"]
        /\ work' = [work EXCEPT ![s] = new]
        /\ work[s] = Never /\ faults' = faults
    BY <1>3 DEF Claim, Visits
  <2>2. /\ r.task \in Tasks /\ r.at \in Instants /\ runs[r.task][r.at] = "none"
        /\ runs \in [Tasks -> [Instants -> RunStates]] /\ faults \in Nat
        /\ work \in [Schedulers -> Works \cup {Never}]
    BY <1>3 DEF Starts, SchedulerInv, SchedulerTypeOK, DueRows
  <2>3. new.task = r.task /\ new.at = r.at /\ new \in Works
    BY <2>2 DEF Works
  <2>4. new # Never
    BY <2>3, Basics
  <2> HIDE DEF new
  <2>5. /\ work'[s] = new /\ \A p \in Schedulers \ {s} : work'[p] = work[p]
        /\ runs'[r.task][r.at] = "running"
        /\ \A t \in Tasks, i \in Instants : <<t, i>> # <<r.task, r.at>> => runs'[t][i] = runs[t][i]
    BY <2>1, <2>2
  <2>6. ASSUME NEW p \in Schedulers \ {s}, work[p] # Never
        PROVE  /\ RunOf(p) # <<r.task, r.at>> /\ work[p].task \in Tasks /\ work[p].at \in Instants
               /\ runs[work[p].task][work[p].at] = "running"
    <3>1. work[p].task \in Tasks /\ work[p].at \in Instants
      BY <2>6, WorkFields DEF SchedulerInv
    <3>2. runs[work[p].task][work[p].at] = "running"
      BY <1>1, <2>6 DEF WorkIsRunning
    <3> QED BY <2>2, <3>1, <3>2 DEF RunOf
  <2>7. WorkIsRunning'
    BY <2>3, <2>5, <2>6 DEF WorkIsRunning, RunOf
  <2>8. WorkIsApart'
    BY <1>1, <2>3, <2>5, <2>6 DEF WorkIsApart, RunOf
  <2>9. Orphans' \subseteq Orphans
    <3> SUFFICES ASSUME NEW q \in Orphans' PROVE q \in Orphans
      OBVIOUS
    <3>1. /\ q \in Tasks \X Instants /\ runs'[q[1]][q[2]] = "running"
          /\ \A p \in Schedulers : work'[p] # Never => RunOf(p)' # q
      BY DEF Orphans
    <3>2. q # <<r.task, r.at>>
      BY <2>3, <2>4, <2>5, <3>1 DEF RunOf
    <3>3. runs[q[1]][q[2]] = "running"
      BY <2>5, <3>1, <3>2
    <3>4. \A p \in Schedulers : work[p] # Never => RunOf(p) # q
      BY <2>1, <2>5, <3>1 DEF RunOf
    <3> QED BY <3>1, <3>3, <3>4 DEF Orphans
  <2>10. FewOrphans'
    BY <1>1, <2>1, <2>2, <2>9, NoNewOrphans
  <2> QED BY <2>7, <2>8, <2>10, StartersSplit, PTL
<1> QED BY <1>2, <1>3

\* A scheduler that stops leaves one run at most.
LEMMA FaultKeepsStarters ==
  ASSUME SchedulerInv, RunsHaveOneStarter, NEW s \in Schedulers, Fault(s)
  PROVE  RunsHaveOneStarter'
<1>1. WorkIsRunning /\ WorkIsApart /\ FewOrphans
  BY StartersSplit
<1>2. /\ work'[s] = Never /\ \A p \in Schedulers \ {s} : work'[p] = work[p]
      /\ runs' = runs /\ faults' = faults + 1 /\ faults \in Nat
  BY DEF Fault, Abandon, SchedulerInv, SchedulerTypeOK
<1>3. WorkIsRunning' /\ WorkIsApart'
  BY <1>1, <1>2 DEF WorkIsRunning, WorkIsApart, RunOf
<1>4. Orphans' \subseteq Orphans \cup {RunOf(s)}
  BY <1>2 DEF Orphans, RunOf
<1>5. /\ IsFiniteSet(Orphans \cup {RunOf(s)})
      /\ Cardinality(Orphans \cup {RunOf(s)}) <= Cardinality(Orphans) + 1
      /\ Cardinality(Orphans \cup {RunOf(s)}) \in Nat
  <2>1. Orphans \cup {RunOf(s)} = Orphans \/ Cardinality(Orphans \cup {RunOf(s)}) = Cardinality(Orphans) + 1
    <3>1. CASE RunOf(s) \in Orphans
      BY <3>1
    <3>2. CASE RunOf(s) \notin Orphans
      BY <3>2, OrphansFinite, FS_AddElement
    <3> QED BY <3>1, <3>2
  <2>2. IsFiniteSet(Orphans \cup {RunOf(s)})
    BY OrphansFinite, FS_AddElement
  <2>3. Cardinality(Orphans) \in Nat
    BY OrphansFinite
  <2>4. CASE Orphans \cup {RunOf(s)} = Orphans
    BY <2>2, <2>3, <2>4
  <2>5. CASE Cardinality(Orphans \cup {RunOf(s)}) = Cardinality(Orphans) + 1
    BY <2>2, <2>3, <2>5
  <2> QED BY <2>1, <2>4, <2>5
<1>6. Cardinality(Orphans') <= Cardinality(Orphans \cup {RunOf(s)}) /\ Cardinality(Orphans') \in Nat
  BY <1>4, <1>5, FS_Subset, FS_CardinalityType
<1>7. FewOrphans'
  BY <1>1, <1>2, <1>5, <1>6, OrphansFinite DEF FewOrphans
<1> QED BY <1>3, <1>7, StartersSplit, PTL

\* No two schedulers start one run, and every run left 'running' by nobody was
\* left by a crash or a failed iteration of its own, for any number of schedulers.
THEOREM RunsHaveOneStarterHolds == SchedulerSpec => []RunsHaveOneStarter
<1>1. SchedulerInit => RunsHaveOneStarter
  <2> SUFFICES ASSUME SchedulerInit PROVE RunsHaveOneStarter
    OBVIOUS
  <2>1. WorkIsRunning /\ WorkIsApart
    BY DEF SchedulerInit, WorkIsRunning, WorkIsApart
  <2>2. Orphans = {}
    BY DEF SchedulerInit, Orphans
  <2>3. FewOrphans
    BY <2>2, FS_EmptySet DEF SchedulerInit, FewOrphans
  <2> QED BY <2>1, <2>3, StartersSplit
<1>2. ASSUME SchedulerInv, RunsHaveOneStarter, [SchedulerNext]_scheduling
      PROVE  RunsHaveOneStarter'
  <2>1. CASE \E s \in Schedulers : EndRun(s)
    BY <1>2, <2>1, EndRunKeepsStarters
  <2>2. CASE \E s \in Schedulers : \E r \in due[s] : Claim(s, r)
    BY <1>2, <2>2, ClaimKeepsStarters
  <2>3. CASE \E s \in Schedulers : Fault(s)
    BY <1>2, <2>3, FaultKeepsStarters
  <2>4. CASE \E s \in Schedulers, n \in Targets : StartOn(s, n)
    <3>1. PICK s \in Schedulers, n \in Targets : StartOn(s, n)
      BY <2>4
    <3>2. UNCHANGED <<runs, faults>>
      BY <3>1 DEF StartOn
    <3> QED BY <1>2, <3>1, <3>2, StartOnStep, RunsKept DEF SchedulerInv
  <2>5. CASE UNCHANGED <<runs, work, faults>>
    BY <1>2, <2>5, RunsKept DEF SchedulerInv
  <2>6. CASE \/ \E t \in Tasks, s \in Schedules, e \in BOOLEAN :
                  CreateTask(t, s, e) \/ \E says \in BOOLEAN : UpdateTask(t, s, e, says)
             \/ \E t \in Tasks : DeleteTask(t)
             \/ DeleteTarget \/ LeaseExpires \/ Tick \/ UNCHANGED scheduling
             \/ \E s \in Schedulers : Begin(s) \/ Sweep(s)
    BY <2>5, <2>6 DEF CreateTask, UpdateTask, DeleteTask, DeleteTarget, LeaseExpires, Tick, scheduling, Begin, Sweep
  <2>7. CASE \E s \in Schedulers : \E r \in due[s] : Poisoned(s, r)
    BY <1>2, <2>5, <2>7, PoisonedStep
  <2> QED BY <1>2, <2>1, <2>2, <2>3, <2>4, <2>6, <2>7 DEF SchedulerNext, Iteration
<1>3. SchedulerInv /\ RunsHaveOneStarter /\ [SchedulerNext]_scheduling => RunsHaveOneStarter'
  BY <1>2
<1> QED BY <1>1, <1>3, SchedulerInvInit, SchedulerInvNext, PTL DEF SchedulerSpec
=============================================================================
