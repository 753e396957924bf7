--------------------------- MODULE ScheduleTimes ---------------------------
(***************************************************************************)
(* When a task runs next: next_run, validate_schedule and the fallback     *)
(* cron of server/app/scheduler.py, as operators.                          *)
(*                                                                         *)
(* An instant is a number of slots of UTC time (the code counts minutes),  *)
(* a wall time the same number plus the offset of a zone at that instant.  *)
(* The calendar is a parameter: the code's one has 1440 slots a day and 7  *)
(* days a week; months are left out and a day of the month is its number   *)
(* modulo DaysPerMonth.                                                    *)
(***************************************************************************)
EXTENDS Integers, FiniteSetsExt

CONSTANTS
  SlotsPerDay, DaysPerWeek, DaysPerMonth,
  Window,     \* slots the fallback cron searches (two years of minutes)
  NoRun       \* what stands for a raised ScheduleValidationError

ASSUME ScheduleTimesAssumption ==
  /\ {SlotsPerDay, DaysPerWeek, DaysPerMonth, Window} \subseteq Nat \ {0}
  /\ NoRun \notin Int

DayOf(w)     == w \div SlotsPerDay
SlotOf(w)    == w % SlotsPerDay
Weekday(w)   == DayOf(w) % DaysPerWeek
DayOfMonth(w) == DayOf(w) % DaysPerMonth

\* A zone changes its offset at one instant (zone.shift).  ZoneInfo takes a wall
\* time that happens twice as the first one (fold = 0) and one that is skipped as
\* if the change had not happened yet.
WallOf(zone, u) == u + (IF u < zone.shift THEN zone.before ELSE zone.after)

InstantOf(zone, w) ==
  IF w - zone.before >= zone.shift /\ w - zone.after >= zone.shift
  THEN w - zone.after ELSE w - zone.before

-----------------------------------------------------------------------------
\* A cron field is a set of ranges with a step, empty for "*"; "*/2" is a range.
AnyValue == {}

InField(field, x) ==
  field = AnyValue \/ \E r \in field : x \in r.from .. r.to /\ (x - r.from) % r.step = 0

FieldIsValid(field, max) ==
  field = AnyValue \/ \A r \in field : r.step >= 1 /\ 0 <= r.from /\ r.from <= r.to /\ r.to <= max

\* A day matches either of the two day fields when both restrict it.
CronMatches(s, w) ==
  LET day     == InField(s.day, DayOfMonth(w))
      weekday == InField(s.weekday, Weekday(w))
  IN /\ InField(s.slot, SlotOf(w))
     /\ IF s.day # AnyValue /\ s.weekday # AnyValue THEN day \/ weekday ELSE day /\ weekday

\* Mutant of CronNext: the search begins at the reference itself.
CronNextInclusive(s, w) ==
  LET found == {x \in w .. w + Window : CronMatches(s, x)}
  IN IF found = {} THEN NoRun ELSE Min(found)

\* The first matching wall time after w, minute by minute within the window.
CronNext(s, w) ==
  LET found == {x \in w + 1 .. w + Window : CronMatches(s, x)}
  IN IF found = {} THEN NoRun ELSE Min(found)

-----------------------------------------------------------------------------
\* daily and weekly: the clock time today or on one of the days of the next week
\* (range(0, 8)), if it is still to come.  Wall times of one zone are compared as such.
ClockNext(s, w) ==
  LET days  == {DayOf(w) + d : d \in 0 .. DaysPerWeek}
      found == {x \in {d * SlotsPerDay + s.clock : d \in days} :
                  x > w /\ (s.type = "weekly" => Weekday(x) = s.weekday)}
  IN IF found = {} THEN NoRun ELSE Min(found)

\* next_run(schedule, after)
NextRun(s, after) ==
  LET w == WallOf(s.zone, after)
      x == IF s.type = "cron" THEN CronNext(s, w) ELSE ClockNext(s, w)
  IN IF x = NoRun THEN NoRun ELSE InstantOf(s.zone, x)

\* validate_schedule at the instant now.
IsValidSchedule(s, now) ==
  CASE s.type = "daily"  -> s.clock \in 0 .. SlotsPerDay - 1
    [] s.type = "weekly" -> s.clock \in 0 .. SlotsPerDay - 1 /\ s.weekday \in 0 .. DaysPerWeek - 1
    [] OTHER -> /\ FieldIsValid(s.slot, SlotsPerDay - 1)
                /\ FieldIsValid(s.day, DaysPerMonth - 1)
                /\ FieldIsValid(s.weekday, DaysPerWeek - 1)
                /\ CronNext(s, now) # NoRun

-----------------------------------------------------------------------------
\* The reference: what a schedule says of a wall time, whatever the search.
OnSchedule(s, w) ==
  CASE s.type = "daily"  -> SlotOf(w) = s.clock
    [] s.type = "weekly" -> SlotOf(w) = s.clock /\ Weekday(w) = s.weekday
    [] OTHER             -> CronMatches(s, w)
=============================================================================
