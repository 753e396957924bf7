-------------------------- MODULE MCTaskScheduler --------------------------
(***************************************************************************)
(* TaskScheduler in a calendar of two slots a day and four days a week.    *)
(* The clock starts at 2, in the second pass of the two slots that Fall    *)
(* repeats.  Cron runs on days 1 and 2; then its next day is beyond the    *)
(* window.                                                                 *)
(***************************************************************************)
EXTENDS TaskScheduler

Fall    == [shift |-> 2, before |-> 2, after |-> 0]
Only(x) == {[from |-> x, to |-> x, step |-> 1]}

Weekly == [type |-> "weekly", zone |-> Fall, clock |-> 1, weekday |-> 1]
Cron   == [type |-> "cron", zone |-> Fall, slot |-> AnyValue, day |-> Only(2), weekday |-> Only(1)]

MCSchedules == {Weekly, Cron}
=============================================================================
