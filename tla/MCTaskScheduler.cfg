SPECIFICATION FairSchedulerSpec
CONSTANTS
  SlotsPerDay = 2
  DaysPerWeek = 4
  DaysPerMonth = 8
  Window = 4
  NoRun = NoRun
  Tasks = {t1}
  Schedulers = {s1, s2}
  Schedules <- MCSchedules
  Targets = {n1}
  DueLimit = 1
  Start = 2
  MaxTime = 5
  MaxFaults = 1
  Never = Never
INVARIANT RunsHaveOneStarter
PROPERTY NextFollowsSchedule
PROPERTY ClaimsAreInOrder
PROPERTY DueIsClaimed
PROPERTY SweepsGoOn
