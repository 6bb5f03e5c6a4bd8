\* Two automations, two tasks, edits and arming in between, operators' runs, no restart.
SPECIFICATION FairSpec
CONSTANTS
  t1 = t1
  t2 = t2
  plan1 = plan1
  plan2 = plan2
  None = None
  Autos <- MCAutos
  Plans = {plan1, plan2}
  Composed = {plan2}
  Outcomes = {"completed"}
  Triggers <- MCTriggers
  Drafts <- MCTimed
  Moves = {"active"}
  MaxVersions = 2
  Events <- MCOneEvent
  ManualKeys = {"m"}
  Minute = 1
  MaxTime = 1
  Tasks = {t1, t2}
  MaxRestarts = 0
CHECK_DEADLOCK FALSE
INVARIANTS
  WalkedOnce
PROPERTIES
  OnlyArmedStarts
  SchedulesAreKept
  EventsAreServed
