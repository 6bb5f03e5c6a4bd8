\* Two automations, two tasks, edits, arming and pausing in between, one restart, no clock and no
\* operator's run.
SPECIFICATION Spec
CONSTANTS
  t1 = t1
  t2 = t2
  plan1 = plan1
  plan2 = plan2
  None = None
  Autos <- MCAutos
  Plans = {plan1, plan2}
  Composed = {plan2}
  Outcomes = {"completed"}
  Triggers <- MCTriggers
  Drafts <- MCDrafts
  Moves = {"active", "paused"}
  MaxVersions = 3
  Events <- MCEvents
  ManualKeys = {}
  Minute = 1
  MaxTime = 0
  Tasks = {t1, t2}
  MaxRestarts = 1
CHECK_DEADLOCK FALSE
INVARIANTS
  EventsReachTheirOwnOnce
PROPERTIES
  VersionsArePinned
  OnlyArmedStarts
