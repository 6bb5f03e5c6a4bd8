------------------------------- MODULE Dispatch -------------------------------
(***************************************************************************)
(* The dispatcher and the scheduler of the control plane: what turns an    *)
(* event, a clock tick or an operator's request into runs of automations.  *)
(*                                                                         *)
(* All handlers share one event loop, so a handler is interrupted only     *)
(* where it awaits: while a plan is being walked.  A task that serves an   *)
(* event or a tick reads the armed versions once, then fires them one after*)
(* the other and waits for each run; meanwhile versions are registered,    *)
(* armed and disarmed, and other tasks fire.  A fire reads the automation  *)
(* anew and takes its latest version.                                      *)
(***************************************************************************)
EXTENDS AutomationRegistry, FiniteSets

CONSTANTS
  Events,       \* what adapters push: [id, ws, verb, own]
  ManualKeys,   \* idempotency keys of operators' requests
  Composed,     \* the plans of kind "composed"
  Outcomes,     \* how walking a plan may end
  Minute,       \* clock units in a minute
  MaxTime,      \* bound: the clock
  Tasks,        \* tasks of the event loop that may be busy at one time
  MaxRestarts,  \* bound: restarts of the control plane
  None

\* own: the event was caused by a run of the control plane itself, which its
\* grant tells.
EventTriggers == [kind : {"event"}, on : {e.verb : e \in Events}]
IntervalTriggers == [kind : {"interval"}, every : Nat \ {0}]
CronTriggers == [kind : {"cron"}, minutes : SUBSET Nat]
ManualTrigger == [kind |-> "manual"]

\* What starts a fire.  The scheduler takes the time once per tick.
Causes ==
  [kind : {"event"}, event : Events]
    \cup [kind : {"tick"}, now : 0..MaxTime]
    \cup [kind : {"manual"}, key : ManualKeys]

FireKeys ==
  ({"event"} \X {e.id : e \in Events})
    \cup ({"schedule"} \X (0..MaxTime))
    \cup ({"manual"} \X ManualKeys)

ASSUME DispatchAssumption ==
  /\ \A a \in Autos : a[1] \in Nat /\ a[2] \in Nat
  /\ Triggers \subseteq EventTriggers \cup IntervalTriggers \cup CronTriggers
                          \cup {ManualTrigger}
  /\ Composed \subseteq Plans
  /\ Outcomes \subseteq {"completed", "compensated", "blocked", "failed"}
  /\ Minute \in Nat \ {0}
  /\ MaxTime \in Nat
  /\ MaxRestarts \in Nat

\* A run id is made of the automation's id, the version and the fire key; the
\* workspace is not part of it.
RunIds == {a[2] : a \in Autos} \X (1..MaxVersions) \X FireKeys

RunId(a, v, key) == <<a[2], v, key>>

VARIABLES
  clock,
  stored,   \* events in the ledger
  task,     \* the event loop's tasks
  runs,     \* the automation_runs table
  walks,    \* history: how often a run's plan was walked; 2 is "2 or more"
  restarts,
  revived   \* history: automations of which a superseded version was armed once

dispatch == <<clock, stored, task, runs, walks, restarts>>
vars == <<rows, revived, dispatch>>

Run == [auto : Autos, cause : Causes, state : Outcomes \cup {"failed", "running"},
        at : 0..MaxTime]

ASSUME NoneAssumption == None \notin Run \cup RunIds \cup Causes

Free == [pc |-> "free", cause |-> None, todo |-> {}, run |-> None]

Armed == {p \in Autos \X (1..MaxVersions) :
            p[2] <= Latest(p[1]) /\ rows[p[1]][p[2]].state = "active"}

TypeOK ==
  /\ RegistryTypeOK
  /\ clock \in 0..MaxTime
  /\ stored \subseteq Events
  /\ task \in [Tasks ->
       [pc : {"free", "new", "walk"}, cause : Causes \cup {None},
        todo : SUBSET (Autos \X (1..MaxVersions)), run : RunIds \cup {None}]]
  /\ \A t \in Tasks : task[t].pc = "walk" => runs[task[t].run] # None
  /\ runs \in [RunIds -> Run \cup {None}]
  /\ walks \in [RunIds -> 0..2]
  /\ restarts \in 0..MaxRestarts
  /\ revived \subseteq Autos

Init ==
  /\ RegistryInit
  /\ clock = 0
  /\ stored = {}
  /\ task = [t \in Tasks |-> Free]
  /\ runs = [r \in RunIds |-> None]
  /\ walks = [r \in RunIds |-> 0]
  /\ restarts = 0
  /\ revived = {}

-----------------------------------------------------------------------------
(* Triggers.                                                                *)

RunsOf(a) == {r \in RunIds : runs[r] # None /\ runs[r].auto = a}

\* Mutant of LastStart: the history is read oldest first.
LastStart_Oldest(a) ==
  CHOOSE n \in {runs[r].at : r \in RunsOf(a)} :
    \A r \in RunsOf(a) : n <= runs[r].at

\* When the newest run of an automation, of any version and cause, started.
LastStart(a) ==
  CHOOSE n \in {runs[r].at : r \in RunsOf(a)} :
    \A r \in RunsOf(a) : runs[r].at <= n

MinuteOf(n) == n \div Minute

Due(trigger, a, now) ==
  \/ /\ trigger.kind = "interval"
     /\ RunsOf(a) # {} => now - LastStart(a) >= trigger.every
  \/ /\ trigger.kind = "cron"
     /\ MinuteOf(now) \in trigger.minutes
     /\ RunsOf(a) # {} => MinuteOf(LastStart(a)) < MinuteOf(now)

EventMatches(trigger, a, e) ==
  /\ a[1] = e.ws
  /\ trigger.kind = "event"
  /\ trigger.on = e.verb

\* Mutant of Wanted: whoever listens to the verb gets the event.
Wanted_AnyWorkspace(cause, a, v) ==
  LET trigger == rows[a][v].trigger IN
  \/ /\ cause.kind = "event"
     /\ trigger.kind = "event"
     /\ trigger.on = cause.event.verb
  \/ cause.kind = "tick" /\ Due(trigger, a, cause.now)
  \/ cause.kind = "manual"

Wanted(cause, a, v) ==
  LET trigger == rows[a][v].trigger IN
  \/ cause.kind = "event" /\ EventMatches(trigger, a, cause.event)
  \/ cause.kind = "tick" /\ Due(trigger, a, cause.now)
  \/ cause.kind = "manual"

\* A cron fire is keyed by the minute, any other scheduled one by the time.
FireKey(cause, trigger) ==
  CASE cause.kind = "event" -> <<"event", cause.event.id>>
    [] cause.kind = "tick" ->
         <<"schedule", IF trigger.kind = "cron" THEN MinuteOf(cause.now) * Minute
                                                ELSE cause.now>>
    [] cause.kind = "manual" -> <<"manual", cause.key>>
-----------------------------------------------------------------------------
(* Firing.                                                                  *)

\* The run that firing the row <<a, v>> asks for: one of the latest version.
RunFor(cause, a, v) ==
  RunId(a, Latest(a), FireKey(cause, rows[a][v].trigger))

\* Mutant of Accepted: the row that was read with the others is fired unread.
Accepted_AsRead(cause, a, v) == Wanted(cause, a, v)

\* The fire is neither refused nor for somebody else.
Accepted(cause, a, v) ==
  /\ Wanted(cause, a, v)
  /\ rows[a][Latest(a)].state = "active"

\* Mutant of Starts: a run id that is taken is walked again.
Starts_Again(cause, a, v) == Accepted(cause, a, v)

Starts(cause, a, v) ==
  Accepted(cause, a, v) /\ runs[RunFor(cause, a, v)] = None

\* The order of active_automations.
Before(p, q) ==
  \/ p[1][1] < q[1][1]
  \/ p[1][1] = q[1][1] /\ p[1][2] < q[1][2]

Again(n) == IF n = 0 THEN 1 ELSE 2

\* Task t goes through todo up to the first row that starts a run, which it then
\* awaits; before is the runs table with the last run closed.
Proceed(t, cause, todo, before) ==
  \/ \E p \in todo :
       LET r == RunFor(cause, p[1], p[2])
           passed == {q \in todo : Before(q, p)}
       IN
       /\ Starts(cause, p[1], p[2])
       /\ \A q \in passed : ~Starts(cause, q[1], q[2])
       /\ runs' = [before EXCEPT ![r] =
            [auto |-> p[1], cause |-> cause, state |-> "running", at |-> clock]]
       /\ walks' = [walks EXCEPT ![r] = Again(@)]
       /\ task' = [task EXCEPT ![t] =
            [pc |-> "walk", cause |-> cause, todo |-> todo \ (passed \cup {p}),
             run |-> r]]
  \/ /\ \A p \in todo : ~Starts(cause, p[1], p[2])
     /\ runs' = before
     /\ task' = [task EXCEPT ![t] = Free]
     /\ UNCHANGED walks

\* A new task; which of the free ones it is makes no difference.
Spawned(t) == t = CHOOSE u \in Tasks : task[u].pc = "free"

\* POST /events/ingest: an event that is new to the ledger is stored and a task
\* to dispatch it is created.  Deliveries are at least once.
Ingest(t, e) ==
  /\ task[t].pc = "free" /\ Spawned(t)
  /\ e \notin stored
  /\ stored' = stored \cup {e}
  /\ task' = [task EXCEPT ![t] =
       [pc |-> "new", cause |-> [kind |-> "event", event |-> e], todo |-> {},
        run |-> None]]
  /\ UNCHANGED <<rows, revived, clock, runs, walks, restarts>>

\* dispatch_event starts: the loop guard, then the armed versions are read.
DispatchEvent(t) ==
  /\ task[t].pc = "new"
  /\ Proceed(t, task[t].cause,
             IF task[t].cause.event.own THEN {} ELSE Armed, runs)
  /\ UNCHANGED <<rows, revived, clock, stored, restarts>>

\* POST /automations/tick.
Tick(t) ==
  /\ task[t].pc = "free" /\ Spawned(t)
  /\ Proceed(t, [kind |-> "tick", now |-> clock], Armed, runs)
  /\ UNCHANGED <<rows, revived, clock, stored, restarts>>

\* POST /automations/{ws}/{id}/run.
RunNow(t, a, k) ==
  /\ task[t].pc = "free" /\ Spawned(t)
  /\ Latest(a) > 0
  /\ Proceed(t, [kind |-> "manual", key |-> k], {<<a, Latest(a)>>}, runs)
  /\ UNCHANGED <<rows, revived, clock, stored, restarts>>

\* Event and schedule fires hand a composed plan to the runner for single plans,
\* which fails on it.
Outcome(t) ==
  LET r == task[t].run IN
  IF /\ task[t].cause.kind # "manual"
     /\ rows[runs[r].auto][r[2]].plan \in Composed
  THEN {"failed"}
  ELSE Outcomes

\* Mutant of Finish: the first automation that fires has the event or the tick.
Finish_Returns(t) ==
  /\ task[t].pc = "walk"
  /\ \E o \in Outcome(t) :
       Proceed(t, task[t].cause, {}, [runs EXCEPT ![task[t].run].state = o])
  /\ UNCHANGED <<rows, revived, clock, stored, restarts>>

\* The plan has been walked: the run is closed and the task goes on.
Finish(t) ==
  /\ task[t].pc = "walk"
  /\ \E o \in Outcome(t) :
       Proceed(t, task[t].cause, task[t].todo,
               [runs EXCEPT ![task[t].run].state = o])
  /\ UNCHANGED <<rows, revived, clock, stored, restarts>>

-----------------------------------------------------------------------------

Revived(a) == \E v \in 1..(Latest(a) - 1) : rows[a][v].state = "active"

\* An operator registers a draft or sets a version's state.
Registry ==
  /\ RegistryNext
  /\ revived' = revived \cup {a \in Autos : Revived(a)'}
  /\ UNCHANGED dispatch

Clock ==
  /\ clock < MaxTime
  /\ clock' = clock + 1
  /\ UNCHANGED <<rows, revived, stored, task, runs, walks, restarts>>

\* The control plane restarts: its tables stay, its tasks are gone.
Restart ==
  /\ restarts < MaxRestarts
  /\ restarts' = restarts + 1
  /\ task' = [t \in Tasks |-> Free]
  /\ UNCHANGED <<rows, revived, clock, stored, runs, walks>>

TaskStep(t) == DispatchEvent(t) \/ Finish(t)

Next ==
  \/ Registry
  \/ \E t \in Tasks, e \in Events : Ingest(t, e)
  \/ \E t \in Tasks : Tick(t)
  \/ \E t \in Tasks, a \in Autos, k \in ManualKeys : RunNow(t, a, k)
  \/ \E t \in Tasks : TaskStep(t)
  \/ Clock
  \/ Restart

Spec == Init /\ [][Next]_vars

\* The event loop resumes its tasks and the walk of a plan ends: plans are
\* acyclic and every call has a timeout.
FairSpec == Spec /\ \A t \in Tasks : WF_vars(TaskStep(t))
-----------------------------------------------------------------------------
(* Properties.                                                              *)

\* A run id is walked once: no redelivered trigger, concurrent task, retried
\* request or restart executes a fire a second time.
WalkedOnce ==
  \A r \in RunIds : walks[r] = IF runs[r] = None THEN 0 ELSE 1

\* No run starts of an automation that is not armed at that moment, even when it
\* was armed when the event was matched, and what starts is the latest version.
OnlyArmedStarts ==
  [][\A r \in RunIds :
       walks'[r] # walks[r] =>
         LET a == runs'[r].auto IN
         r[2] = Latest(a) /\ rows[a][r[2]].state = "active"]_vars

\* A scheduled run starts at least the interval after every earlier run of its
\* automation, or in a later minute, whoever started that one, also when its tick
\* was delayed behind other runs or overlaps another tick.
SchedulesAreKept ==
  [][\A r \in RunIds :
       walks'[r] # walks[r] /\ runs'[r].cause.kind = "tick" =>
         LET a == runs'[r].auto IN
         \E v \in 1..r[2] :
           LET trigger == rows[a][v].trigger IN
           \/ /\ trigger.kind = "interval"
              /\ \A q \in RunsOf(a) : clock - runs[q].at >= trigger.every
           \/ /\ trigger.kind = "cron"
              /\ \A q \in RunsOf(a) : MinuteOf(runs[q].at) < MinuteOf(clock)]_vars

\* An event makes an automation run at most once, though the version may change while
\* its task waits for other runs, unless an operator armed a version that had been
\* superseded: then the task has two rows of the automation, and an edit between them
\* makes it run twice.  It must be one of the event's own workspace, of whose versions
\* one listens to it, and nothing runs on an event that a run of the control plane caused.
EventsReachTheirOwnOnce ==
  \A e \in Events, a \in Autos :
    LET caused == {r \in RunsOf(a) : runs[r].cause = [kind |-> "event", event |-> e]}
    IN /\ a \notin revived => Cardinality(caused) <= 1
       /\ \A r \in caused :
            /\ ~e.own
            /\ \E v \in 1..r[2] : EventMatches(rows[a][v].trigger, a, e)

\* While the control plane keeps running, an event that is in the ledger and has
\* an armed listener makes it run to an end, unless it is edited or disarmed.
EventsAreServed ==
  \A e \in Events, a \in Autos :
    LET listening == /\ Latest(a) > 0
                     /\ rows[a][Latest(a)].state = "active"
                     /\ EventMatches(rows[a][Latest(a)].trigger, a, e)
        accepted == \E t \in Tasks : /\ task[t].pc = "new"
                                     /\ task[t].cause.event = e
        served == \E r \in RunsOf(a) :
                    /\ runs[r].state # "running"
                    /\ runs[r].cause = [kind |-> "event", event |-> e]
    IN  (listening /\ accepted /\ ~e.own) ~> (served \/ ~listening)
=============================================================================
