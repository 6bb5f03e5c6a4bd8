# NILScript in TLA+

NILScript puts a governed protocol between an agent and a system of record: every write is a
PROPOSE, a preview that writes nothing, followed by a COMMIT under an idempotency key; risky writes
wait for an owner; multi-step plans are walked by an executor that undoes what it did when a step is
refused; standing automations fire plans on events and schedules. These modules model the parts of
the code that keep state and promise something about it. Line numbers are those of the repository, paths
without a prefix are under `src/src/nilscript/`; `PROJECT.json` maps every definition to its lines.

## 1. The system

| Component | State | Operations | What is hard | What makes it correct |
|---|---|---|---|---|
| **Adapter edge**: the service `nilscript scaffold-shim` generates (`cli/scaffold/_templates.py`) | `ShimState`, in memory: `proposals`, `ledger`, `executed`, `compensations`; the backend's records | PROPOSE, COMMIT, STATUS, ROLLBACK, event emission | COMMIT is a synchronous handler in a thread pool: two requests interleave at each backend call; restarts, lost answers, records changed by others | one key writes once; what it claims happened; what a preview showed is what is written over, and a reversal brings back what was found |
| Choices of an edge (same file) | none; the words of a request are resolved twice | reference look-up, option gates, echo | the backend changes between the two; codes, names and ids overlap | what is offered is accepted, what is shown by name is what is written |
| **Approval gate** (`mcp/tools.py`, `mcp/server.py`, `controlplane/app.py`, `store.py`) | tiers per session in the MCP server's memory; the `approvals` table; the active adapter | `nil_propose`, `nil_commit`, await, decide, execute, activate | two committers with keys of their own; polling; restarts of three processes | nothing HIGH is written unapproved; decisions are final; an approval leads to its effect |
| Adapters table, MCP sessions (`controlplane/store.py`, `mcp/server.py`) | rows with flags and time stamps; bindings and cached tools per connection | register, activate, enable, disable; a connection's first call | operators switch while connections are open; the registry does not answer | a connection stays with one backend |
| **Automation registry** (`controlplane/store.py`, `automation/authoring.py`) | `automations` table: versions with state and `superseded_by` | register, set state | editing and arming in any order | approved versions never change; what starts is the latest version, and armed |
| **Dispatcher and scheduler** (`automation/dispatch.py`, `scheduler.py`, `triggers.py`) | event ledger, `automation_runs`, tasks in memory | ingest, dispatch, tick, manual run | rows are read once, then runs are awaited one by one while others edit; redelivery; overlapping ticks; restarts | a fire is executed once, by whom it is for, while armed; schedules keep their distance; stored events are served |
| Composed automations (`automation/compose.py`, `controlplane/app.py`) | context across stages | draft, validate, register, run | adapters move between drafting and running; a stage that ends early | stages run in order, on the backends they were validated for |
| **Plan validator** (`kernel/validator.py`, `graph.py`) | none: a pure function | `validate` | its rules are what the executor takes for granted; its sort starts from an unordered set | admitted plans are acyclic, their references point backwards, every process gives the same verdict, an admitted call is a call the edge takes |
| **Plan executor** (`kernel/executor.py`, `references.py`) | a run's context, committed steps, compensated steps | walk of the eight node types, saga unwind | branches run as tasks and fail at different times; any call may be refused or lost | unwinding is quiet, backwards and truthful; runs end |
| Guards (`kernel/guards.py`) | none | evaluation of a condition | evaluates while it parses; values of every type | the value is what the grammar says |
| Prerequisites and repair (`kernel/prerequisites.py`, `repair.py`) | ids carried from one creation to the next | plan, saga, unwind, repair loop | shared and nested prerequisites; failure half-way | order, no second creation, only what was done and may be undone is undone |
| SDK client (`sdk/transport.py`, `breaker.py`, `client.py`) | breaker | request with retries, batch | concurrent calls over one breaker | no call passes an open breaker beyond what it was allowed; calls end |
| Event trail (`_templates.py`, `sdk/events.py`, `controlplane/store.py`, `app.py`) | sequence numbers, ledger, dedup window | emit, deliver, dedup, three views | lost, repeated and reordered deliveries; restarts of adapters | each event once; the views tell what was announced, and do not change it afterwards |
| Data plane (`dataplane/`) | artifacts, bulk checkpoints | search, export, change, handle, bulk job | paging over a set that changes; fall-backs on the edge; crash and resume | complete reads; what nobody approved stays small; jobs account for every record |
| Intents (`mcp/tools.py`, `dataplane/intent.py`) | none of its own | one payload for reads and changes | four routes for one question; a change per record found, while records change | the same answer on each route; a proposal only for what was found |
| Manifests, scan and memory (`manifest/`, `scan/`, `memory.py`) | manifests, overlays, ledger of lessons | learn, merge, layer, diff, fill, revise | what is learned must not be lost nor leak | valid manifests stay so; layers lose nothing and the last to name a value decides it; no entry of the ledger is edited; placeholders do not leave |
| Conformance and the Playground edge (`conformance/`, `demo/`) | `FakeSystem`, the edge's stores | the rows of the test | the test must tell broken shims | a faithful shim passes; each defect that can be seen is seen |
| Console, tokens, repair tickets, CLI, scaffold generator, wire models, schemas, demos, benchmark | rows, files | one read or write each | – | – |

How they meet: an agent's session (MCP server) and the control plane are both clients of an adapter
edge; both poll or write the control plane's tables; the dispatcher starts executor runs, and the
executor is again a client of an edge, whose EVENTs come back through ingest and may fire
automations. Every client relies on what COMMIT promises. Sessions and composed automations find their
edges through the adapters table; intents and exports become COMMITs of many records.

## 2. Modules

| Module | Models |
|---|---|
| `CommitOnce` | the abstract promise of COMMIT: under one key at most one effect, "done" is said only of an effect, "refused" only while there is none |
| `NilEdge` | the adapter edge, detailed; implements `CommitOnce` (refinement mapping `Promise`) |
| `ApprovalGate` | MCP server, control plane and adapters around an approval; an adapter is what `CommitOnce` promises |
| `AutomationRegistry`, `Dispatch` | the versions of automations; dispatcher, scheduler and run records over them |
| `AdapterTable`, `Sessions`, `Composed`, `Routing` | the adapters table; the connections bound through it; composed automations registered and run through it; all together |
| `Plan`, `Validator`, `Executor`, `AdmittedRun` | plans; the validation of their graph; their run; what is admitted is run |
| `Contract`, `Prerequisites`, `Repair`, `Kernel` | the kernel's other jobs, and all of them one at a time |
| `Guards` | the evaluation of guards, a job of its own in `MCKernel` |
| `Transport`, `Choices`, `Manifests`, `DemoEdge`, `Conformance`, `Intents`, `Toolkit` | the tools around the kernel, and all of them one at a time |
| `EventTrail` | events from the adapters to the ledger, the deduper and the views |
| `Ascending`, `ReadPlane`, `BulkJob`, `DataPlane` | sets in ascending order; governed reads; bulk jobs; reads whose ids a job works off |
| `MC*` | small instances: requests, triggers, drafts, plans, tables, symmetry |
| `*_proofs` | theorems about `NilEdge`, `ApprovalGate`, `Dispatch` (with the registry), `Kernel` (executor, contract, repair), `Toolkit` (transport, choices, manifests, conformance, intents), `Routing`, `EventTrail`, `DataPlane` |

Every environment's misbehaviour is a member of a constant `Faults` (or a bound such as
`MaxRestarts`), so that a run or a theorem says exactly under which faults a property holds. Definitions
called `X_Y` with the comment "Mutant of X" are not part of the model; see section 3.

### NilEdge

`proposals`, `ledger`, `executed`, `compensations` are the four collections of `ShimState`; a
restart (`Restart`) empties them and answers nobody, the backend `world` survives. COMMIT is cut
where the handler calls the backend, since that is where another pool thread may run: `Commit`
(ledger lookup, then proposal lookup), `Read` (resolve, before-image, witness recheck), `Write` /
`WriteRejected`, `Settle` (read-back, reversal handle, ledger entry and `executed` in one stretch
with no call between) / `ReadBackFails`, `Emit` (EVENT to the control plane, which may raise after
everything is recorded). `Propose` stores the witness, the current values of the fields to be
written; `Rollback` turns a reversal handle into a fresh proposal and keeps the handle. `reply`,
`writes` and `emitted` are history variables, and so are `raced`, the threads whose record another writer has touched between their
read and their write, and `replaced`, what each key's write had found. They say what the code leaves open: `NoStalePreview` follows an update
from its preview to the backend and excepts that window only, and `UndoRestores` follows a reversal from the write it undoes to the
write that undoes it. What a backend does about a record that is gone (refuse, make it anew, find nothing to delete) is its choice.
An idempotency key is the pair of committer and proposal it is hashed from. Left out: authentication, wording, refusals at
PROPOSE (they change nothing; which words are refused is `Choices`), and records named by a code or a name instead of their id (`_resolve_id`).

### ApprovalGate

`memory` is `NilTools._proposals` of each session, `route` the adapter its cached tools are bound to,
`approvals` the table, `execution` what `_execute_approved` is doing. A `nil_commit` is a `call` with
the steps `poll` (GET decision), `await` (POST await) and `commit` (the adapter). `Decide` stores
the decision and starts `ExecuteApproved` in the same handler; it may die in between (`CpRestart`).
The adapter of `ExecuteApproved` is the one active at that moment, as in the code.

### AutomationRegistry and Dispatch

`rows` is the `automations` table; a draft is what authoring has validated, its plan stands for the
content hash. `Dispatch` adds the event ledger `stored`, the event loop's `task`s, the `runs` table and
the history `walks`. A task is a dispatch or a tick: it reads the armed versions once (`Armed`) and goes
through them in the table's order; each fire re-reads the latest version (`Starts`), and when it starts
a run the task waits for it (`Finish`), which is where everything else interleaves. Between two awaits
a task runs alone, as on the event loop: `Proceed` therefore goes to the next row that starts a run in one
step. `RunId` is made of automation id, version and fire key, without the workspace, as in the code. `SetState` sets the state of any
version, as the code does; `revived` remembers the automations of which a superseded version was armed, the one case in which two rows of an automation
are armed and one event may run it twice. `EventsReachTheirOwnOnce` excepts them and nothing else.

### AdapterTable, Sessions, Composed and Routing

`url` and `enabled` are the rows of the adapters table and `written` the order of their time stamps, which decides
between several active ones. A connection's first call (`Sessions`) settles a backend from its header,
its workspace's active adapter or the default, and keeps the tools built on it; the registry may fail to
answer. A draft request of a composed automation asks the stages' adapters one at a time, so
operators may move an adapter in between; a run takes the stages in order and hands fields on. A stage's plan is the verbs it uses
and the fields it may leave behind. `Routing` is the union; operators, connections and runs interleave, while MCRouting's
constraint `OneAtATime` looks at connections and at composed automations one at a time, since they write nothing that the other reads.

### Validator and Contract

`validate` builds its queue and its search step by step; `CheckReferences` (dangling references, and the degrees and first
queue of the sort), `Emit` (one node leaves the queue), `EndSort`, `Visit` (one node leaves the frontier) and
`EndSearch` (terminality) are those steps. Successors are sequences in the code's order, since the sort's order decides
which references are forward; only the first queue is in any order, because it is filled from a set of strings.
`Released` is the loop over a node's edges, one `Release` after another, so a target named twice is released twice. `ValidateAgain`
is the second validation, by another process, of a plan that has one verdict. `Contract` is the rest, per
step: whitelist and grants (V4), arguments and typed outputs (V5), then what becomes of the admitted call at run
time: the read is answered, references are resolved, the edge looks for required arguments. The JSON schema (V1) and
warnings are left out: plans are well formed.

### Executor and AdmittedRun

A run is a set of `walk`s, each named by the path of branches and items that leads to it. An action
is `Propose`, `SendCommit` (the adapter gets it), `Committed` (the answer arrives): branches interleave
at each. Exceptions go where Python sends them: `Catcher` is the innermost `gather`, which drops them, or
the root, where a `CompensationHalt` starts the unwind and anything else fails the run. `UndoPropose` and
`UndoCommit` are the unwind. Adapter keys (`Key`) are per node and per compensation, as `idem_key` makes
them. Guards, approvals and lists are choices of the environment; a guard may do
without a reference, in `has()`, and may raise. `effects` is what the adapter has written and what it has rejected: the executor looks at neither, so its trace may name a
step that is not undone, and `TraceIsTrue` says that this is then a rejected one. `AdmittedRun` extends the executor with the validation of its plan, and runs a plan whose last
verdict is OK.

### Guards, Prerequisites, Repair and Kernel

`Guards` has the recursive descent as the code has it, with its cursor and the value computed on the way, and beside it the
grammar of the docstring (`guards.py:7-14`) as rules about spans of tokens. There `has()` takes any expression, while the code only takes a reference: a guard
that the grammar accepts is given its value, or is refused because of such a `has()`. `Prerequisites` has the planner's search visit by visit (`visits` is the stack of its calls), the saga with the ids
it carries and the unwind by reversibility and allow-list; `Repair` the loop over refusals that prescribe their fix.
`Kernel` picks one job at the start and does it; the jobs share no state, and one run checks them all. Its specification
there is `MCKernel!GuardedKernel`, the kernel or the evaluation of a guard: `Guards` is recursive, and the kernel's theorems cannot reach a recursive operator.

### Transport, Choices, Manifests, Conformance, Intents and Toolkit

`Transport`: a call asks the breaker, sleeps its backoff and posts; between two awaits it is not interrupted, so recording a
failure and asking again are one step. A batch is posted sentence by sentence, and posted again from the start by its
caller after an error. `Choices`: one constrained field, its words, and the candidates of a refusal, at PROPOSE and again at
COMMIT on rows that may have changed. `Manifests`: the scan and up to two learning steps over error texts recognised or not, up to two layers with values of
their own on top (`layers` is what was laid on), the overlay of documents, and the ledger, whose ids are made of their entries' content and in which a revision supersedes. `DemoEdge` is the Playground's edge with one of seven defects or none,
driven by `Conformance`, row by row. `Intents`: router, domains, resolver with its refusals, changes with a proposal per record.
`Toolkit` picks one job at the start, like `Kernel`.

### EventTrail

Adapters number their events in memory (a restart begins anew); the network delivers what was sent any number of times in any order.
`Ingest` and `Receive` take an event once each by their own key: the id, and the pair of workspace and sequence. An adapter may announce
a proposal again in other words, and tell of a result more than once.
The timeline page, the detail view and the adapters' page are operators over the ledger, as the code computes them: the timeline tells the
announcement that was stored last, the detail view the first, and a row without announcement is told by its result's entity or not at all. `StoriesHold` says what
holds nevertheless: the views tell what was announced, and tell it as soon as an announcement with an id has come, however short the page; a detail that was told stays, and
the timeline changes only with a new announcement.
Ledger and deduper do not meet, so the instance follows one of them in a behaviour.

### ReadPlane, BulkJob and DataPlane

A search, an export or the read of a change is a loop over pages; others insert and delete records between pages. Each capability a backend
lacks (filter, count) has its fall-back at the edge, with the edge's bound; `BlankPasses` says whether a row without the filtered field passes there, as it
does with "ne". Values are a filter's yes or no; a row's size is its number of fields.
An export leaves an artifact behind a handle with owner and lifetime. A bulk job goes in batches with a policy, a stop flag and checkpoints,
may die anywhere, and is run again with what was checkpointed.

## 3. What TLC checks

| Run | Faults and bounds | Distinct states | Shows |
|---|---|---|---|
| `edge_faults` | 2 threads, 2 records, 2 proposals, one caller; restarts, rejected writes, lost events, races | 1,275,039 | `AtMostOncePerKey`, `PendingMeansUnwritten`, `NoStalePreview`, `UndoRestores`, and that the edge implements `CommitOnce` |
| `edge_all_faults` | all eight faults, two callers, one create | 359,280 | `ClaimedMeansWritten`: no ledger entry, status or answer without a write |
| `gate_holds` | 2 sessions, 2 calls, 2 adapters; all but a forgetful MCP server and foreign commits | 15,200 | `HeldUntilApproved`, `UngatedWrittenOnce`, `DecisionIsFinal` |
| `gate_serves` | one adapter that answers; MCP restarts, foreign commits, recommits; fair handlers | 43,009 | `WhatIsToldIsSo`, `ApprovalDrivesEffect` |
| `gate_recommit` | the agent commits what the owner has approved | violation | `WrittenOnce` fails: two writes of one proposal |
| `auto_fires` | 2 automations of up to 3 versions, 2 tasks, 3 events (one foreign, one caused by a run), edits, arming (of superseded versions, too) and pausing, one restart, no clock | 513,672 | `VersionsArePinned`, `EventsReachTheirOwnOnce`, `OnlyArmedStarts` |
| `auto_serves` | 2 versions; interval and cron triggers, operators' runs, overlapping ticks, no restart; fair tasks | 265,269 | `WalkedOnce`, `OnlyArmedStarts`, `SchedulesAreKept`, `EventsAreServed` |
| `routing` | 2 workspaces, 3 backends, 2 connections, two-stage automations; switches, moves, one redeployment, a registry that does not answer | 497,662 | `OneBackend`, `StagesRunAsDrafted` |
| `plans_admitted` | 9,260 plans of two to four nodes and 18 of up to six, loops of two items; 22,633 guards; 401 sets of declared prerequisites; a repair loop of three attempts; some 50,000 calls; refusals, rejected COMMITs and lost answers; fair | 399,377 | `VerdictsAreRight`, `StraightResolves`, `UnwindIsOrderly`, `TraceIsTrue`, `GuardsMeanTheirGrammar`, `HealingIsHonest`, `CallsKeepTheirContract`, `AdmittedEnds` |
| `data_plane` | 3 records in 3 tables, 2 kinds of backend (one that filters and counts, one that does neither), pages of one row, batches of two, two changes by others, one crash and a resume | 8,239,315 | `ReadsAreComplete`, `UnapprovedIsBounded`, `JobIsWhole` |
| `toolkit` | 2 callers with 2 posts and one retry each; tables of 3 rows; a scan, two learning steps and two layers; 8 shims over 5 stocks; 4 records and up to 5 intents | 976,714 | `BreakerHolds`, `ChoicesAreKept`, `ManifestsAreKept`, `TestIsTelling`, `IntentsAreKept`, `CallsEnd` |
| `timeline` | 2 adapters, 2 proposals, 2 wordings, 3 events, 4 deliveries to the ledger or 5 to the deduper, a window of 2 | 1,053,304 | `LedgerIsWhatCame`, `StoriesHold`, `DeduperKeepsItsWindow` |

Why the bounds are enough to meet the hazards: two threads, tasks, calls or callers are what a race needs; two
proposals let one's write change what another previewed and let a reversal be committed;
two sessions and two calls let an agent's commit race another's and the control plane's. Three versions
let a superseded version be armed beside a later one that is edited again; clock 0..1 with one-unit minutes and intervals distinguishes
"due again" from "too early". Three nodes with every choice of targets contain each shape the validator's queue treats
differently (self-loops, cycles beside and behind the entry, joins, edges that occur twice, orphans); the four-node forks
add a join after two branches, and the larger plans each node type, nested branches, a loop within a branch, two dependent writes per item, branches that
meet in a write, and data flow from a branch to a later write. Guards of four parts have every pair of neighbouring operators, with and without parentheses or negation. Three records with pages of one
row put a change before, at and behind the cursor; a table with one match, the threshold, lets an export that nobody approved begin with both changes still to come;
three ids in batches of two leave a half batch. A window of two with
three events lets a number leave the window and come again. A sharper bound is always possible: what the theorems of section 5
cover does not depend on one.

`VerdictsAreRight` compares the sort and the search with a reference definition, `Following`, that takes successors as often as there are nodes and
shares nothing with them but the edges; `GuardsMeanTheirGrammar` compares the evaluator with the grammar; the intents' four routes
are compared with each other.

Every property of a passing run has a mutant in `PROJECT.json`: a variant of one definition, written
just above it as "Mutant of ...", that a plausible bug would make of it and that violates the property.

The type invariants of `NilEdge`, `ApprovalGate`, `AutomationRegistry`, `Dispatch`, `Executor`, `Transport`, `AdapterTable`, `Sessions`, `Composed`,
`ReadPlane` and `BulkJob` are proved (section 5); in the other modules they document the variables.

`CHECK_DEADLOCK FALSE` where the system may stop: when the bounded proposals, runs, events and jobs of an
instance are used up.

## 4. Fairness

- `ApprovalGate!FairSpec`: a handler that has started goes on (weak fairness of each call's steps and of
  each execution). Nobody owes a proposal, a retry or a decision. It is used without faults that kill
  handlers of the control plane.
- `Dispatch!FairSpec`: the event loop resumes its tasks and the walk of a plan ends, since plans are
  acyclic and every call has a timeout. Nobody owes a tick, an event or an edit.
- `Kernel!FairKernel`, and the same in `MCKernel!GuardedKernel`: `validate` is a function and returns; the event loop runs the walks that can run, and a
  call to the adapter returns or times out (the transport has explicit timeouts and bounded retries).
- `Toolkit!FairToolkit`: the event loop resumes a call whose backoff is over or whose request has returned; time passes.

The safety runs state no fairness.

## 5. What is proved

For every value of the constants, checked by TLAPS:

| Theorem | Says | Assumes |
|---|---|---|
| `NilEdge_proofs!TypeCorrect` | `TypeOK` | – |
| `NilEdge_proofs!ClaimsAreTrue` | `ClaimedMeansWritten` | – (all faults) |
| `NilEdge_proofs!OnlyRacesAreStale` | `NoStalePreview` | – (all faults) |
| `NilEdge_proofs!UndoBringsBack` | `UndoRestores` | – (all faults) |
| `NilEdge_proofs!WritesAtMostOnce` | `AtMostOncePerKey` | `NoDoubt`: no overlapping retry, no lost answer, no failed read-back |
| `NilEdge_proofs!PendingIsUnwritten` | `PendingMeansUnwritten` | `NoDoubt` |
| `NilEdge_proofs!KeepsPromise` | `ImplementsCommitOnce`: the edge implements `CommitOnce` | `NoDoubt` |
| `ApprovalGate_proofs!GateTypeCorrect` | `TypeOK` | – |
| `ApprovalGate_proofs!DecisionsAreFinal` | `DecisionIsFinal` | – (all faults) |
| `ApprovalGate_proofs!GateHolds` | `HeldUntilApproved` | `Remembers`: no MCP restart, no foreign commit |
| `ApprovalGate_proofs!UngatedWritesOnce` | `UngatedWrittenOnce` | `OwnCommits`: no foreign commit |
| `ApprovalGate_proofs!ToldIsSo` | `WhatIsToldIsSo` | `Reliable`: the control plane is reached; the adapter stays, keeps its proposals, refuses nothing |
| `Dispatch_proofs!VersionsStayPinned` | `VersionsArePinned` | – |
| `Dispatch_proofs!DispatchKeepsRegistry` | `Dispatch` implements `AutomationRegistry` | – |
| `Dispatch_proofs!DispatchKeepsPinned` | hence `VersionsArePinned` of it | – |
| `Dispatch_proofs!DispatchTyped` | `TypeOK` | – |
| `Dispatch_proofs!FiredOnce` | `WalkedOnce` | – (restarts, redelivery, retries) |
| `Dispatch_proofs!ArmedWhenStarted` | `OnlyArmedStarts` | – |
| `Dispatch_proofs!SchedulesKeep` | `SchedulesAreKept` | – |
| `Dispatch_proofs!ServedOnce` | `EventsReachTheirOwnOnce` | – (versions armed in any order) |
| `Kernel_proofs!UnwindIsBackwards` | `TypeOK`, `QuietUnwind`, `UndoneBackwards` | – (all faults) |
| `Kernel_proofs!UnwindStaysOrderly` | `UnwindIsOrderly` | – (all faults) |
| `Kernel_proofs!TraceStaysTrue` | `TraceIsTrue` | – (all faults) |
| `Kernel_proofs!VerdictsStayRight` | `VerdictsAreRight` | – (plans of any size, any iteration order) |
| `Kernel_proofs!StraightStaysResolved` | `StraightResolves` | – (all faults) |
| `Kernel_proofs!ContractStaysKept` | `CallsKeepTheirContract` | – (answers conform to their schema) |
| `Kernel_proofs!HealingStaysHonest` | `HealingIsHonest` | – (any declarations, any host) |
| `Toolkit_proofs!BreakerIsSound` | `TypeOK` of the transport and `BreakerHolds` | – |
| `Toolkit_proofs!ChoicesStay` | `ChoicesAreKept` | – |
| `Toolkit_proofs!ManifestsStay` | `ManifestsAreKept` | – |
| `Toolkit_proofs!IntentsStay` | `IntentsAreKept` | – (of constants: positive limits of questions and of the read before a change) |
| `Toolkit_proofs!TestsTell` | `TestIsTelling` | – (of constants: records have names, and the one the system gives is new) |
| `Routing_proofs!RoutingTypeCorrect` | `TypeOK` of adapters, connections, composed automations | – |
| `Routing_proofs!ConnectionsKeepTheirBackend` | `OneBackend` | – |
| `Routing_proofs!StagesKeepTheirDraft` | `StagesRunAsDrafted` | – |
| `DataPlane_proofs!DataPlaneTypeCorrect` | `TypeOK` of reads and jobs | – |
| `DataPlane_proofs!ReadsEndComplete` | `ReadsAreComplete` | – |
| `DataPlane_proofs!UnapprovedStaysBounded` | `UnapprovedIsBounded` | – |
| `DataPlane_proofs!JobStaysWhole` | `JobIsWhole` | – (crashes, stops, failing batches) |
| `EventTrail_proofs!LedgerHoldsWhatCame` | `LedgerIsWhatCame` | – |
| `EventTrail_proofs!DeduperIsSound` | `DeduperKeepsItsWindow` | – |
| `EventTrail_proofs!StoriesAreKept` | `StoriesHold` | – |

Assumptions on constants (`GateAssumption`, `DispatchAssumption`, ...) are evaluated by TLC on every instance. The other
assumptions are needed: without them TLC finds the violation listed in section 6.

The arguments:

- *At most once.* `AtMostOncePerKey` is not inductive: a key that has not written may be in any state.
  `OnceInv` adds where a key that has written can be: in the ledger, in the thread that is about to enter it,
  or with a proposal that a restart has forgotten, and which can never be accepted again since ids do
  not recur; a thread before its write has a key that has not written, and no two threads run one key.
  One lemma per action. A pending status follows from it: a proposal in the store that is not executed has no key in the ledger.
- *The promise.* Every step of the edge is one step of `CommitOnce` or none: `Write` is `Land`, an answer is `Tell`
  (`AnswerTells`, where `OnceInv` says that "executed" and "replayed" are true and that a thread that refuses has
  not written), a restart is `Hang` for the callers it cuts off. "expired" maps to "unknown": a restarted edge
  answers it for keys that have written, too.
- *Claims.* `ClaimInv` adds that a thread in `settle` or `emit` has written; no fault can undo that.
- *Previews and reversals.* `WindowInv`: while a thread is about to write and is not in `raced`, its record still is the before-image that `Read` has compared with the
  witness; every other writer of the record puts it into `raced`. `UndoInv`: where `replaced` says what the write of a key found, the handle minted from it, and the proposal that the handle becomes, carry
  just that row; so does the before-image of a thread that is about to mint one.
- *Types of the edge.* `TypeInv` adds `Working`: what a thread in the middle of a COMMIT may rely on (its key's
  proposal is still there, its record is known), because a later step applies the proposal it looked up earlier.
- *The gate.* `GateInv` adds that a tier is remembered where it will be looked up, and that a call or an
  execution about to commit a gated proposal has the approval behind it. It holds because a decision
  is final; so polling and then acting is safe. Below the gate (`OneCommitter`) the only key is the session's, and once it
  has written it is in the ledger for as long as the adapter knows the proposal.
- *What is told* (`ToldInv`): the one adapter has every proposal anybody speaks of, so a commit that is answered wrote or
  finds its key in the ledger, and a key in the ledger has written.
- *Pinned versions.* `Chained`: a version is superseded by the next one and the last by none.
- *Fired once.* `DispatchInv`: a run id has been walked exactly if it is in the table, and a task's
  remaining rows are versions that exist. Nothing is awaited between the lookup of the id and the insertion of
  its run, so tasks cannot both start it.
- *Events reach their own, once* (`Served`): an event is dispatched by one task; while rows are ahead of it, each is of another
  automation, and none of these has run for the event. An edit meanwhile changes the version that runs but not the one that was matched,
  since versions are pinned. An automation has two armed rows only after a superseded version was armed (`SoleArmed`): editing archives the version before.
- *Schedules.* A tick's time is never in the future, and what is due at an earlier time is due now; the newest of the runs, which the code looks at, bounds
  all of them (`Greatest`).
- *The kernel's jobs* (`JobsAreApart`). Each step of the kernel is a step of one job and leaves the variables of the others alone, and a job that was not asked for stands in one of its
  first states; so what is shown of a job's own specification holds of the kernel.
- *The unwind.* A plan that is run was admitted, so `CheckReferences` found no dangling target (`Watched`, `StartedIsClosed`) and walks stay on steps that exist. The walks of
  a run form a tree of paths (`Tree`, `Forked`): above a walk are only waiting walks, and paths part only
  at branches and items. So a raise that reaches the root finds nobody at work (`QuietUnwind`), and what is pending is what was committed less what was undone, in
  order (`Backwards`). An action whose output is known was committed, and what a step uses was known when it was proposed (`Sourced`), so a committed step
  stands behind what it uses; the newest so many have been undone or their compensations rejected (`Reached`), and therefore dependents first. The proviso `CommittedAround` is needed: with items of a loop TLC finds a
  step that is undone between two commits of another.
- *The trace.* What is sent was proposed by a walk, and the adapter's effects are of what was sent first under a key (`SentFirst`), which is what "written once, whoever asks again" comes to; while nothing is written under a key, each of its proposals was rejected (`OneWrite`).
- *The validator.* `SortInv`: the degree kept of a node is the number of edges into it from nodes that are not emitted yet, and what is queued or emitted are exactly
  the nodes of degree zero. While a node's edges are released (`Stage`) one edge less counts at a time. When the queue is empty, whatever is left has a predecessor that is left, so some left node follows
  itself (`LeftoverCycles`: of the left nodes take one that follows from the fewest); and in a complete order what follows comes later, so nothing follows itself (`SortedIsAcyclic`). The search never leaves what follows from the entry
  and is closed when its frontier is empty (`SearchInv`). "Follows" is what every closed set has. Different first queues give different orders, and whether a reference is
  forward depends on the order; but a plan that is sorted and reached from its entry has no other root (`OneRoot`), so its first queue has one element, the rest of the sort is a function (`SortRun`, `RunsAgree`) and the verdict a formula of the plan alone
  (`Admissible`): nothing of the first validation is left in the second.
- *Straight plans.* Of two nodes of an admitted straight plan one follows the other (`LineIsOrdered`), and a reference that is not forward is to a node that the step follows. The run is one walk,
  and `Lining` keeps that what leads to its node has an output or is an action that was not committed.
- *Contracts.* A path that the validator walks without going astray is led, segment by segment, to a value in a full answer (`AllowedIsAnswered`, by the least prefix that is not there); a path of an
  answer has all its prefixes there, whose kinds the schema gives, so the walk finds nothing (`AnsweredIsAllowed`). `HeldInv` keeps that what went on was found whole.
- *Prerequisites.* `Searching`: every visit on the planner's stack has settled the prerequisites it has passed, each is there already or planned with no loop beneath its verb, and calls the next for
  what it is at. A visit that returns has settled all its verb needs, so the verb has no loop beneath it either (`SoundFromNeeds`) and what is placed finds what it needs (`Ordered`); a verb met again on the
  stack needs itself, since each visit's verb is needed by those under it (`VisitsNeed`). "Needed in the end" is the least closed set of verbs.
- *The saga.* `SagaRun`: what is made is the beginning of the plan, and a step has been handed the ids of those before it. `PartlyUndone`: what is undone is the end of what was made, and is reported; the entities differ, so
  undoing one step takes no other's away.
- *Repairs.* `LoopInv`: a refusal that is worked on prescribes what has no id; an argument has the id of the last proposal of its entity and no earlier one has any. At the limit,
  if all proposals got ids, they are of different entities other than the one still missing: an injection into what was needed, so more was needed than the limit allows.
- *The breaker.* The failures in a row are counted by a history variable; a call that has been let through carries that permission for one request.
- *Choices.* What was screened at the preview still resolves to the same row while the table is the one that was shown (`ChoiceInv`); what a search offers is a row that the same search finds;
  the row an echo names is the resolved one when codes, names and ids are apart.
- *Manifests.* `Learned` says of each verb what every learning step keeps: a compensation where the tier promises one, a tier that was taken back excepted, requirements of known kinds, nothing of an
  instance. A layered manifest is, entry by entry, what the last layer that names it says, and what the layers
  below say where it is silent (`Layered`, by induction on the layers laid on: `MergeLayers`); an overlaid document meets what is required, and again when it is overlaid twice. In the ledger an id is made of its entry's content,
  so no entry is edited under its id, and an entry supersedes an earlier one.
- *Intents.* `Current`: until the records change, each answer is about the records there are. A page is an initial segment of what stands behind its cursor, and its cursor is its last, so pages part what
  matches (`PagesPart`: cursors grow, and the least page that reaches a record has it); the sets that are counted, grouped and paged are the same. `Busy`: the read of a change found the first of the matches, and the proposals made so far
  are about the beginning of it; so they differ and are of matches (`Aimed`), and as many are told as were found (`Counted`). `Shown`: a stored proposal is told, or is among the answers that will be.
  The limits must be positive: with limit 0 a page is empty and has no cursor, and the batch takes 0 for its default.
- *Conformance.* `TrialPosed` says where the test stands: before COMMIT nothing is written, and there is the one proposal. `Caught`: each defect has a row that fails and stays failed; the argument that a shim forgets is
  refused for another reason only where the row would fail a faithful one, too. `Faithful`: the failed rows are exactly those the test is not apt for (`Tallied`); after COMMIT the handle takes back what was done, since it names the
  one new record or has the one that is gone (`TakesBack`: `Removes` or `Returns`); and the last proposal is that reversal, so when the owner commits it the records are what they were, up to order.
- *Connections.* A binding is written once and read ever after.
- *Stages.* A role (an adapter of a workspace, or the active one) that a request has asked stays "asked" until operators move it or its backend is redeployed. `RoutingInv` says that a stage's
  verbs are still offered where an "asked" role points (`Serves`): of a request under way, of every stored version and of every run. Any change of table or backends only drifts (`Drifts`): roles that stay
  "asked" point where they did, to what offers the same. What is handed on was left by the stage that is named, since the trace only grows.
- *Reads.* A page is an initial segment of what stands behind the cursor (the page lemma compares ranks by an injection between finite sets), so everything that has stood since the start and is not behind
  the cursor has been read, once and in order, and inserted rows only add. A read that nobody approved began with an estimate within the bound, and exceeds it by the changes since.
- *Bulk jobs.* Pending ids are ascending and disjoint from those done; the tally counts what was applied, one more when a crash tore a batch between write and checkpoint; every id of the artifact is accounted for,
  and the artifact holds what the read had found.
- *Events.* The ledger's rows have different ids because an arrival that is there is not inserted; the deduper's window is the last numbers in order, and what
  left it was pushed out by a full window of others. A view selects rows of the ledger by their proposal, and the ledger only grows at its end: the
  first announcement among them is settled when one arrives, the last one only by a later one (`StoryStays`); and only announcements have words (`Wordings`).

Model-checked only, with the reason: liveness (`ApprovalDrivesEffect`, `EventsAreServed`, `AdmittedEnds`, `CallsEnd`), which the provers cannot do; and the guards (`GuardsMeanTheirGrammar`), which are recursive
operators. Elsewhere recursion is in recursive functions or avoided: a deletion keeps the other places in ascending order and a sum is the size of a union, of which the libraries have facts; the folds of
the community modules have none.

## 6. Where code and documentation disagree, and what the models take as it is

Shown by a run (see `findings` in `PROJECT.json`): `gate_recommit`.

Met while modelling (T is `cli/scaffold/_templates.py`). Each is in the models as the code has it, as a fault value or as an assumption.

Edge:

- A backend write whose answer is lost is not recorded (T:524, 599) and the retry writes again; a failed
  read-back (T:557) leaves STATUS "pending" after a write. A key sent again while it runs writes twice (T:509; the comment there and `sdk/transport.py:4`
  say a retried COMMIT is replayed).
- The witness is rechecked at the read (T:534-538), the write follows at 540 without holding the record.
- A reversal handle can be used any number of times (T:691). EVENT bodies carry no verb (T:644), so `automation/triggers.py:21` does not match them.
- The echo of a reference is not the inverse of its resolution (T:327-343, 116-140), and words are resolved again at COMMIT with no witness (T:308-312). The choice
  gate passes any number (docstring T:250); an offer for an ambiguous code matches names too. Overlay values and a delete's data are not gated.

Gate, sessions and adapters:

- After an MCP restart the tier is forgotten and a HIGH proposal commits ungated (`mcp/tools.py:340`); another
  session's proposal is not gated either (130). A caller is told "held" when the registration was lost (366).
- An approved proposal is committed to the adapter active then, and its refusal counts as executed
  (`controlplane/app.py:265-280`). A restart after the decision loses the execution (298).
- Registering an adapter among several active ones makes it the default (`controlplane/store.py:491`). Session keys are `id(session)` and cached tools are
  never dropped (`mcp/tools.py:62`, `mcp/server.py:118-137`). A registry that does not answer once binds a connection to the default for good.

Automations:

- A superseded version can be armed again (`controlplane/store.py:707-732`, `controlplane/app.py:577-600`), although `active_automations` says that
  "the active version is always the latest one" (`store.py:699`). Registering the same plan with another
  trigger changes nothing.
- An event stored just before a crash is never dispatched (`app.py:215-222`); a run cut short stays "running" and
  its retry is answered "replayed". Run ids lack the workspace (`automation/dispatch.py:86`), and `nilscript run` always uses "cli-run".
- A fire re-reads the latest version (`automation/dispatch.py:76`), whose trigger need not be the one that matched.
  Composed automations fail when an event or a schedule fires them.
- `run_composed` goes on with missing handoffs (docstring at `automation/compose.py:163`); `$.input...` handoffs never resolve (134); disabled adapters still
  serve stages; a single plan runs on the adapter active when it fires (`app.py:425-427`).

Kernel:

- `gather` drops what branches raise (`kernel/executor.py:149`): a refusal in a branch neither unwinds nor fails the
  run. The items of a loop and branches that meet in a node share one key (173), so later writes
  are answered from the ledger and not made: `WrittenOnce` of `Executor` states it as it is. `on_error: halt` goes on after a refusal. A rejected COMMIT of a compensation is reported as undone (204) and older steps are undone after it, though the docstring (190) says it never claims more: `TraceIsTrue` and
  `UnwindIsOrderly` except it.
- A reference raises at run time when its step is on a path not taken, in another branch, only reached through an error
  policy (which counts as an edge, and which the executor never follows), or not in the plan at all
  (`kernel/validator.py:338` passes it over). `kernel/references.py:69-71` rules that out for validated plans and
  `docs/NIL-paper-additions.md:60` says that dangling references are rejected. `StraightResolves` is what is left. Paths that do not begin with "output"
  (`validator.py:281`), indexes out of range, optional fields and untyped reads raise too.
- Compensation verbs are not on V4's whitelist (`validator.py:128-165`); V5 looks for an argument's presence, the edge for a truthy value.
- Which diagnostics a rejected plan gets may differ between processes: with orphans in it the sort starts anywhere,
  and V6_FORWARD_REF comes and goes. The verdict does not. "nodes in a cycle" (`validator.py:120`) also
  names nodes that only follow a cycle.
- Guards do not short-circuit: `has(x) && x == ...` raises when x is missing. The grammar in the docstring has `has(or)` (`guards.py:12`), the code only `has(reference)` (220-239).
- Of a prerequisite shared by several, only the first dependent's carry is kept, and argument names collide. `run_saga_unwind` ignores what a compensation answers
  (`cli/repair.py:184-186`). A dependent that was left in place can outlive its prerequisite. The repair loop answers "repaired" with a final
  refusal that prescribes nothing, and a refused proposal sets the argument to None.

Client, data and tools:

- The breaker is asked before the backoff (`sdk/transport.py:75-77`); a late success closes an open breaker. A batch posted again repeats its first
  sentences (`sdk/client.py:69`, 85-90).
- The deduper drops events of a restarted adapter, and of two adapters of one workspace (`sdk/events.py:26`); `EventStore`'s docstring keys events by workspace and
  sequence (`controlplane/store.py:148`), the code by id (177-184). The timeline tells a proposal's last announcement (225-234), the detail view its first (307).
- The bulk threshold equals the edge's bound and a count that falls back stops there (`dataplane/engine.py:206-209`); the edge filters on returned fields only (336); an
  export from a backend without a filter is unfiltered (276); sensitive fields need no grant where there is none; numeric cursors change type (143-150).
- A change intent reads 25 records at most and its `set` may replace target and id (`mcp/tools.py:255-266`), and is sent where the edges want `data`; a refused
  read is told as NO_MATCH (258-261); positional arguments shift (`mcp/server.py:333`); a spec that is no object breaks its batch (`tools.py:237`, docstring 225);
  `where` overrides `set` for graph facts (392-394).
- Two valid manifests may merge into an invalid one (`manifest/__init__.py:217-219`); the diff passes over compensation and native target; building drops a second
  requirement of a field, merging keeps it by kind. A stored lesson never has a learned requirement (`memory.py:55-57`, 112-123), and a skill may supersede a
  lesson (59). An offset verb is proposed for a charge that is one itself (`scan/inference.py:223-232`).
- The conformance row for replays looks at a flag, row 1 cannot see a write, row 3 drops the first argument only; the in-memory proof cannot see an update's reversal,
  since `FakeSystem.get` hands out the record. `cli`'s `_verb_reversibility` raises for an unknown verb.
- The demo says "committed" when COMMIT was refused (`demo/demo_ui.py:1181`, 1455), commits on the target selected at that time (1454), and its trace cursor loses events when they are
  numbered anew (209-212, 904).

## 7. Not modelled

- HTTP handlers of the console that render pages, tokens of workspaces and agents, repair tickets: single reads and writes of a row.
- The MCP tools that shape arguments and relay one call; the CLI's parsing and printing; the scaffold generator's file writing; template texts other than the
  handlers of the service they generate.
- Wire models, texts and JSON schemas: data. Demo programs and their web page, benchmark, examples and scripts.
- Of modelled parts: authentication, wording, string literals and fractions in guards, cron syntax and field filters of triggers, text cursors, byte sizes, the
  regular expressions that recognise native errors. Each module's header says what it abstracts; `PROJECT.json` has it per component.
