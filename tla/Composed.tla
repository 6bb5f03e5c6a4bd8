------------------------------- MODULE Composed -------------------------------
(***************************************************************************)
(* Automations: single plans, for their workspace's active adapter, and    *)
(* plans composed of stages, each for an adapter it names.  A request to   *)
(* register one asks its adapters, one after the other, what they offer,   *)
(* and validates every stage against what its adapter answered.  A run     *)
(* walks the stages in order and hands fields of what earlier stages left  *)
(* behind on to later ones.  Meanwhile adapters are switched, moved and    *)
(* redeployed.  A single plan is a plan of one stage here.                 *)
(*                                                                         *)
(* Of a stage's plan the verbs it uses are kept, and which fields it may   *)
(* leave: a step that was refused, or not reached, leaves none.            *)
(***************************************************************************)
EXTENDS AdapterTable, AutomationRegistry

CONSTANTS
  Verbs,
  Offers,        \* URL -> what the backend there may offer, sets of verbs
  Fields,        \* paths into what a stage leaves behind
  Fires,         \* idempotency keys
  MaxRedeploys,  \* bound: how often backends change what they offer
  ComposedPlans, \* [ws, stages]
  TheActive      \* names the active adapter of a workspace

\* from: input key -> the stage and field of its reference.  ws: the workspace that
\* the stage's own plan names.
IsStage(s) ==
  /\ {"name", "adapter", "ws", "verbs", "from"} = DOMAIN s
  /\ s.adapter \in Adapters \cup {TheActive} /\ s.ws \in Workspaces /\ s.verbs \subseteq Verbs
  /\ \A i \in DOMAIN s.from : s.from[i].field \in Fields

ASSUME ComposedAssumption ==
  /\ Offers \in [Urls -> SUBSET SUBSET Verbs]
  /\ MaxRedeploys \in Nat
  /\ TheActive \notin Adapters
  /\ \A p \in ComposedPlans :
       /\ p.ws \in Workspaces
       /\ p.stages \in Seq(ToSet(p.stages))
       /\ \A i \in DOMAIN p.stages : IsStage(p.stages[i])
  /\ \A d \in Drafts : d.plan \in ComposedPlans /\ d.auto[1] = d.plan.ws

VARIABLES
  offer,      \* what the backend at a URL offers, None while it is out of reach
  redeploys,
  request,    \* the request to register that is being served
  run,        \* the runs by fire key: at is the URL of the stage that is walked, the
              \* trace is of the stages that have ended
  since       \* history: "asked" adapters have described themselves to a request,
              \* "changed" ones were moved or redeployed after they had

composed == <<rows, offer, redeploys, request, run, since>>

\* Whom a stage may name.
Roles == Workspaces \X (Adapters \cup {TheActive})

\* An adapter of that id, enabled or not, or the active one.
Where(role) ==
  IF role[2] = TheActive THEN ActiveUrl(role[1]) ELSE url[role]

NoRequest == [draft |-> None, offers |-> << >>]
NoRun ==
  [plan |-> None, trace |-> << >>, handed |-> << >>, at |-> None, state |-> "none"]

ComposedInit ==
  /\ RegistryInit
  /\ offer \in {o \in [Urls -> UNION {Offers[u] : u \in Urls}] :
                 \A u \in Urls : o[u] \in Offers[u]}
  /\ redeploys = 0
  /\ request = NoRequest
  /\ run = [f \in Fires |-> NoRun]
  /\ since = [r \in Roles |-> "unasked"]

ComposedTypeOK ==
  /\ RegistryTypeOK
  /\ offer \in [Urls -> (UNION {Offers[u] : u \in Urls}) \cup {None}]
  /\ redeploys \in 0..MaxRedeploys
  /\ request.draft \in Drafts \cup {None}
  /\ DOMAIN request.offers \subseteq Adapters \cup {TheActive}
  /\ \A f \in Fires :
       /\ run[f].plan \in ComposedPlans \cup {None}
       /\ run[f].at \in Urls \cup {None}
       /\ run[f].state \in {"none", "between", "walking", "completed", "blocked",
                            "failed"}
       /\ run[f].trace \in Seq([completed : BOOLEAN, fields : SUBSET Fields])
  /\ since \in [Roles -> {"unasked", "asked", "changed"}]
-----------------------------------------------------------------------------
(* The world around.                                                        *)

Changed(roles) ==
  [r \in Roles |-> IF r \in roles /\ since[r] = "asked" THEN "changed" ELSE since[r]]

Redeploy(u) ==
  /\ redeploys < MaxRedeploys
  /\ redeploys' = redeploys + 1
  /\ \E o \in (Offers[u] \cup {None}) \ {offer[u]} : offer' = [offer EXCEPT ![u] = o]
  /\ since' = Changed({r \in Roles : Where(r) = u})
  /\ UNCHANGED <<table, rows, request, run>>

\* After a step of the table.
Moved == since' = Changed({r \in Roles : Where(r)' # Where(r)})
-----------------------------------------------------------------------------
(* Registering.                                                             *)

Stages(p) == ToSet(p.stages)

AdaptersOf(p) == {s.adapter : s \in Stages(p)}

Begin(d) ==
  /\ request = NoRequest
  /\ request' = [draft |-> d, offers |-> << >>]
  /\ UNCHANGED <<table, rows, offer, redeploys, run, since>>

Skeleton(role) == IF Where(role) = None THEN None ELSE offer[Where(role)]

\* One more adapter is asked, in no particular order; without an answer the request
\* is refused.
Ask(a) ==
  LET p == request.draft.plan
      answer == Skeleton(<<p.ws, a>>)
  IN
  /\ request.draft # None
  /\ a \in AdaptersOf(p) \ DOMAIN request.offers
  /\ request' = IF answer = None THEN NoRequest
                ELSE [request EXCEPT !.offers = [b \in DOMAIN @ \cup {a} |->
                        IF b = a THEN answer ELSE @[b]]]
  /\ since' = [since EXCEPT ![<<p.ws, a>>] =
                IF answer = None \/ @ = "changed" THEN @ ELSE "asked"]
  /\ UNCHANGED <<table, rows, offer, redeploys, run>>

Earlier(p, i) == {p.stages[j].name : j \in 1..(i - 1)}

Outside == {"input", "item"}

\* Mutant of HandoffsAreDeclared: the stage itself counts as seen.
HandoffsAreDeclared_Self(p) ==
  \A i \in DOMAIN p.stages :
    \A k \in DOMAIN p.stages[i].from :
      p.stages[i].from[k].stage
        \in Earlier(p, i) \cup {p.stages[i].name} \cup Outside

HandoffsAreDeclared(p) ==
  \A i \in DOMAIN p.stages :
    \A k \in DOMAIN p.stages[i].from :
      p.stages[i].from[k].stage \in Earlier(p, i) \cup Outside

\* A stage whose verbs its adapter offers; the grant is for the composed plan's
\* workspace alone.
StageIsValid(p, s, offers) ==
  s.verbs # {} => s.ws = p.ws /\ s.verbs \subseteq offers[s.adapter]

\* validate_composed
Valid(p, offers) ==
  /\ Cardinality({s.name : s \in Stages(p)}) = Len(p.stages)
  /\ HandoffsAreDeclared(p)
  /\ \A s \in Stages(p) : StageIsValid(p, s, offers)

\* The last adapter has answered: the plan is refused, or becomes a version that
\* waits for approval.
EndRequest ==
  /\ request.draft # None
  /\ DOMAIN request.offers = AdaptersOf(request.draft.plan)
  /\ IF Valid(request.draft.plan, request.offers)
     THEN Register(request.draft)
     ELSE UNCHANGED rows
  /\ request' = NoRequest
  /\ UNCHANGED <<table, offer, redeploys, run, since>>

SetVersion ==
  /\ \E a \in Autos, s \in Moves : \E v \in 1..Latest(a) : SetState(a, v, s)
  /\ UNCHANGED <<table, offer, redeploys, request, run, since>>
-----------------------------------------------------------------------------
(* Running.                                                                 *)

\* A run when the stages of the trace have completed.
Onward(p, trace) == IF Len(trace) = Len(p.stages) THEN "completed" ELSE "between"

\* fire_composed and fire_manual: the latest version, if it is armed; a key that is taken is only
\* answered.
Fire(a, f) ==
  /\ Latest(a) > 0 /\ rows[a][Latest(a)].state = "active"
  /\ run[f] = NoRun
  /\ LET p == rows[a][Latest(a)].plan IN
     run' = [run EXCEPT ![f] = [NoRun EXCEPT !.plan = p, !.state = Onward(p, << >>)]]
  /\ UNCHANGED <<table, rows, offer, redeploys, request, since>>

\* The stage that run r has come to.
StageOf(r) == r.plan.stages[Len(r.trace) + 1]

\* What the stage of that name has left in run r.
LeftBy(r, name) ==
  UNION {r.trace[j].fields :
           j \in {i \in DOMAIN r.trace : r.plan.stages[i].name = name}}

\* _resolve_handoff
Handoff(r, ref) == IF ref.field \in LeftBy(r, ref.stage) THEN ref ELSE None

\* Mutant of StageUrl: a stage goes to the workspace's active adapter.
StageUrl_Active(s) == ActiveUrl(s.ws)

StageUrl(s) == Where(<<s.ws, s.adapter>>)

\* The next stage starts on the adapter it names, or the run fails for want of one.
StartStage(f) ==
  /\ run[f].state = "between"
  /\ LET s == StageOf(run[f]) IN
     run' = [run EXCEPT ![f] =
       IF StageUrl(s) = None THEN [@ EXCEPT !.state = "failed"]
       ELSE [@ EXCEPT !.state = "walking", !.at = StageUrl(s),
                      !.handed = [k \in DOMAIN s.from |-> Handoff(run[f], s.from[k])]]]
  /\ UNCHANGED <<table, rows, offer, redeploys, request, since>>

\* A stage's walk ends: completed, leaving some of its fields, or blocked, which
\* ends the run; or it raises.
EndStage(f) ==
  /\ run[f].state = "walking"
  /\ \/ \E completed \in BOOLEAN, fields \in SUBSET Fields :
          LET trace == Append(run[f].trace,
                              [completed |-> completed, fields |-> fields]) IN
          run' = [run EXCEPT ![f].trace = trace,
                             ![f].state = IF completed THEN Onward(run[f].plan, trace)
                                          ELSE "blocked"]
     \/ run' = [run EXCEPT ![f].state = "failed"]
  /\ UNCHANGED <<table, rows, offer, redeploys, request, since>>

ServeRequest ==
  \/ \E d \in Drafts : Begin(d)
  \/ \E a \in Adapters \cup {TheActive} : Ask(a)
  \/ EndRequest \/ SetVersion

Execute ==
  \/ \E a \in Autos, f \in Fires : Fire(a, f)
  \/ \E f \in Fires : StartStage(f) \/ EndStage(f)

ComposedNext == ServeRequest \/ Execute \/ \E u \in Urls : Redeploy(u)
-----------------------------------------------------------------------------
(* Properties.                                                              *)

\* A stage that is being walked reaches, in the workspace that its automation was
\* registered for, a backend that offers the verbs it uses, unless what its adapter's
\* name stands for was moved or redeployed after it had been asked: no order of registering, enabling,
\* disabling and switching adapters, of other requests and of other runs sends a
\* stage to a backend it was not validated for.
StagesFitTheirBackends ==
  \A f \in Fires :
    run[f].state = "walking" /\ StageOf(run[f]).verbs # {} =>
      LET s == StageOf(run[f]) IN
      /\ s.ws = run[f].plan.ws
      /\ since[<<s.ws, s.adapter>>] = "asked" =>
           s.verbs \subseteq offer[run[f].at]

\* A stage is walked when all that come before it in the plan have completed, and is
\* handed what one of these has left in this very run, or nothing where that stage
\* left nothing or the reference is to the plan's own input.
HandoffsAreReal ==
  \A f \in Fires :
    run[f].state = "walking" =>
      LET s == StageOf(run[f])
          before == DOMAIN run[f].trace
      IN /\ \A j \in before : run[f].trace[j].completed
         /\ \A k \in DOMAIN s.from :
              \/ /\ s.from[k].stage \in Outside
                 /\ run[f].handed[k] = None
              \/ \E j \in before :
                   /\ run[f].plan.stages[j].name = s.from[k].stage
                   /\ run[f].handed[k] =
                        IF s.from[k].field \in run[f].trace[j].fields
                        THEN s.from[k] ELSE None

\* Stages run in order, on the backends they were validated for, with what earlier
\* ones have left.
StagesRunAsDrafted == StagesFitTheirBackends /\ HandoffsAreReal
=============================================================================
