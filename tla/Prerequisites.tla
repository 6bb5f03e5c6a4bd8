---------------------------- MODULE Prerequisites ----------------------------
(***************************************************************************)
(* The proactive arm of self-healing: from the prerequisites that verbs    *)
(* declare, plan_prerequisites orders what is missing for a goal,          *)
(* run_prerequisite_saga creates it and then the goal, handing on the ids  *)
(* of what it has created, and after a failure run_saga_unwind undoes what *)
(* it may.  The host's callbacks are choices: what exists already, whether *)
(* a creation or a compensation is refused.  The id of a record is the     *)
(* entity it was created for; the field an id is read from is left out.    *)
(***************************************************************************)
EXTENDS Integers, Sequences, SequencesExt

CONSTANTS
  Verbs, Entities, Args,
  Goal,          \* the verb that is asked for
  Declarations   \* what may be declared: Verbs -> sequences of Prereq

Prereq == [entity : Entities, verb : Verbs, arg : Args]

Effects == {"automatic", "parked", "irreversible"}

VARIABLES
  declared,
  existing,    \* is_satisfied: entities that were there before
  phase,
  visits,      \* the planner's calls of visit, and where each is in its verb's list
  plan,        \* the steps to be created, deepest first
  carried,     \* arg -> the entity whose id it gets
  committed,   \* steps done, in order
  left,        \* steps the unwind has not reached
  effect,      \* how each verb may be undone, and whether it is allow-listed
  outcome,     \* what the unwind reports: lists of steps
  status,
  called,      \* history: every creation that went through, with its arguments
  standing     \* the host: entities that exist through this saga

saga == <<plan, carried, committed, called>>
unwind == <<left, effect, outcome>>
vars == <<declared, existing, phase, visits, saga, unwind, status, standing>>

IsBounded ==
  /\ Goal \in Verbs
  /\ Declarations \subseteq [Verbs -> Seq(Prereq)]

Empty == [a \in {} |-> a]

Begin(d, there) ==
  /\ declared = d /\ existing = there
  /\ phase = "planning" /\ status = "none" /\ visits = <<[verb |-> Goal, at |-> 1]>>
  /\ plan = << >> /\ carried = Empty /\ committed = << >> /\ called = << >>
  /\ left = << >> /\ effect = Empty
  /\ outcome = [e \in Effects |-> << >>]
  /\ standing = {}

Init == \E d \in Declarations, there \in SUBSET Entities : Begin(d, there)
-----------------------------------------------------------------------------
(* Post-order search along what is missing.                                 *)

Top == Last(visits)
AllSeen == Top.at > Len(declared[Top.verb])
Wanted(visit) == declared[visit.verb][visit.at]

\* The innermost visit goes on to its verb's next prerequisite.
Passed(calls) == [calls EXCEPT ![Len(calls)].at = @ + 1]

\* What is there already is left out, with all that it would need.
Skip ==
  /\ phase = "planning" /\ ~AllSeen /\ Wanted(Top).entity \in existing
  /\ visits' = Passed(visits)
  /\ UNCHANGED <<declared, existing, phase, saga, unwind, status, standing>>

\* An entity that several verbs need is created once.
Placed(p) ==
  IF \E i \in DOMAIN plan : plan[i].entity = p.entity THEN plan ELSE Append(plan, p)

IsMissing == phase = "planning" /\ ~AllSeen /\ Wanted(Top).entity \notin existing
OnPath(verb) == \E i \in DOMAIN visits : visits[i].verb = verb

\* Mutant of Visit: what a prerequisite needs itself is planned after it.
Visit_PreOrder ==
  /\ IsMissing /\ ~OnPath(Wanted(Top).verb)
  /\ visits' = Append(visits, [verb |-> Wanted(Top).verb, at |-> 1])
  /\ plan' = Placed(Wanted(Top))
  /\ UNCHANGED <<declared, existing, phase, carried, committed, called, unwind, status,
                 standing>>

\* What is missing needs what its verb needs.
Visit ==
  /\ IsMissing /\ ~OnPath(Wanted(Top).verb)
  /\ visits' = Append(visits, [verb |-> Wanted(Top).verb, at |-> 1])
  /\ UNCHANGED <<declared, existing, phase, saga, unwind, status, standing>>

\* A verb met again on its own path: an exception ends the search.
MeetCycle ==
  /\ IsMissing /\ OnPath(Wanted(Top).verb)
  /\ phase' = "done" /\ status' = "cycle" /\ visits' = << >> /\ plan' = << >>
  /\ UNCHANGED <<declared, existing, carried, committed, called, unwind, standing>>

\* A visit returns: its caller places the prerequisite that it visited.
Leave ==
  /\ phase = "planning" /\ AllSeen
  /\ LET calls == Front(visits) IN
     IF calls = << >>
     THEN phase' = "running" /\ visits' = << >> /\ UNCHANGED plan
     ELSE /\ plan' = Placed(Wanted(Last(calls)))
          /\ visits' = Passed(calls) /\ UNCHANGED phase
  /\ UNCHANGED <<declared, existing, carried, committed, called, unwind, status, standing>>

PlanSaga == Skip \/ Visit \/ MeetCycle \/ Leave
-----------------------------------------------------------------------------
(* The saga and its unwind.                                                 *)

\* create(verb, args): every step gets all the ids that are carried so far.
Call(verb) == called' = Append(called, [verb |-> verb, args |-> carried])

Create ==
  /\ phase = "running" /\ Len(committed) < Len(plan)
  /\ LET step == plan[Len(committed) + 1] IN
     /\ Call(step.verb)
     /\ carried' = [a \in DOMAIN carried \cup {step.arg} |->
                      IF a = step.arg THEN step.entity ELSE carried[a]]
     /\ committed' = Append(committed, step)
     /\ standing' = standing \cup {step.entity}
  /\ UNCHANGED <<declared, existing, phase, visits, plan, unwind, status>>

CreateGoal ==
  /\ phase = "running" /\ Len(committed) = Len(plan)
  /\ Call(Goal)
  /\ phase' = "done" /\ status' = "completed"
  /\ UNCHANGED <<declared, existing, visits, plan, carried, committed, unwind, standing>>

\* A prerequisite or the goal is refused: the host unwinds what was committed.
Fail ==
  /\ phase = "running"
  /\ phase' = "unwinding" /\ status' = "failed"
  /\ left' = committed
  /\ effect' \in [{committed[i].verb : i \in DOMAIN committed} -> Effects]
  /\ UNCHANGED <<declared, existing, visits, saga, outcome, standing>>

Reported(step) ==
  [outcome EXCEPT ![effect[step.verb]] = Append(outcome[effect[step.verb]], step)]

\* What compensate() answers is not looked at.
Unwind ==
  /\ phase = "unwinding" /\ left # << >>
  /\ left' = Front(left)
  /\ outcome' = Reported(Last(left))
  /\ IF effect[Last(left).verb] = "automatic"
     THEN standing' \in {standing, standing \ {Last(left).entity}}
     ELSE UNCHANGED standing
  /\ UNCHANGED <<declared, existing, phase, visits, saga, effect, status>>

EndUnwind ==
  /\ phase = "unwinding" /\ left = << >>
  /\ phase' = "done"
  /\ status' = CASE outcome["irreversible"] # << >> -> "blocked"
                 [] outcome["irreversible"] = << >> /\ outcome["parked"] # << >> ->
                      "parked"
                 [] OTHER -> "compensated"
  /\ UNCHANGED <<declared, existing, visits, saga, unwind, standing>>

Next == PlanSaga \/ Create \/ CreateGoal \/ Fail \/ Unwind \/ EndUnwind

Spec == Init /\ [][Next]_vars
-----------------------------------------------------------------------------
(* Properties.                                                              *)

\* The verbs that have to be called for a verb when what exists is left out: what it
\* needs, what that needs, and so on.
Needs(verb) == {p.verb : p \in {q \in ToSet(declared[verb]) : q.entity \notin existing}}
Needed(verb) ==
  {v \in Verbs : \A C \in SUBSET Verbs : (\A u \in C \cup {verb} : Needs(u) \subseteq C) => v \in C}

\* A loop in what is missing is refused before anything is created, and only a loop.
CyclesAreRefused ==
  phase # "planning" =>
    (status = "cycle") <=>
      \E v \in {Goal} \cup Needed(Goal) : v \in Needed(v)

Before(i) == {committed[j].entity : j \in 1..(i - 1)}

\* Everything that is created, and the goal, finds what it needs; nothing that was
\* there, and nothing twice, is created.
NothingIsMissing ==
  /\ \A i \in DOMAIN called :
       \A p \in ToSet(declared[called[i].verb]) : p.entity \in existing \cup Before(i)
  /\ \A i \in DOMAIN committed : committed[i].entity \notin existing \cup Before(i)

\* Every entity is carried under one name, and no name carries two.
CarriesApart ==
  LET all == UNION {ToSet(declared[v]) : v \in Verbs}
  IN \A p, q \in all : (p.arg = q.arg) <=> (p.entity = q.entity)

\* Then a step is handed the id of each record that was created for it.
IdsArrive ==
  CarriesApart =>
    \A i \in DOMAIN called :
      \A p \in ToSet(declared[called[i].verb]) :
        p.entity \notin existing =>
          p.arg \in DOMAIN called[i].args /\ called[i].args[p.arg] = p.entity

\* Whatever still stands after an unwind is reported; no record loses what it needs
\* before the unwind has come to it; and "compensated" leaves nothing for a human.
\* An automatic compensation that was refused is reported as done: it may stand.
ReportedEntities == {s.entity : s \in UNION {ToSet(outcome[e]) : e \in Effects}}
NothingIsLeftInSilence ==
  /\ status \in {"compensated", "parked", "blocked"} => standing \subseteq ReportedEntities
  /\ \A s \in ToSet(committed) :
       s.entity \in standing \ ReportedEntities =>
         \A p \in ToSet(declared[s.verb]) : p.entity \in existing \cup standing
  /\ status = "compensated" => \A v \in DOMAIN effect : effect[v] = "automatic"

SagaIsOrderly ==
  CyclesAreRefused /\ NothingIsMissing /\ IdsArrive /\ NothingIsLeftInSilence
=============================================================================
