-------------------------------- MODULE Repair --------------------------------
(***************************************************************************)
(* The reactive arm of self-healing: run_repair_loop over refusals that    *)
(* prescribe their own fix.  A repair block names one missing entity, and  *)
(* the argument that gets its id is named like it.  The callbacks of the   *)
(* host are choices: how an entity is resolved from the conversation, what *)
(* becomes of its proposal, and which of the missing entities the original *)
(* verb is refused for next.                                               *)
(***************************************************************************)
EXTENDS Naturals, Sequences, FiniteSets, SequencesExt

CONSTANTS
  Entities,
  None,          \* no repair block, or no id
  MaxAttempts

VARIABLES
  needs,       \* the host: what the original verb is refused without
  refusal,     \* the entity the last refusal prescribes, or None
  phase,
  attempt,
  args,        \* entity -> its id (the entity itself), or None
  created,     \* prerequisites proposed, as reported: [entity, id]
  final,       \* the original's last answer: "none", "refused" or "done"
  status,
  asked        \* history: the resolution of every entity asked for

loop == <<refusal, attempt, args>>
told == <<created, final, status>>
vars == <<needs, phase, loop, told, asked>>

IsBounded ==
  MaxAttempts \in Nat \ {0} /\ IsFiniteSet(Entities) /\ None \notin Entities

Begin(missing, prescribed) ==
  /\ needs = missing /\ refusal = prescribed
  /\ phase = "read" /\ attempt = 1
  /\ args = [e \in Entities |-> None]
  /\ created = << >> /\ final = "none" /\ status = "none" /\ asked = << >>

Init ==
  \E missing \in SUBSET Entities :
    \E prescribed \in missing \cup {None} : Begin(missing, prescribed)

Finish(outcome) == phase' = "done" /\ status' = outcome

\* The last refusal prescribes nothing.
GiveUp ==
  /\ phase = "read" /\ refusal = None
  /\ Finish(IF attempt = 1 THEN "not_repairable" ELSE "repaired")
  /\ UNCHANGED <<needs, loop, created, final, asked>>

Resolutions == {"value", "candidates", "nothing"}

Resolve ==
  /\ phase = "read" /\ refusal # None
  /\ \E r \in Resolutions :
       /\ asked' = Append(asked, [entity |-> refusal, resolution |-> r])
       /\ CASE r = "value"      -> phase' = "propose" /\ UNCHANGED status
            [] r = "candidates" -> Finish("ambiguous")
            [] r = "nothing"    -> Finish("unresolved")
  /\ UNCHANGED <<needs, loop, created, final>>

\* A proposal that is refused has no id: the argument becomes None.
Propose ==
  /\ phase = "propose"
  /\ \E id \in {refusal, None} :
       /\ created' = Append(created, [entity |-> refusal, id |-> id])
       /\ args' = [args EXCEPT ![refusal] = id]
  /\ phase' = "retry"
  /\ UNCHANGED <<needs, refusal, attempt, final, status, asked>>

Unmet == {e \in needs : args[e] = None}

\* Mutant of Retried: the retry still has the arguments of the call before.
Retried_Stale ==
  IF needs = {} THEN {[outcome |-> "done", repair |-> None]}
  ELSE [outcome : {"refused"}, repair : needs]

\* The host refuses the original for one of what it misses; or for a reason of its
\* own, and then without a repair block.
Retried ==
  [outcome : {"refused"}, repair : Unmet \cup {None}]
    \cup (IF Unmet = {} THEN {[outcome |-> "done", repair |-> None]} ELSE {})

Retry ==
  /\ phase = "retry"
  /\ \E answer \in Retried :
       /\ IF answer.repair = None
          THEN /\ Finish("repaired") /\ final' = answer.outcome
               /\ UNCHANGED <<refusal, attempt>>
          ELSE /\ refusal' = answer.repair /\ UNCHANGED final
               /\ IF attempt = MaxAttempts
                  THEN Finish("exhausted") /\ UNCHANGED attempt
                  ELSE /\ attempt' = attempt + 1
                       /\ phase' = "read" /\ UNCHANGED status
  /\ UNCHANGED <<needs, args, created, asked>>

Next == GiveUp \/ Resolve \/ Propose \/ Retry

Spec == Init /\ [][Next]_vars
-----------------------------------------------------------------------------
(* Properties.                                                              *)

\* Only what a refusal has named and the conversation has settled is proposed, never
\* more often than there are attempts and never again once it has an id; the loop
\* gives up on its limit only when more is missing than it allows attempts, or a
\* proposal was refused; and every proposal is told, however the loop ends.
RepairIsGrounded ==
  /\ Len(created) <= MaxAttempts
  /\ \A i \in DOMAIN created :
       /\ asked[i] = [entity |-> created[i].entity, resolution |-> "value"]
       /\ \A j \in 1..(i - 1) :
            created[j].entity = created[i].entity => created[j].id = None
  /\ status = "exhausted" =>
       \/ Cardinality(needs) > MaxAttempts
       \/ \E i \in DOMAIN created : created[i].id = None
  /\ final = "done" => \A e \in needs : [entity |-> e, id |-> e] \in ToSet(created)
=============================================================================
