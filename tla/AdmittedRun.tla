----------------------------- MODULE AdmittedRun -----------------------------
(***************************************************************************)
(* A plan is validated and, when it is admitted, run: Validator and        *)
(* Executor over one plan.                                                 *)
(***************************************************************************)
EXTENDS Executor, FiniteSets

CONSTANT Times

VARIABLES pc, degree, queue, order, reachable, frontier, diags, verdicts

checking == <<pc, degree, queue, order, reachable, frontier, diags, verdicts>>
running == <<walk, ctx, committed, phase, unwind, adapter>>
admitted == <<checking, vars>>

Check == INSTANCE Validator WITH Candidates <- Programs

ASSUME AdmittedRunAssumption == IsBounded /\ Times \in Nat \ {0}

Submit(p) == Check!Begin(p) /\ Begin(p)

AdmittedInit == \E p \in Programs : Submit(p)

Validate == Check!Next /\ UNCHANGED running

\* What is stored and run is what its last validation has admitted.
Started == Check!Admitted /\ Len(verdicts) = Times

Execute == Started /\ Next /\ UNCHANGED checking

AdmittedNext == Validate \/ Execute

AdmittedSpec == AdmittedInit /\ [][AdmittedNext]_admitted

\* validate() is a function and returns; the executor's fairness is its own.
FairAdmitted == AdmittedSpec /\ WF_admitted(Validate) /\ WF_admitted(Execute)
-----------------------------------------------------------------------------
(* Properties.                                                              *)

AdmittedTypeOK == Check!TypeOK /\ TypeOK

\* What the passes of validate() find is what there is to be found, and the same
\* plan gets the same verdict in every process: see Validator.
VerdictsAreRight == Check!PassesFindWhatIsThere /\ Check!SameVerdict

\* An unwind waits for every branch, goes backwards and against the data flow: see
\* Executor.
UnwindIsOrderly == QuietUnwind /\ UndoneBackwards /\ DependentsFirst

\* A straight plan: one path, nothing that is only reached by an error, and no
\* references to steps the plan does not have.
Straight ==
  \A n \in DOMAIN program.nodes :
    LET m == program.nodes[n] IN
    /\ m.type \in {"action", "query", "notify", "wait"}
    /\ m.type \in {"action", "query"} => m.error = End
    /\ m.uses \subseteq DOMAIN program.nodes

Refused(n) ==
  program.nodes[n].type = "action" /\ \A i \in 1..Len(committed) : committed[i] # n

\* The executor takes for granted that the references of an admitted plan resolve;
\* for a straight plan they do, but for those to an action that was refused.
StraightResolves ==
  Started /\ Straight =>
    \A w \in DOMAIN walk :
      walk[w].pc = "start" =>
        \A s \in program.nodes[walk[w].at].uses \ ctx : Refused(s)

\* The executor has no other way to end a loop than its limit on steps, which is
\* not modelled: an admitted plan has none, so its run ends, whatever its branches
\* and the adapter do.
AdmittedEnds ==
  Started ~> phase \in {"completed", "halted", "failed"}
=============================================================================
