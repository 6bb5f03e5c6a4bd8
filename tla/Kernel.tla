-------------------------------- MODULE Kernel --------------------------------
(***************************************************************************)
(* What the kernel is asked for, one job at a time and without state that  *)
(* outlives it: a plan is validated and run, the call of a step is held to *)
(* its contract, a goal is reached with its prerequisites, a refused verb  *)
(* is repaired.                                                            *)
(***************************************************************************)
EXTENDS AdmittedRun

CONSTANTS
  Verbs, Entities, Args, Goal, Declarations, \* prerequisites
  Missing, None, MaxAttempts,                \* repairs
  Cases                                      \* contracts

VARIABLES
  job,
  declared, existing, sagaPhase, visits, chain, carried, made, left, effect, outcome,
  sagaStatus, called, standing,
  needs, refusal, loopPhase, attempt, args, created, final, loopStatus, asked,
  world, step, response, errors, reached, fault

healing == <<declared, existing, sagaPhase, visits, chain, carried, made, left, effect,
             outcome, sagaStatus, called, standing>>
repairing == <<needs, refusal, loopPhase, attempt, args, created, final, loopStatus,
               asked>>
holding == <<world, step, response, errors, reached, fault>>
kernel == <<job, admitted, healing, repairing, holding>>

Saga == INSTANCE Prerequisites WITH
  phase <- sagaPhase, plan <- chain, committed <- made, status <- sagaStatus

Mending == INSTANCE Repair WITH
  Entities <- Missing, phase <- loopPhase, status <- loopStatus

Held == INSTANCE Contract

ASSUME KernelAssumption ==
  /\ Saga!IsBounded /\ Mending!IsBounded /\ Held!IsBounded
  /\ Programs # {} /\ Declarations # {} /\ Cases # {}

\* A job that was not asked for stays in one of its first states.
SomePlan == CHOOSE p \in Programs : TRUE
SomeDeclaration == CHOOSE d \in Declarations : TRUE
SomeCase == CHOOSE c \in Cases : TRUE

IdlePlan == Submit(SomePlan)
IdleSaga == Saga!Begin(SomeDeclaration, {})
IdleLoop == Mending!Begin({}, None)
IdleStep == Held!Pose(SomeCase.world, SomeCase.step, SomeCase.response)

KernelInit ==
  \/ /\ job = "plan" /\ AdmittedInit
     /\ IdleSaga /\ IdleLoop /\ IdleStep
  \/ /\ job = "saga" /\ Saga!Init
     /\ IdlePlan /\ IdleLoop /\ IdleStep
  \/ /\ job = "repair" /\ Mending!Init
     /\ IdlePlan /\ IdleSaga /\ IdleStep
  \/ /\ job = "contract" /\ Held!Init
     /\ IdlePlan /\ IdleSaga /\ IdleLoop

ValidatePlan ==
  job = "plan" /\ Validate /\ UNCHANGED <<job, healing, repairing, holding>>

ExecutePlan ==
  job = "plan" /\ Execute /\ UNCHANGED <<job, healing, repairing, holding>>

ReachGoal ==
  job = "saga" /\ Saga!Next /\ UNCHANGED <<job, admitted, repairing, holding>>

RepairVerb ==
  job = "repair" /\ Mending!Next /\ UNCHANGED <<job, admitted, healing, holding>>

HoldStep ==
  job = "contract" /\ Held!Next /\ UNCHANGED <<job, admitted, healing, repairing>>

KernelNext ==
  ValidatePlan \/ ExecutePlan \/ ReachGoal \/ RepairVerb \/ HoldStep

KernelSpec == KernelInit /\ [][KernelNext]_kernel

\* As in AdmittedRun: a validation is a function, and the executor's fairness is its own.
FairKernel == KernelSpec /\ WF_kernel(ValidatePlan) /\ WF_kernel(ExecutePlan)
-----------------------------------------------------------------------------
(* Properties.                                                              *)

\* What a goal needs is there before it, what fails is unwound without silence, and a
\* repair stays within what its refusals name: see Prerequisites and Repair.
HealingIsHonest == Saga!SagaIsOrderly /\ Mending!RepairIsGrounded

\* What the validator checks of a call is what the call needs: see Contract.
CallsKeepTheirContract == Held!ContractIsKept
=============================================================================
