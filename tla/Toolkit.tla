------------------------------ MODULE Toolkit -------------------------------
(***************************************************************************)
(* What an integrator works with beside the kernel, one job at a time: the *)
(* SDK's client posts batches, a generated edge resolves the words of its  *)
(* requests, a manifest is learned and layered, a shim is tested for       *)
(* conformance, an agent asks and changes by intents.                      *)
(***************************************************************************)
EXTENDS Transport, FiniteSets, Sequences, TLC

CONSTANTS
  Numbers, Short, Parts, CodeLimit, NameLimit, OptionLimit, Tables, Asked,  \* choices
  Errors, Catalog, Lexicon, Lessons, Overrides, Documents, SecretKeys,
  Placeholders, Environment, MaxSteps, MaxLayers, MaxEntries,                          \* manifests
  Stocks, Tests, Defects, Fresh,                                            \* conformance
  Ids, Sessions, Abilities, Stores, Domains, Ontology, Served, DefaultLimit,
  ChangeLimit, EdgeLimit, CapRows, MaxFaults, MaxDrifts, Gone, Null, Absent, \* intents
  None

VARIABLES
  job,
  table, request, chosen, told, written, shown,
  community, steps, composed, native, memory, stage, downgraded, layers,
  defect, docs, proposals, ledger, executed, handles, sequence, answer,
  test, row, failed, proposal, token, before, writes, undone,
  surface, specs, able, records, results, todo, given, minted, asserted, dead,
  faults, drifts, seen

choosing == <<table, request, chosen, told, written, shown>>
learning == <<community, steps, composed, native, memory, stage, downgraded, layers>>
testing == <<defect, docs, proposals, ledger, executed, handles, sequence, answer,
             test, row, failed, proposal, token, before, writes, undone>>
intending == <<surface, specs, able, records, results, todo, given, minted, asserted,
               dead, faults, drifts, seen>>
toolkit == <<job, vars, choosing, learning, testing, intending>>

Choice == INSTANCE Choices WITH phase <- chosen, answer <- told

Lore == INSTANCE Manifests WITH ledger <- memory

Trial == INSTANCE Conformance

Intent == INSTANCE Intents WITH None <- Absent

ASSUME ToolkitAssumption ==
  /\ Choice!ConstantsAreSound /\ Lore!ConstantsAreSound
  /\ Trial!ConstantsAreSound /\ Intent!ConstantsAreSound

\* A job that was not asked for stays in one of its first states.
SomeTable == CHOOSE t \in Tables : TRUE
SomeRequest == CHOOSE r \in Asked : TRUE
SomeTest == CHOOSE t \in Tests : TRUE
SomeStock == CHOOSE s \in Stocks : TRUE
SomeSession == CHOOSE s \in Sessions : TRUE
SomeAbility == CHOOSE a \in Abilities : TRUE
SomeStore == CHOOSE s \in Stores : TRUE

IdleChoice == Choice!Pose(SomeTable, SomeRequest)
IdleLore == Lore!Begin("recording")
IdleTrial == Trial!Pose(SomeTest, "none", SomeStock)
IdleIntent == Intent!Ask(SomeSession, SomeAbility, SomeStore)

ToolkitInit ==
  \/ job = "calls" /\ Init /\ IdleChoice /\ IdleLore /\ IdleTrial /\ IdleIntent
  \/ job = "choice" /\ Choice!Init /\ Init /\ IdleLore /\ IdleTrial /\ IdleIntent
  \/ job = "manifest" /\ Lore!Init /\ Init /\ IdleChoice /\ IdleTrial /\ IdleIntent
  \/ job = "conformance" /\ Trial!Init /\ Init /\ IdleChoice /\ IdleLore /\ IdleIntent
  \/ job = "intent" /\ Intent!Init /\ Init /\ IdleChoice /\ IdleLore /\ IdleTrial

CallBackend == job = "calls" /\ Next /\ UNCHANGED <<job, choosing, learning, testing, intending>>

ResolveWords ==
  job = "choice" /\ Choice!Next /\ UNCHANGED <<job, vars, learning, testing, intending>>

KeepManifest ==
  job = "manifest" /\ Lore!Next /\ UNCHANGED <<job, vars, choosing, testing, intending>>

TestShim ==
  job = "conformance" /\ Trial!Next /\ UNCHANGED <<job, vars, choosing, learning, intending>>

ServeIntents ==
  job = "intent" /\ Intent!Next /\ UNCHANGED <<job, vars, choosing, learning, testing>>

ToolkitNext == CallBackend \/ ResolveWords \/ KeepManifest \/ TestShim \/ ServeIntents

\* As in Transport: a call is resumed, and its request is answered or times out.
Resumed(c) ==
  job = "calls" /\ Step(c) /\ UNCHANGED <<job, choosing, learning, testing, intending>>

ToolkitSpec == ToolkitInit /\ [][ToolkitNext]_toolkit
FairToolkit == ToolkitSpec /\ \A c \in Calls : WF_toolkit(Resumed(c))
-----------------------------------------------------------------------------
(* Properties.                                                              *)

\* A candidate that is offered is accepted, a preview can be committed, and what the
\* human saw by name is what is written: see Choices.
ChoicesAreKept == Choice!ChoicesAreKept

\* What is learned is valid, layering loses nothing and the last layer's values win, the
\* overlay fills what it has a value for, and nothing recorded is lost from view but what
\* a later skill names: see Manifests.
ManifestsAreKept == Lore!ManifestsAreKept

\* A faithful shim passes the test, a broken one does not, and the test leaves one
\* effect, which the reversal it previews takes back: see Conformance.
TestIsTelling == Trial!TestIsTelling

\* One question has one answer in every shape, what is proposed is about a record that
\* was found, and what is stored is told: see Intents.
IntentsAreKept == Intent!IntentsAreKept
=============================================================================
