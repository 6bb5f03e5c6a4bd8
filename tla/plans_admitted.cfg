\* Every small plan, and plans that write, validated twice and then run: PROPOSE may be
\* refused, a COMMIT rejected, the answer of any call may be lost; and the kernel's other jobs.
SPECIFICATION GuardedKernel
CONSTANTS
  End = End
  Nodes <- MCNodes
  Programs <- MCPrograms
  Times = 2
  Faults = {"refusal", "rejected", "lost"}
  MaxItems = 2
  Texts <- MCTexts
  References <- MCReferences
  Bound <- MCBound
  Verbs = {"goal", "v1", "v2", "v3"}
  Entities = {"e1", "e2", "e3"}
  Args = {"e1", "e2", "e3"}
  Goal = "goal"
  Declarations <- MCDeclarations
  Missing = {"m1", "m2", "m3", "m4"}
  None = "none"
  MaxAttempts = 3
  Cases <- MCCases
CHECK_DEADLOCK FALSE
INVARIANTS
  VerdictsAreRight
  StraightResolves
  UnwindIsOrderly
  TraceIsTrue
  GuardsMeanTheirGrammar
  HealingIsHonest
  CallsKeepTheirContract
PROPERTIES
  AdmittedEnds
