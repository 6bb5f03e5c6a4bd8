\* Two threads, one caller, every fault but those that break the promise.
SPECIFICATION Spec
CONSTANTS
  r1 = r1
  r2 = r2
  t1 = t1
  t2 = t2
  c1 = c1
  c2 = c2
  None = None
  Threads = {t1, t2}
  Callers = {c1}
  Records = {r1, r2}
  Fields <- MCFields
  Vals <- MCVals
  Requests <- MCRequests
  MaxProposals = 2
  Faults = {"crash", "reject", "lost_event", "race"}
SYMMETRY Symmetry
INVARIANTS
  AtMostOncePerKey
  PendingMeansUnwritten
PROPERTIES
  NoStalePreview
  UndoRestores
  ImplementsCommitOnce
