\* Every fault there is, two callers.
SPECIFICATION Spec
CONSTANTS
  r1 = r1
  r2 = r2
  t1 = t1
  t2 = t2
  c1 = c1
  c2 = c2
  None = None
  Threads = {t1, t2}
  Callers = {c1, c2}
  Records = {r1, r2}
  Fields <- MCFields
  Vals <- MCVals
  Requests <- MCCreates
  MaxProposals = 1
  Faults = {"crash", "reject", "lost_reply", "readback", "lost_event", "overlap", "drift", "race"}
SYMMETRY Symmetry
INVARIANTS
  ClaimedMeansWritten
