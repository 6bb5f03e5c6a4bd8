\* Everything but a forgetful server and foreign commits.
SPECIFICATION Spec
CONSTANTS
  s1 = s1
  s2 = s2
  p1 = p1
  p2 = p2
  a1 = a1
  a2 = a2
  c1 = c1
  c2 = c2
  None = None
  Sessions = {s1, s2}
  Calls = {c1, c2}
  Proposals = {p1, p2}
  Gated = {p1}
  Adapters = {a1, a2}
  Faults = {"cp_restart", "edge_restart", "cp_unreachable", "unreachable", "reject", "switch", "recommit"}
SYMMETRY Symmetry
INVARIANTS
  HeldUntilApproved
  UngatedWrittenOnce
PROPERTIES
  DecisionIsFinal
