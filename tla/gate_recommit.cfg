\* The agent commits again what the owner approved.
SPECIFICATION Spec
CONSTANTS
  s1 = s1
  s2 = s2
  p1 = p1
  p2 = p2
  a1 = a1
  a2 = a2
  c1 = c1
  c2 = c2
  None = None
  Sessions = {s1}
  Calls = {c1}
  Proposals = {p1}
  Gated = {p1}
  Adapters = {a1}
  Faults = {"recommit"}
INVARIANTS
  WrittenOnce
