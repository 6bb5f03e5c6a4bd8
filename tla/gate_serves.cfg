\* Every handler runs to its end and the one adapter answers.
SPECIFICATION FairSpec
CONSTANTS
  s1 = s1
  s2 = s2
  p1 = p1
  p2 = p2
  a1 = a1
  a2 = a2
  c1 = c1
  c2 = c2
  None = None
  Sessions = {s1, s2}
  Calls = {c1, c2}
  Proposals = {p1, p2}
  Gated = {p1}
  Adapters = {a1}
  Faults = {"mcp_restart", "foreign", "recommit"}
CHECK_DEADLOCK FALSE
INVARIANTS
  WhatIsToldIsSo
PROPERTIES
  ApprovalDrivesEffect
