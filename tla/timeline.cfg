\* Two adapters with a proposal each, two wordings, three events, a window of two numbers.
SPECIFICATION Spec
CONSTANTS
  a1 = a1
  a2 = a2
  p1 = p1
  p2 = p2
  w1 = w1
  w2 = w2
  None = None
  Entity = Entity
  Words = {w1, w2}
  Adapters = {a1, a2}
  Proposals = {p1, p2}
  Home <- MCHome
  Window = 2
  MaxEvents = 3
  MaxDeliveries <- MCMaxDeliveries
SYMMETRY MCSymmetry
CHECK_DEADLOCK FALSE
INVARIANTS
  LedgerIsWhatCame
PROPERTIES
  StoriesHold
  DeduperKeepsItsWindow
