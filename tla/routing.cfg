SPECIFICATION Spec
CONSTANTS
  w1 = w1
  w2 = w2
  crm = crm
  books = books
  u1 = u1
  u2 = u2
  u3 = u3
  None = None
  TheActive = TheActive
  Workspaces = {w1, w2}
  Adapters = {crm, books}
  Urls = {u1, u2, u3}
  Places <- MCPlaces
  Connections = {"c1", "c2"}
  Headers <- MCHeaders
  Plain = {u2}
  Default <- MCDefault
  Verbs = {"lead", "invoice"}
  Offers <- MCOffers
  Fields = {"id"}
  Fires = {"f1"}
  MaxRedeploys = 1
  ComposedPlans <- MCPlans
  Autos <- MCAutos
  Plans <- MCPlans
  Triggers <- MCTriggers
  Drafts <- MCDrafts
  Moves = {"active"}
  OnlyLatest = TRUE
  MaxVersions = 1
CONSTRAINT OneAtATime
INVARIANTS
  StagesRunAsDrafted
PROPERTIES
  OneBackend
CHECK_DEADLOCK FALSE
