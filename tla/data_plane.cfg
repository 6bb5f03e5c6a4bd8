\* Three records that others change twice; pages of one row; batches of two ids.
SPECIFICATION Spec
CONSTANTS
  All = All
  NoExport = NoExport
  Ids = {1, 2, 3}
  Items = {1, 2, 3}
  Backends <- MCBackends
  Tables <- MCTables
  Requests <- MCRequests
  Fields = {"name", "salary"}
  Returnable = {"name", "salary"}
  Sensitive = {"salary"}
  Default = {"name", "salary"}
  FilterField = "name"
  BlankPasses = FALSE
  Limit = 1
  ChangeLimit = 2
  PageSize = 1
  EdgeBound = 2
  Threshold = 1
  Cap = 4
  MaxChanges = 2
  BatchSize = 2
  MaxRuns = 2
  Tenants = {"t1"}
  TTL = 1
  MaxTime = 1
CHECK_DEADLOCK FALSE
INVARIANTS
  ReadsAreComplete
  UnapprovedIsBounded
  JobIsWhole
