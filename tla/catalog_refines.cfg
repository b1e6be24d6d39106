\* Clients keep to one request per artifact; forward calls may fail.
SPECIFICATION Spec
CONSTANTS
  Req = {r1, r2, r3}
  MaxBatch = 2
  Ops = {"create", "batch", "update_metadata", "submit_review", "approve", "return"}
  Faults = {"io", "actor"}
  Exclusive = TRUE
  Meta = {m1}
  Blank = blank
  Time = {1}

INVARIANT SettledTrailExact
PROPERTY ImplementsArchive
