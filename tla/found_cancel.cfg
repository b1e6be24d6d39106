\* The client goes away while its change is between the two stores.
SPECIFICATION Spec
CONSTANTS
  Req = {r1, r2}
  MaxBatch = 1
  Ops = {"create", "submit_review"}
  Faults = {"cancel"}
  Exclusive = TRUE
  Meta = {m1}
  Blank = blank
  Time = {1}
INVARIANT SettledTrailExact
