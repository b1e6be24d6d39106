\* A failing batch takes the acknowledged events of another request with it.
SPECIFICATION Spec
CONSTANTS
  Req = {r1, r2}
  MaxBatch = 2
  Ops = {"batch", "submit_review"}
  Faults = {"io"}
  Exclusive = FALSE
  Meta = {m1}
  Blank = blank
  Time = {1}
INVARIANT AcknowledgedAudited
