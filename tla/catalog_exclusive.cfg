\* Clients keep to one request per artifact; a rollback fails once its client has gone.
SPECIFICATION Spec
CONSTANTS
  Req = {r1, r2, r3}
  MaxBatch = 2
  Ops = {"create", "batch", "update_metadata", "submit_review", "approve", "return"}
  Faults = {"io", "cancel", "crash", "actor"}
  Exclusive = TRUE
  Meta = {m1}
  Blank = blank
  Time = {1}
SYMMETRY Symmetry
INVARIANTS TypeOK AcknowledgedDurable TrailNeverAhead GapsExcused
