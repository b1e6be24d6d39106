\* Four concurrent requests over stores that never fail, and a reader of histories.
SPECIFICATION HSpec
CONSTANTS
  Req = {r1, r2, r3, r4}
  MaxBatch = 2
  Ops = {"batch", "update_metadata", "submit_review"}
  Faults = {}
  Exclusive = FALSE
  Meta = {m1}
  Blank = blank
  Time = {1}
SYMMETRY Symmetry
INVARIANTS TrailHasNoGaps 
 
