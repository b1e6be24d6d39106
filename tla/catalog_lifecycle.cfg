\* Four concurrent requests, batches of one item included; any call may fail, and the clock may be set back.
SPECIFICATION Spec
CONSTANTS
  Req = {r1, r2, r3, r4}
  MaxBatch = 1
  Ops = {"create", "batch", "update_metadata", "submit_review", "approve", "return"}
  Faults = {"io", "rollback"}
  Exclusive = FALSE
  Meta = {m1}
  Blank = blank
  Time = {1, 2}
SYMMETRY Symmetry
INVARIANTS RecordsSound PublicWasReviewed OnlyMakersTakeBack
PROPERTY OnlyFailingBatchesEraseEvents
