\* Two handlers work on the record they read, and the later Save wins.
SPECIFICATION Spec
CONSTANTS
  Req = {r1, r2, r3}
  MaxBatch = 1
  Ops = {"create", "update_metadata", "submit_review"}
  Faults = {}
  Exclusive = FALSE
  Meta = {m1, m2}
  Blank = blank
  Time = {1}
PROPERTY SubmittedMetaFrozen
