\* Two requests and one GET /metrics in a process that is told to stop; clients leave, actors are overlong, the shutdown may time out.
SPECIFICATION FairHttpSpec
CONSTANTS
  Req = {r1, r2}
  MaxBatch = 2
  Ops = {"batch","submit_review"}
  Faults = {"cancel","actor","crash"}
  Exclusive = FALSE
  Meta = {m1}
  Blank = blank
  Time = {1}
INVARIANTS HttpTypeOK SnapshotCountsAnswers ClientErrorsLeaveNoTrace
PROPERTIES EveryRequestAnswered Drains HandlersAdvance
