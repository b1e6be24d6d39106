\* The audit store under fair scheduling: the process dies, and directories do not sync.
SPECIFICATION FairSpec
CONSTANTS
  Proc = {p1, p2}
  Id = {e1, e2}
  Value = {a1}
  Junk = junk
  Kind = "events"
  Torn = torn
  Faults = {"io", "dirsync", "crash"}
INVARIANT NeverStuck
PROPERTIES EveryCallReturns ImplementsStore
