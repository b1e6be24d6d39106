\* The artifact store: calls fail or are cancelled, and the machine dies.
SPECIFICATION Spec
CONSTANTS
  Proc = {p1, p2}
  Id = {a1, a2}
  Value = {v1, v2}
  Junk = junk
  Kind = "artifacts"
  Torn = torn
  Faults = {"io", "cancel", "power"}
INVARIANTS TypeOK CacheCoherent AlwaysLoadable AnsweredDurable
PROPERTY ImplementsStore
