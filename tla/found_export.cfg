\* A client exports the working view.
SPECIFICATION Spec
CONSTANTS
  Meta <- MCMeta
  Request <- MCRequest
  Blank = blank
  Time = {1, 2}
  Id = {1, 2, 3}
  DefaultLimit = 1
  MaxLimit = 2
  MaxTopTags = 1
  MaxSaves = 1

INVARIANT ExportStaysPublic
