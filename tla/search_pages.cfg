\* A client turns pages of at most 2 beside a writer that makes one change.
SPECIFICATION Spec
CONSTANTS
  Meta <- MCMeta
  Request <- MCRequest
  Blank = blank
  Time = {1, 2}
  Id = {1, 2, 3}
  DefaultLimit = 1
  MaxLimit = 2
  MaxTopTags = 1
  MaxSaves = 1

INVARIANTS
  TypeOK
  PublicAnswersApproved
  QuietWalkExact
  NothingPublicSkipped
  SummaryAgrees
