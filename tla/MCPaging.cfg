\* One client pages through three rows that come and go; some may share a created_at.
SPECIFICATION Spec
CONSTANTS
  Ids <- Rows
  Clients = {c1}
  PageSize = 1
  MaxTime = 3
INVARIANT TypeOK
INVARIANT ListComplete
INVARIANT ShownOnce
CHECK_DEADLOCK FALSE
