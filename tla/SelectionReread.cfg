\* SetContext commits, its trailing read fails.
SPECIFICATION Spec
CONSTANTS
  Contexts = {ca, cb}
  MaxScopes = 2
  NoContext = NoContext
  Requests = {r1, r2}
  Handlers = {}
  Kinds = {"context"}
  Faults = {"reread"}
  StoredRows <- MCStoredRows
  NoRequest = NoRequest
SYMMETRY Symmetry
CHECK_DEADLOCK FALSE
INVARIANT CommittedContextIsPublished
