\* Every mutation of the selection, two at a time, on the headless server.
SPECIFICATION Spec
CONSTANTS
  Contexts = {ca, cb}
  MaxScopes = 2
  NoContext = NoContext
  Requests = {r1, r2}
  Handlers = {}
  Kinds = {"context", "create", "update", "delete", "select", "default", "check"}
  Faults = {"nonce"}
  StoredRows <- MCStoredRows
  NoRequest = NoRequest
SYMMETRY Symmetry
CHECK_DEADLOCK FALSE
INVARIANTS
  StoreCoherent
