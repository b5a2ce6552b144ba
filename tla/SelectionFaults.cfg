\* Two competing mutations, every fault, Bootstrap and GET /session beside them.
SPECIFICATION FairSpec
CONSTANTS
  Contexts = {ca}
  MaxScopes = 0
  NoContext = NoContext
  Requests = {r1, r2}
  Handlers = {h1}
  Kinds = {"context", "check"}
  Faults = {"rotate", "nonce", "reread", "async"}
  StoredRows <- MCStoredRows
  NoRequest = NoRequest
CHECK_DEADLOCK FALSE
INVARIANTS
  StateFollowsGeneration
PROPERTIES
  NewestIntentWins
  RequestsEnd
  SessionRecovers
