\* Two mutations across a change of generation, the TTL and shutdown; two session
\* ids, two upgrades that may race for one ticket, one slot, two generations; or
\* one remote command.
SPECIFICATION OperationsSpec
CONSTANTS
  r1 = r1
  r2 = r2
  k1 = k1
  k2 = k2
  Requests = {r1, r2}
  IKeys = {k1, k2}
  Kinds = {"Deployment", "CronJob"}
  Calls <- EveryPair
  NoOne = NoOne
  MaxEntries = 1
  MaxUpsets = 1
  TTLElapses = TRUE
  Ids = {i1, i2}
  Upgrades = {u1, u2}
  None = None
  RemoteWords = {"target_gone"}
  AbortWords = {"too_large"}
  TimerWords = {"idle"}
  MaximumExecSessions = 1
  MaximumPendingTickets = 1
  OutboundMessages = 1
  MaxGeneration = 2
  MaxExecUpsets = 2
CHECK_DEADLOCK FALSE

  
  
PROPERTIES
  MutationsFenced
  RequestsEnd
  SlotsReturn
  RemoteEndsWhole
