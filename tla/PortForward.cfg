\* Three requests, two objects and one slot, or two requests for one object, a
\* change of generation and the end of the service, or one tunnel with two
\* local connections.
SPECIFICATION ForwardsSpec
CONSTANTS
  r1 = r1
  r2 = r2
  r3 = r3
  a = a
  b = b
  Requests = {r1, r2, r3}
  Objects = {a, b}
  NoOne = NoOne
  MaximumPortForwardSessions = 1
  MaxGen = 1
  Ends = {"shutdown", "root"}
  Locals = {c1, c2}
  Nobody = Nobody
CHECK_DEADLOCK FALSE
INVARIANTS
  TunnelsAccounted
PROPERTIES
  ForwardsSettle
  TunnelEndsTold
