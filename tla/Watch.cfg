\* Refreshes of two subscriptions to two keys with snapshots of three sizes and a
\* clock, against invalidation, eviction and close; or one key: two incarnations
\* of its worker, two readers with short queues, a collection that changes, is
\* compacted and fails.
SPECIFICATION CacheSpec
CONSTANTS
  g1 = g1
  Keys = {k1, k2}
  Generations = {g1}
  GenerationOf <- MCGenerationOf
  Subs = {s1, s2}
  NoEntry = NoEntry
  Sizes = {1, 2, 3}
  MaxBytes = 2
  MaxEntries = 1
  FreshFor = 1
  MaxStale = 1
  MaxClock = 1
  MaxIssues = 3
  Data <- Snapshot
  Empty = Empty
  Objects = {1, 2}
  BigObjects = {2}
  Workers = {w1, w2}
  Readers = {r1, r2}
  QueueEvents = 2
  MaxRV = 2
  MaxUpsets = 1
CHECK_DEADLOCK FALSE
INVARIANTS
  ReadersConsistent
PROPERTIES
  FreshWins
  EvictionSafe
  ImplementsCells
  Converges
  IdleStops
