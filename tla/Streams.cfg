\* Two viewers and two sessions of a topic with two sources, rings and queues
\* of two events.
SPECIFICATION FairSpec
CONSTANTS
  Viewers = {v1, v2}
  Sessions = {e1, e2}
  Sources = {a, b}
  None = None
  MaximumStreams = 1
  RingEvents = 2
  QueueEvents = 2
  MaxEvents = 4
  MaxUpsets = 2
CHECK_DEADLOCK FALSE
INVARIANTS
  Assembled
PROPERTIES
  ImplementsFeed
  AbandonedStops
