\* Two processes, a controller and two updaters; two versions, the second of
\* which brings a destructive migration; two ports.
SPECIFICATION FairSpec
CONSTANTS
  Procs = {p1, p2}
  Controllers = {c}
  None = None
  Ports = {1, 2}
  Destructive = {2}
  Updaters = {a, b}
  Versions = {2}
  MaxUpsets = 2
CHECK_DEADLOCK FALSE
PROPERTIES
  InstanceTruthful
  
  AllOrNothing
  LockReturns
