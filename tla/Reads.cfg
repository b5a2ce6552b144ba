\* Two visible requests and a prefetch, over two generations; or Bootstrap, a
\* context selection and a scope change beside a list or a review, over two contexts.
SPECIFICATION ReadingSpec
CONSTANTS
  Visible = {v, w}
  Prefetch = {p}
  Callers <- MCCallers
  Keys <- MCKeys
  NoCall = NoCall
  None = None
  Minimum = 1
  Initial = 2
  Maximum = 2
  MaxVersion = 2
  MaxGeneration = 2
  MaxUpsets = 2
  boot = boot
  s1 = s1
  n1 = n1
  l1 = l1
  r1 = r1
  a = a
  b = b
  Boot = boot
  Selects = {s1}
  Scopes = {n1}
  Lists = {l1}
  Reviews = {r1}
  Processes = {boot, s1, n1, l1, r1}
  Contexts = {a, b}
  Nothing = Nothing
  Destination <- MCDestination
  Async = FALSE
  MaxFile = 2
  MaxMishaps = 2
SYMMETRY Symmetry
CHECK_DEADLOCK FALSE
INVARIANTS
  
  WaitersHaveSignal
  CallsShared
  

  
