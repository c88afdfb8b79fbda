CONSTANTS
  Writers = {w1}
  Subs = {s1}
  Blocks = {b1}
  RateLimited = {s1}
  Closers = {s1}
  _max_pollwaiters = 1
  GenMod = 4
  MaxWrites = 2
SPECIFICATION Spec
INVARIANT CalledMeansRemoved
