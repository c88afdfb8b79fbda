CONSTANTS
  Writers = {w1, w2}
  Subs = {s1}
  Blocks = {b1}
  RateLimited = {}
  Closers = {}
  _max_pollwaiters = 1
  GenMod = 8
  MaxWrites = 4
SPECIFICATION Spec
INVARIANT NoLostUpdate
CHECK_DEADLOCK FALSE
