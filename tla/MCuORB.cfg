CONSTANTS
  Writers = {w1}
  Subs = {s1, s2}
  Blocks = {b1, b2}
  RateLimited = {s1}
  Closers = {s2}
  _max_pollwaiters = 2
  GenMod = 3
  MaxWrites = 2
SPECIFICATION FairSpec
INVARIANTS TypeOK NoLostUpdate NoLostWakeup NoSpuriousUpdate CalledMeansRemoved
  AdvertiseSucceeds
PROPERTIES WaiterIsWoken ImplementsTopic
