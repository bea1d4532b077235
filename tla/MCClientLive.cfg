CONSTANTS
  k1 = k1
  k2 = k2
  Callers = {k1, k2}
  Conns = {1}
  Trees = {1, 2}
  ProbeAfter = 1
  EvictAfter = 2
SPECIFICATION FairSpec
PROPERTIES EvictedInTheEnd WaitersServed
