CONSTANTS
  k1 = k1
  k2 = k2
  Callers = {k1, k2}
  Conns = {1, 2}
  Trees = {1, 2}
  ProbeAfter = 1
  EvictAfter = 2
SPECIFICATION Spec
INVARIANTS SingleFlight Undisturbed OneGoodbye
PROPERTY ForgetsOwn
SYMMETRY Interchangeable
