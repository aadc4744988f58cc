SPECIFICATION FairSpec
CONSTANTS
  Producers = {p1, p2}
  Consumers = {c1, c2}
  Events = {e1, e2}
  Capacity = 2
  NoEvent = NoEvent
INVARIANTS Inv NoLostWakeup
PROPERTIES ImplementsFifo ImplementsFairFifo
