SPECIFICATION Spec
CONSTANTS
  Rooms = {r1,r2,r3}
  Sessions = {s1,s2}
  Reservations = {v1,v2,v3}
  Requests = {q1}
  Capacity = 2
  None = None
SYMMETRY Symmetry
INVARIANTS TypeOK CapacityBound EveryOpenRoomExpires QueueOrdered
PROPERTIES SlotsSpec FirstComeFirstServed NewcomersAfterHead NoIdleSlots OnlyLateTransfersRevive LineSpec
