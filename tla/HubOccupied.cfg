SPECIFICATION Spec
CONSTANTS
  Clients = {c1,c2}
  Timers = {t1,t2}
  Max = 2
  None = None
PROPERTY OccupiedRoomNotEnded
SYMMETRY Symmetry
