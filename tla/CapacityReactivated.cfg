SPECIFICATION Spec
CONSTANTS
  Rooms = {r1,r2}
  Sessions = {s1}
  Reservations = {v1,v2}
  Requests = {q1,q2}
  Capacity = 1
  None = None
PROPERTY EndedRoomsStayEnded
