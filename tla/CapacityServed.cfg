SPECIFICATION FairSpec
CONSTANTS
  Rooms = {r1}
  Sessions = {s1,s2}
  Reservations = {v1,v2,v3}
  Requests = {q1}
  Capacity = 1
  None = None
PROPERTY WaitersServed
