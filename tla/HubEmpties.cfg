SPECIFICATION FairSpec
CONSTANTS
  Clients = {c1,c2}
  Timers = {t1,t2}
  Max = 1
  None = None
INVARIANTS TypeOK PresenceBound SeatReturned EntryCurrent EmptyRoomWatched
PROPERTIES EmptyRoomEnds MediaDeleted MembersSpec EmptyRoomRunsOut
