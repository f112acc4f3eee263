----------------------------- MODULE QueueProofs -----------------------------
(***************************************************************************)
(* The queue's keys never contradict each other, nobody but its holder, or  *)
(* time, takes a claimable reservation away, and slots are granted in the   *)
(* order of the queue.                                                      *)
(***************************************************************************)
EXTENDS CapacityProofs

\* The part of ReservationsConsistent that is about the store, and the part about
\* what one handler has in hand.
StoreConsistent ==
  /\ \A v \in Reservations : resKey[v] # None => v \in reservations /\ resKey[v] \notin queue
  /\ \A u, v \in Reservations : resKey[u] = resKey[v] /\ resKey[u] # None => u = v
  /\ \A s \in Sessions : status[s] = "reserved" => s \notin queue /\ granted[s] # None
  /\ \A s \in Sessions : granted[s] # None => resKey[granted[s]] \in {s, None}

CallConsistent(q) ==
  /\ call[q].pc \in {"check", "remove", "leave"} /\ call[q].reservation # None =>
       resKey[call[q].reservation] \in {call[q].session, None}
  /\ call[q].pc \in {"check", "beat", "remove", "leave"} => call[q].session \notin joining

\* Nothing refers to a session before the pipeline of its Join has run.
JoiningUnknown ==
  \A s \in joining : /\ status[s] = "none" /\ s \notin queue
                     /\ \A v \in Reservations : resKey[v] # s

\* The inductive invariant: the types and JoiningUnknown are what makes it so, since what is
\* removed would otherwise take the place of a session that is still to come.
ReservationInv ==
  /\ TypeOK /\ JoiningUnknown /\ StoreConsistent
  /\ \A q \in Requests : CallConsistent(q)

-----------------------------------------------------------------------------
(* The pieces the actions are made of. *)

\* The session of a claimable reservation is not deleted by the pruning.
LEMMA HolderSurvives ==
  ASSUME TypeOK, StoreConsistent, NEW v \in LiveReservations
  PROVE  /\ v \in Reservations /\ v \in reservations /\ v \notin resDue
         /\ resKey[v] \in Sessions /\ resKey[v] # None
         /\ resKey[v] \notin Evicted /\ resKey[v] \notin queue
         /\ status[resKey[v]] = "reserved" /\ resKey[v] \notin stale
         /\ granted[resKey[v]] = v
  BY DEF TypeOK, StoreConsistent, LiveReservations, StaleReservation, Holds, Evicted

LEMMA LiveByParts ==
  ASSUME NEW v, v \in reservations', v \notin resDue', resKey'[v] # None,
         status'[resKey'[v]] = "reserved", resKey'[v] \notin stale',
         granted'[resKey'[v]] = v
  PROVE  v \in LiveReservations'
  BY DEF LiveReservations, StaleReservation, Holds

\* Pruning, alone or with one session and its own reservation.
LEMMA PruneConsistent ==
  ASSUME ReservationInv, NEW gone, NEW lapsed,
         DropSessions(gone), Dequeue(gone), DropReservations(lapsed)
  PROVE  /\ JoiningUnknown' /\ StoreConsistent' /\ joining' = joining
         /\ \A v \in Reservations : resKey'[v] \in {resKey[v], None}
  <1>1. /\ status' = [s \in Sessions |-> IF s \in gone THEN "none" ELSE status[s]]
        /\ granted' = [s \in Sessions |-> IF s \in gone THEN None ELSE granted[s]]
        /\ queue' = queue \ gone /\ joining' = joining
        /\ reservations' = reservations \ lapsed
        /\ resKey' = [v \in Reservations |-> IF v \in lapsed THEN None ELSE resKey[v]]
    BY DEF DropSessions, Dequeue, DropReservations
  <1>2. JoiningUnknown'
    BY <1>1, NoneAssumption DEF ReservationInv, JoiningUnknown, TypeOK
  <1>3. StoreConsistent'
    BY <1>1 DEF ReservationInv, StoreConsistent, TypeOK
  <1> QED
    BY <1>1, <1>2, <1>3

LEMMA PruneKeeps ==
  ASSUME ReservationInv, NEW gone, NEW lapsed, NEW v \in LiveReservations,
         DropSessions(gone), DropReservations(lapsed),
         v \notin lapsed, resKey[v] \notin gone
  PROVE  v \in LiveReservations'
  <1>1. /\ resKey[v] \in Sessions /\ v \in Reservations /\ resKey[v] # None
        /\ v \in reservations /\ v \notin resDue /\ granted[resKey[v]] = v
        /\ status[resKey[v]] = "reserved" /\ resKey[v] \notin stale
    BY HolderSurvives DEF ReservationInv
  <1>2. v \in reservations' /\ v \notin resDue' /\ resKey'[v] = resKey[v]
    BY <1>1 DEF DropReservations
  <1>3. /\ status'[resKey[v]] = "reserved" /\ granted'[resKey[v]] = v
        /\ resKey[v] \notin stale'
    BY <1>1 DEF DropSessions
  <1> QED
    BY <1>1, <1>2, <1>3, LiveByParts

LEMMA PoppedQueued ==
  ASSUME ReservationInv, NEW open, NEW w \in Winners(open)
  PROVE  Popped(open, w) \subseteq queue
  BY DEF Winners, Popped, Live

\* A promotion leaves the keys consistent, and gives a key away only under a new id.
LEMMA PromotionConsistent ==
  ASSUME ReservationInv, NEW open, Promotion(open)
  PROVE  /\ JoiningUnknown' /\ StoreConsistent' /\ joining' = joining
         /\ \A v \in Reservations :
              resKey'[v] \in {resKey[v], None} \/ FreshReservation(v)
  <1>1. PICK w \in Winners(open) :
          IF w = None THEN PruneAndPromote(open, None, None)
          ELSE \E v \in Reservations : PruneAndPromote(open, w, v)
    BY DEF Promotion
  <1>2. CASE w = None
    BY <1>1, <1>2, PruneConsistent DEF PruneAndPromote, PruneReservations
  <1>3. CASE w # None
    <2>1. /\ w \in Sessions /\ w \in queue /\ w \notin Evicted /\ status[w] = "waiting"
          /\ SlotFree(open)
      BY <1>3 DEF Winners, Live, ReservationInv, TypeOK
    <2>2. PICK v \in Reservations : PruneAndPromote(open, w, v)
      BY <1>1, <1>3
    <2> DEFINE gone == Evicted \cup Popped(open, w)
    <2>3. w \in gone
      BY <1>3, <2>1 DEF Popped
    <2>4. /\ FreshReservation(v) /\ v # None
          /\ status' = [s \in Sessions |-> IF s = w THEN "reserved"
                          ELSE IF s \in gone \ {w} THEN "none" ELSE status[s]]
          /\ granted' = [s \in Sessions |-> IF s = w THEN v
                           ELSE IF s \in gone \ {w} THEN None ELSE granted[s]]
          /\ queue' = queue \ gone /\ joining' = joining
          /\ reservations' = LiveReservations \cup {v}
          /\ resKey' = [u \in Reservations |-> IF u = v THEN w
                          ELSE IF u \in LiveReservations THEN resKey[u] ELSE None]
      BY <1>3, <2>2, NoneAssumption DEF PruneAndPromote, Dequeue
    <2>5. JoiningUnknown'
      BY <2>1, <2>4, NoneAssumption DEF ReservationInv, JoiningUnknown, TypeOK
    <2>6. \A u \in Reservations : resKey[u] # w
      BY <1>3, <2>1 DEF ReservationInv, StoreConsistent
    <2>7. \A u \in Reservations : resKey'[u] # None =>
            u \in reservations' /\ resKey'[u] \notin queue'
      BY <2>3, <2>4 DEF ReservationInv, StoreConsistent
    <2>8. \A t, u \in Reservations : resKey'[t] = resKey'[u] /\ resKey'[t] # None => t = u
      BY <2>4, <2>6 DEF ReservationInv, StoreConsistent
    <2>9. \A s \in Sessions : status'[s] = "reserved" => s \notin queue' /\ granted'[s] # None
      BY <2>3, <2>4 DEF ReservationInv, StoreConsistent
    <2>10. \A s \in Sessions : granted'[s] # None => resKey'[granted'[s]] \in {s, None}
      BY <2>4 DEF ReservationInv, TypeOK, StoreConsistent, FreshReservation
    <2>11. \A u \in Reservations : resKey'[u] \in {resKey[u], None} \/ FreshReservation(u)
      BY <2>4
    <2> QED
      BY <2>4, <2>5, <2>7, <2>8, <2>9, <2>10, <2>11 DEF StoreConsistent
  <1> QED
    BY <1>2, <1>3

LEMMA PromotionKeeps ==
  ASSUME ReservationInv, NEW open, Promotion(open), NEW v \in LiveReservations
  PROVE  v \in LiveReservations'
  <1>1. PICK w \in Winners(open) :
          IF w = None THEN PruneAndPromote(open, None, None)
          ELSE \E u \in Reservations : PruneAndPromote(open, w, u)
    BY DEF Promotion
  <1> DEFINE h == resKey[v]
  <1>2. /\ h \in Sessions /\ v \in Reservations /\ h # None
        /\ v \in reservations /\ v \notin resDue /\ granted[h] = v
        /\ status[h] = "reserved" /\ h \notin stale /\ h \notin Evicted /\ h \notin queue
    BY HolderSurvives DEF ReservationInv
  <1>3. h \notin Popped(open, w)
    BY <1>2, PoppedQueued
  <1>4. CASE w = None
    BY <1>1, <1>2, <1>3, <1>4, PruneKeeps DEF PruneAndPromote, PruneReservations
  <1>5. CASE w # None
    <2>1. w \in queue
      BY <1>5 DEF Winners, Live
    <2>2. PICK u \in Reservations : PruneAndPromote(open, w, u)
      BY <1>1, <1>5
    <2>3. u # v
      BY <1>2, <1>5, <2>2 DEF PruneAndPromote, FreshReservation
    <2>4. v \in reservations' /\ v \notin resDue' /\ resKey'[v] = h
      BY <1>2, <1>5, <2>2, <2>3 DEF PruneAndPromote
    <2>5. status'[h] = "reserved" /\ granted'[h] = v /\ h \notin stale'
      BY <1>2, <1>3, <1>5, <2>1, <2>2 DEF PruneAndPromote
    <2> QED
      BY <1>2, <2>4, <2>5, LiveByParts
  <1> QED
    BY <1>4, <1>5

\* What a handler has in hand stays consistent while it does not move, keys only go, and
\* whoever comes to join has an id that nobody names.
LEMMA CallKept ==
  ASSUME TypeOK, NEW q \in Requests, CallConsistent(q), call'[q] = call[q],
         \A v \in Reservations : resKey'[v] \in {resKey[v], None} \/ FreshReservation(v),
         \A s \in joining' : s \in joining \/ FreshSession(s)
  PROVE  CallConsistent(q)'
  <1>1. ASSUME call[q].pc \in {"check", "remove", "leave"}, call[q].reservation # None
        PROVE  resKey'[call[q].reservation] \in {call[q].session, None}
    <2>1. call[q].reservation \in Reservations
      BY <1>1, CallTypes DEF TypeOK
    <2>2. ~FreshReservation(call[q].reservation)
      BY <1>1 DEF FreshReservation
    <2> QED
      BY <1>1, <2>1, <2>2 DEF CallConsistent
  <1>2. ASSUME call[q].pc \in {"check", "beat", "remove", "leave"}
        PROVE  call[q].session \notin joining'
    BY <1>2 DEF CallConsistent, FreshSession
  <1> QED
    BY <1>1, <1>2 DEF CallConsistent

-----------------------------------------------------------------------------
(* The invariant is inductive. *)

LEMMA FreshSessionUnused ==
  ASSUME NEW s \in Sessions, FreshSession(s)
  PROVE  /\ status[s] = "none" /\ s \notin queue
         /\ \A v \in Reservations : resKey[v] # s
  BY DEF FreshSession, Placed

LEMMA StoreStep ==
  ReservationInv /\ [Next]_vars =>
    /\ JoiningUnknown' /\ StoreConsistent'
    /\ \A v \in Reservations : resKey'[v] \in {resKey[v], None} \/ FreshReservation(v)
    /\ \A s \in joining' : s \in joining \/ FreshSession(s)
  <1> DEFINE Goal == /\ JoiningUnknown' /\ StoreConsistent'
                     /\ \A v \in Reservations :
                          resKey'[v] \in {resKey[v], None} \/ FreshReservation(v)
                     /\ \A s \in joining' : s \in joining \/ FreshSession(s)
  <1> SUFFICES ASSUME ReservationInv, [Next]_vars PROVE Goal
    OBVIOUS
  <1>1. ASSUME UNCHANGED <<status, granted, queue, joining, reservations, resKey>> PROVE Goal
    BY <1>1 DEF ReservationInv, JoiningUnknown, StoreConsistent
  <1>2. ASSUME NEW s \in Sessions, Join(s) PROVE Goal
    BY <1>2, FreshSessionUnused
       DEF ReservationInv, TypeOK, JoiningUnknown, StoreConsistent, Join, reservationVars
  <1>3. ASSUME NEW s \in Sessions, NEW r \in Rooms, ClaimRoom(s, r) PROVE Goal
    BY <1>3, PruneConsistent DEF ClaimRoom, PruneSessions, PruneReservations
  <1>4. ASSUME RefuseClaim PROVE Goal
    BY <1>4, PruneConsistent DEF RefuseClaim, PruneSessions, PruneReservations
  <1>5. ASSUME NEW r \in Rooms, CreateRoom(r) PROVE Goal
    BY <1>5, PromotionConsistent DEF CreateRoom
  <1>6. ASSUME NEW q \in Requests, PromoteNext(q) PROVE Goal
    BY <1>6, PromotionConsistent DEF PromoteNext
  <1>7. ASSUME NEW q \in Requests, EndRoom(q) PROVE Goal
    BY <1>7, PromotionConsistent DEF EndRoom
  <1>8. ASSUME NEW q \in Requests, Beat(q) PROVE Goal
    <2>1. call[q].session \in Sessions /\ call[q].session \notin joining
      BY <1>8, CallTypes DEF Beat, ReservationInv, TypeOK, CallConsistent
    <2> QED
      BY <1>8, <2>1 DEF Beat, ReservationInv, TypeOK, JoiningUnknown, StoreConsistent,
           lineVars, reservationVars
  <1>9. ASSUME NEW q \in Requests, RemoveSession(q) PROVE Goal
    BY <1>9, PruneConsistent DEF RemoveSession
  <1>10. ASSUME NEW s \in Sessions, ExpireSessionKey(s) PROVE Goal
    BY <1>10 DEF ExpireSessionKey, DropSessions, ReservationInv, TypeOK, JoiningUnknown,
         StoreConsistent, lineVars, reservationVars
  <1>11. ASSUME NEW v \in Reservations, ExpireReservationKey(v) PROVE Goal
    BY <1>11, NoneAssumption DEF ExpireReservationKey, ReservationInv, TypeOK, JoiningUnknown,
         StoreConsistent, sessionVars, lineVars
  <1>12. ASSUME NEW s \in Sessions, Enqueue(s) \/ JoinFails(s) PROVE Goal
    BY <1>12 DEF ReservationInv, TypeOK, JoiningUnknown, StoreConsistent, Enqueue, JoinFails,
                 reservationVars
  <1> QED
    BY <1>1, <1>2, <1>3, <1>4, <1>5, <1>6, <1>7, <1>8, <1>9, <1>10, <1>11, <1>12
       DEF Next, QueueStep, RoomStep, Progress, Deadline, ReadStatus, CheckStatus,
           ReadRoomToEnd, ReadRoomToTransfer, UpdateRoom, Abandon, RemoveFails, ClockTicks,
           RoomDeadline, HeartbeatDeadline, ReservationDeadline, vars, sessionVars, lineVars,
           reservationVars

\* A handler takes a new reservation in hand only from the hash it reads.
LEMMA HandlerStep ==
  ReservationInv /\ [Next]_vars => \A q \in Requests : CallConsistent(q)'
  <1> SUFFICES ASSUME ReservationInv, [Next]_vars, NEW q \in Requests
               PROVE  CallConsistent(q)'
    OBVIOUS
  <1>1. CASE call'[q] = call[q]
    BY <1>1, StoreStep, CallKept DEF ReservationInv
  <1>2. CASE call'[q].pc \notin {"check", "beat", "remove", "leave"}
    BY <1>2 DEF CallConsistent
  <1>3. ASSUME NEW p \in Requests, NEW s \in Sessions,
               NEW op \in {"status", "heartbeat", "leave"}, ReadStatus(p, s, op)
        PROVE  CallConsistent(q)'
    <2>1. CASE p = q
      <3>1. call'[q].session = s /\ call'[q].reservation = granted[s]
        BY <1>3, <2>1 DEF ReadStatus, ReservationInv, TypeOK
      <3>2. resKey' = resKey /\ joining' = joining /\ s \notin joining
        BY <1>3 DEF ReadStatus, reservationVars, sessionVars, lineVars, ReservationInv,
             JoiningUnknown
      <3> QED
        BY <3>1, <3>2 DEF CallConsistent, ReservationInv, StoreConsistent
    <2>2. CASE p # q
      BY <1>1, <1>3, <2>2 DEF ReadStatus, ReservationInv, TypeOK
    <2> QED
      BY <2>1, <2>2
  <1>4. ASSUME NEW p \in Requests, CheckStatus(p) PROVE CallConsistent(q)'
    <2>1. CASE p = q
      <3>1. call[q] \in [pc : {"check"}, op : {"status", "heartbeat", "leave"},
               session : Sessions, status : {"waiting", "reserved"},
               reservation : Reservations \cup {None}]
        BY <1>4, <2>1, CallTypes DEF CheckStatus, ReservationInv, TypeOK
      <3>2. \/ call'[q].pc = "idle"
            \/ call'[q].pc = "beat" /\ call'[q].session = call[q].session
            \/ call'[q].session = call[q].session /\ call'[q].reservation = call[q].reservation
        BY <1>4, <2>1, <3>1 DEF CheckStatus, ReservationInv, TypeOK, Idle
      <3>3. resKey' = resKey /\ joining' = joining /\ call[q].pc = "check"
        BY <1>4, <2>1 DEF CheckStatus, reservationVars, sessionVars, lineVars
      <3> QED
        BY <3>2, <3>3 DEF CallConsistent, ReservationInv
    <2>2. CASE p # q
      BY <1>1, <1>4, <2>2 DEF CheckStatus, ReservationInv, TypeOK
    <2> QED
      BY <2>1, <2>2
  <1>5. ASSUME NEW p \in Requests,
               \/ Beat(p) \/ RemoveSession(p) \/ PromoteNext(p) \/ EndRoom(p)
               \/ UpdateRoom(p) \/ Abandon(p) \/ RemoveFails(p)
               \/ \E r \in Rooms : ReadRoomToEnd(p, r) \/ ReadRoomToTransfer(p, r)
        PROVE  CallConsistent(q)'
    <2>1. CASE p = q
      BY <1>2, <1>5, <2>1 DEF Beat, RemoveSession, PromoteNext, EndRoom, UpdateRoom, Abandon,
           RemoveFails, ReadRoomToEnd, ReadRoomToTransfer, ReservationInv, TypeOK, Idle
    <2>2. CASE p # q
      BY <1>1, <1>5, <2>2 DEF Beat, RemoveSession, PromoteNext, EndRoom, UpdateRoom, Abandon,
           RemoveFails, ReadRoomToEnd, ReadRoomToTransfer, ReservationInv, TypeOK
    <2> QED
      BY <2>1, <2>2
  <1>6. ASSUME UNCHANGED call PROVE CallConsistent(q)'
    BY <1>1, <1>6
  <1> QED
    BY <1>3, <1>4, <1>5, <1>6
       DEF Next, QueueStep, RoomStep, Progress, Deadline, Join, Enqueue, JoinFails,
           ClockTicks, ClaimRoom, RefuseClaim,
           CreateRoom, RoomDeadline, HeartbeatDeadline, ReservationDeadline,
           ExpireSessionKey, ExpireReservationKey, vars

LEMMA ReservationStep == ReservationInv /\ [Next]_vars => ReservationInv'
  BY StoreStep, HandlerStep, TypeStep DEF ReservationInv

LEMMA ReservationInit == Init => ReservationInv
  BY TypeInit DEF Init, ReservationInv, JoiningUnknown, StoreConsistent, CallConsistent, Idle

LEMMA ReservationInvariant == Spec => []ReservationInv
  BY ReservationInit, ReservationStep, PTL DEF Spec

\* Hashes, keys, sorted sets and handlers agree about who holds which reservation.
THEOREM ReservationsAgree == Spec => []ReservationsConsistent
  <1>1. ReservationInv => ReservationsConsistent
    BY DEF ReservationInv, StoreConsistent, CallConsistent, ReservationsConsistent
  <1> QED
    BY <1>1, ReservationInvariant, PTL

-----------------------------------------------------------------------------
(* Claimable reservations are kept. *)

LEMMA KeptStep ==
  ReservationInv /\ [Next]_vars =>
    \A v \in LiveReservations : v \in LiveReservations' \/ OwnStep(resKey[v], v)
  <1> SUFFICES ASSUME ReservationInv, [Next]_vars, NEW v \in LiveReservations,
                      ~OwnStep(resKey[v], v)
               PROVE  v \in LiveReservations'
    OBVIOUS
  <1> DEFINE h == resKey[v]
  <1>1. /\ h \in Sessions /\ v \in Reservations /\ h # None
        /\ v \in reservations /\ v \notin resDue /\ granted[h] = v
        /\ status[h] = "reserved" /\ h \notin stale /\ h \notin Evicted /\ h \notin queue
    BY HolderSurvives DEF ReservationInv
  <1>2. ASSUME UNCHANGED <<status, granted, reservations, resDue, resKey>>, h \notin stale'
        PROVE  v \in LiveReservations'
    BY <1>1, <1>2, LiveByParts
  <1>3. ASSUME NEW s \in Sessions, Enqueue(s) PROVE v \in LiveReservations'
    <2>1. s # h
      BY <1>1, <1>3 DEF Enqueue, ReservationInv, JoiningUnknown
    <2>2. status'[h] = "reserved"
      BY <1>1, <1>3, <2>1 DEF Enqueue, ReservationInv, TypeOK
    <2> QED
      BY <1>1, <1>3, <2>2, LiveByParts DEF Enqueue, reservationVars
  <1>4. ASSUME NEW s \in Sessions, NEW r \in Rooms, ClaimRoom(s, r)
        PROVE  v \in LiveReservations'
    <2>1. s # h
      BY <1>1, <1>4 DEF OwnStep
    <2>2. granted[s] # v
      BY <1>1, <1>4, <2>1 DEF ClaimRoom, Claimable
    <2> QED
      BY <1>1, <1>4, <2>1, <2>2, PruneKeeps DEF ClaimRoom, PruneSessions, PruneReservations
  <1>5. ASSUME RefuseClaim PROVE v \in LiveReservations'
    BY <1>1, <1>5, PruneKeeps DEF RefuseClaim, PruneSessions, PruneReservations
  <1>6. ASSUME NEW r \in Rooms, CreateRoom(r) PROVE v \in LiveReservations'
    BY <1>6, PromotionKeeps DEF CreateRoom
  <1>7. ASSUME NEW q \in Requests, PromoteNext(q) PROVE v \in LiveReservations'
    BY <1>7, PromotionKeeps DEF PromoteNext
  <1>8. ASSUME NEW q \in Requests, EndRoom(q) PROVE v \in LiveReservations'
    BY <1>8, PromotionKeeps DEF EndRoom
  <1>9. ASSUME NEW q \in Requests, Beat(q) PROVE v \in LiveReservations'
    <2>1. status'[h] = "reserved" /\ h \notin stale'
      BY <1>1, <1>9 DEF Beat, ReservationInv, TypeOK
    <2> QED
      BY <1>1, <1>9, <2>1, LiveByParts DEF Beat, reservationVars
  <1>10. ASSUME NEW q \in Requests, RemoveSession(q) PROVE v \in LiveReservations'
    <2>1. call[q].session # h
      BY <1>10 DEF OwnStep, RemoveSession
    <2>2. call[q].reservation # v
      BY <1>1, <1>10, <2>1, NoneAssumption DEF RemoveSession, ReservationInv, CallConsistent
    <2> QED
      BY <1>1, <1>10, <2>1, <2>2, PruneKeeps DEF RemoveSession
  <1>11. ASSUME NEW s \in Sessions, ExpireSessionKey(s) PROVE v \in LiveReservations'
    <2>1. s # h
      BY <1>11 DEF OwnStep
    <2>2. status'[h] = "reserved" /\ granted'[h] = v /\ h \notin stale'
      BY <1>1, <1>11, <2>1 DEF ExpireSessionKey, DropSessions
    <2> QED
      BY <1>1, <1>11, <2>2, LiveByParts DEF ExpireSessionKey, reservationVars
  <1>12. ASSUME NEW s \in Sessions, HeartbeatDeadline(s) PROVE v \in LiveReservations'
    <2>1. s # h
      BY <1>12 DEF OwnStep
    <2> QED
      BY <1>1, <1>2, <1>12, <2>1 DEF HeartbeatDeadline, reservationVars
  <1>13. ASSUME NEW u \in Reservations, ReservationDeadline(u) \/ ExpireReservationKey(u)
         PROVE  v \in LiveReservations'
    <2>1. u # v
      BY <1>13 DEF OwnStep
    <2>2. /\ v \in reservations' /\ v \notin resDue' /\ resKey'[v] = h
          /\ UNCHANGED <<status, granted, stale>>
      BY <1>1, <1>13, <2>1 DEF ReservationDeadline, ExpireReservationKey, sessionVars,
           ReservationInv, TypeOK
    <2> QED
      BY <1>1, <2>2, LiveByParts
  <1> QED
    BY <1>1, <1>2, <1>3, <1>4, <1>5, <1>6, <1>7, <1>8, <1>9, <1>10, <1>11, <1>12, <1>13
       DEF Next, QueueStep, RoomStep, Progress, Deadline, ReadStatus, CheckStatus,
           ReadRoomToEnd, ReadRoomToTransfer, UpdateRoom, Abandon, RemoveFails, Join,
           JoinFails, ClockTicks, RoomDeadline, vars, sessionVars, reservationVars

\* A claimable reservation is lost only by its holder's own doing or by time.
THEOREM ClaimableKept == Spec => ReservationsKept
  BY ReservationInvariant, KeptStep, PTL DEF Spec, ReservationsKept

-----------------------------------------------------------------------------
(* First come, first served. *)

\* Only a promotion turns a waiting session into a reserved one, and it takes the
\* first of those that are fit.
LEMMA PromotionOrder ==
  ASSUME ReservationInv, NEW open, Promotion(open), NEW s \in Sessions,
         status[s] = "waiting", status'[s] = "reserved"
  PROVE  \A x \in ahead[s] \cap queue : x \in stale \/ status[x] # "waiting"
  <1>1. PICK w \in Winners(open) :
          IF w = None THEN PruneAndPromote(open, None, None)
          ELSE \E v \in Reservations : PruneAndPromote(open, w, v)
    BY DEF Promotion
  <1>2. w # None
    BY <1>1 DEF PruneAndPromote, DropSessions
  <1>3. s = w
    BY <1>1, <1>2 DEF PruneAndPromote
  <1>4. w \in Live /\ ahead[w] \cap Live = {}
    BY <1>2 DEF Winners
  <1>5. \A x \in queue : x # None /\ x \notin Evicted
    BY NoneAssumption DEF ReservationInv, TypeOK, StoreConsistent, Evicted
  <1> QED
    BY <1>3, <1>4, <1>5 DEF Live

LEMMA DequeueKeepsOrder ==
  ASSUME NEW gone, Dequeue(gone)
  PROVE  \A s \in Sessions : ahead'[s] \subseteq ahead[s]
  BY DEF Dequeue, Forget

LEMMA OrderStep ==
  ReservationInv /\ [Next]_vars =>
    \A s \in Sessions :
      /\ status[s] = "waiting" /\ status'[s] = "reserved" =>
           \A x \in ahead[s] \cap queue : x \in stale \/ status[x] # "waiting"
      /\ s \in queue \cap queue' =>
           /\ ahead'[s] \cap queue' \subseteq ahead[s]
           /\ s \in instant \/ ahead'[s] \subseteq ahead[s]
  <1> SUFFICES ASSUME ReservationInv, [Next]_vars, NEW s \in Sessions
               PROVE  /\ status[s] = "waiting" /\ status'[s] = "reserved" =>
                           \A x \in ahead[s] \cap queue : x \in stale \/ status[x] # "waiting"
                      /\ s \in queue \cap queue' =>
                           /\ ahead'[s] \cap queue' \subseteq ahead[s]
                           /\ s \in instant \/ ahead'[s] \subseteq ahead[s]
    OBVIOUS
  <1> DEFINE Goal ==
        /\ status[s] = "waiting" /\ status'[s] = "reserved" =>
             \A x \in ahead[s] \cap queue : x \in stale \/ status[x] # "waiting"
        /\ s \in queue \cap queue' =>
             /\ ahead'[s] \cap queue' \subseteq ahead[s]
             /\ s \in instant \/ ahead'[s] \subseteq ahead[s]
  <1>1. ASSUME UNCHANGED ahead, status'[s] = status[s] \/ status'[s] # "reserved" PROVE Goal
    BY <1>1
  <1>2. ASSUME NEW gone, NEW lost, DropSessions(lost), Dequeue(gone) PROVE Goal
    BY <1>2, DequeueKeepsOrder DEF DropSessions
  <1>3. ASSUME NEW open, Promotion(open) PROVE Goal
    <2>1. \E gone : Dequeue(gone)
      BY <1>3 DEF Promotion, PruneAndPromote
    <2> QED
      BY <1>3, <2>1, PromotionOrder, DequeueKeepsOrder
  <1>4. ASSUME NEW t \in Sessions, Join(t) PROVE Goal
    <2>1. t \notin queue /\ queue' = queue /\ status' = status
      BY <1>4, FreshSessionUnused DEF Join
    <2>2. PICK after \in SUBSET instant :
            ahead' = [x \in Sessions |-> IF x = t THEN Placed \ after
                        ELSE IF x \in after THEN ahead[x] \cup {t} ELSE ahead[x]]
      BY <1>4 DEF Join
    <2> QED
      BY <2>1, <2>2
  <1>5. ASSUME NEW q \in Requests, Beat(q) PROVE Goal
    BY <1>1, <1>5 DEF Beat, ReservationInv, TypeOK, lineVars
  <1>6. ASSUME NEW t \in Sessions, ExpireSessionKey(t) PROVE Goal
    BY <1>1, <1>6 DEF ExpireSessionKey, DropSessions, lineVars
  <1>7. ASSUME NEW t \in Sessions, NEW r \in Rooms, ClaimRoom(t, r) PROVE Goal
    BY <1>2, <1>7 DEF ClaimRoom, PruneSessions
  <1>8. ASSUME RefuseClaim PROVE Goal
    BY <1>2, <1>8 DEF RefuseClaim, PruneSessions
  <1>9. ASSUME NEW q \in Requests, RemoveSession(q) PROVE Goal
    BY <1>2, <1>9 DEF RemoveSession
  <1>10. CASE UNCHANGED sessionVars
    BY <1>1, <1>10 DEF sessionVars, lineVars
  <1>11. ASSUME NEW t \in Sessions, Enqueue(t) PROVE Goal
    BY <1>1, <1>11 DEF Enqueue, ReservationInv, TypeOK
  <1>12. ASSUME NEW t \in Sessions, JoinFails(t) PROVE Goal
    BY <1>12 DEF JoinFails, Forget
  <1>13. CASE ClockTicks
    BY <1>1, <1>13 DEF ClockTicks
  <1> QED
    BY <1>1, <1>3, <1>4, <1>5, <1>6, <1>7, <1>8, <1>9, <1>10, <1>11, <1>12, <1>13
       DEF Next, QueueStep, RoomStep, Progress, Deadline, ReadStatus, CheckStatus,
           PromoteNext, CreateRoom, EndRoom, ReadRoomToEnd, ReadRoomToTransfer, UpdateRoom,
           Abandon, RemoveFails, RoomDeadline, HeartbeatDeadline, ReservationDeadline, lineVars,
           ExpireReservationKey, vars

\* queue/service.go:113-117, 63-79: slots go to waiting sessions in the order in which their
\* joins read the clock, among those whose pipelines have run; a session that reads it in a
\* later millisecond never gets ahead of one in the queue.
THEOREM GrantedInOrder == Spec => FirstComeFirstServed
  BY ReservationInvariant, OrderStep, PTL DEF Spec, FirstComeFirstServed

-----------------------------------------------------------------------------
(* Newcomers. *)

LEMMA NewcomerStep ==
  ASSUME TypeOK, EveryOpenRoomExpires, NEW r \in Rooms, CreateRoom(r), r \in active', Live # {}
  PROVE  \E s \in Live : ahead[s] \cap Live = {} /\ status'[s] = "reserved"
  <1> DEFINE open == active \ DueRooms
  <1>1. r \notin active
    BY DEF CreateRoom, EveryOpenRoomExpires
  <1>2. Cardinality(open) + Cardinality(reservations') < Capacity
    BY <1>1 DEF CreateRoom, PruneRooms
  <1>3. PICK w \in Winners(open) :
          IF w = None THEN PruneAndPromote(open, None, None)
          ELSE \E v \in Reservations : PruneAndPromote(open, w, v)
    BY DEF CreateRoom, Promotion
  <1>4. CASE SlotFree(open)
    <2>1. w \in Live /\ ahead[w] \cap Live = {}
      BY <1>3, <1>4 DEF Winners
    <2>2. w \in Sessions /\ w # None
      BY <2>1, NoneAssumption DEF Live, TypeOK
    <2>3. PICK v \in Reservations : PruneAndPromote(open, w, v)
      BY <1>3, <2>2
    <2>4. status'[w] = "reserved"
      BY <2>2, <2>3 DEF PruneAndPromote
    <2> QED
      BY <2>1, <2>4
  <1>5. CASE ~SlotFree(open)
    <2>1. w = None
      BY <1>3, <1>5 DEF Winners
    <2>2. reservations' = reservations \ ((reservations \ LiveReservations) \cup {})
      BY <1>3, <2>1 DEF PruneAndPromote, PruneReservations, DropReservations
    <2>3. reservations' = LiveReservations
      BY <2>2 DEF LiveReservations
    <2> QED
      BY <1>2, <1>5, <2>3 DEF SlotFree
  <1> QED
    BY <1>4, <1>5

\* rooms/redis_store.go:63-74: a direct create passes over waiting sessions only after it
\* has granted the first live one a slot.
THEOREM HeadBeforeNewcomers == Spec => NewcomersAfterHead
  <1>1. TypeOK /\ EveryOpenRoomExpires /\ [Next]_vars =>
          [\A r \in Rooms : CreateRoom(r) /\ r \in active' /\ Live # {} =>
             \E s \in Live : ahead[s] \cap Live = {} /\ status'[s] = "reserved"]_vars
    BY NewcomerStep
  <1> QED
    BY <1>1, TypeCorrect, OpenRoomsExpire, PTL DEF Spec, NewcomersAfterHead

-----------------------------------------------------------------------------
(* No idle slots. *)

\* A script that had a slot to give gives it, or has emptied the queue.
LEMMA PromotionUses ==
  ASSUME TypeOK, NEW open, Promotion(open)
  PROVE  \/ Live' = {}
         \/ \E s \in Live : status'[s] = "reserved"
         \/ ~SlotFree(open) /\ reservations' = LiveReservations
  <1>1. PICK w \in Winners(open) :
          IF w = None THEN PruneAndPromote(open, None, None)
          ELSE \E v \in Reservations : PruneAndPromote(open, w, v)
    BY DEF Promotion
  <1>2. CASE w = None
    <2>1. /\ queue' = queue \ (Evicted \cup Popped(open, None))
          /\ reservations' = LiveReservations
      BY <1>1, <1>2 DEF PruneAndPromote, Dequeue, PruneReservations, DropReservations,
           LiveReservations
    <2>2. CASE SlotFree(open)
      <3>1. queue' = {}
        BY <2>1, <2>2 DEF Popped
      <3> QED
        BY <3>1 DEF Live
    <2> QED
      BY <2>1, <2>2
  <1>3. CASE w # None
    <2>1. w \in Live /\ w \in Sessions
      BY <1>3 DEF Winners, Live, TypeOK
    <2>2. status'[w] = "reserved"
      BY <1>1, <1>3, <2>1 DEF PruneAndPromote
    <2> QED
      BY <2>1, <2>2
  <1> QED
    BY <1>2, <1>3

LEMMA IdleStep ==
  ASSUME TypeOK, TypeOK',
         \/ \E q \in Requests : PromoteNext(q) \/ EndRoom(q)
         \/ \E r \in Rooms : CreateRoom(r)
  PROVE  \/ Live' = {}
         \/ Cardinality(active') + Cardinality(reservations') >= Capacity
         \/ \E s \in Live : status'[s] = "reserved"
  <1>1. ASSUME NEW open, Promotion(open), active' = open
        PROVE  \/ Live' = {}
               \/ Cardinality(active') + Cardinality(reservations') >= Capacity
               \/ \E s \in Live : status'[s] = "reserved"
    <2>1. CASE ~SlotFree(open) /\ reservations' = LiveReservations
      <3>1. Cardinality(active') \in Nat /\ Cardinality(reservations') \in Nat
        BY FiniteAssumption, FS_Subset, FS_CardinalityType DEF TypeOK
      <3> QED
        BY <1>1, <2>1, <3>1, CapacityAssumption DEF SlotFree
    <2> QED
      BY <1>1, <2>1, PromotionUses
  <1>2. ASSUME NEW q \in Requests, PromoteNext(q)
        PROVE  \E open : Promotion(open) /\ active' = open
    BY <1>2 DEF PromoteNext, PruneRooms
  <1>3. ASSUME NEW q \in Requests, EndRoom(q)
        PROVE  \E open : Promotion(open) /\ active' = open
    BY <1>3 DEF EndRoom, PruneRoomsAndEnd
  <1>4. ASSUME NEW r \in Rooms, CreateRoom(r)
        PROVE  \/ Live' = {}
               \/ Cardinality(active') + Cardinality(reservations') >= Capacity
               \/ \E s \in Live : status'[s] = "reserved"
    <2> DEFINE open == active \ DueRooms
    <2>1. Promotion(open)
      BY <1>4 DEF CreateRoom
    <2>2. CASE Cardinality(open) + Cardinality(reservations') < Capacity
      <3>1. SlotFree(open) \/ reservations' # LiveReservations
        BY <2>2 DEF SlotFree
      <3> QED
        BY <2>1, <3>1, PromotionUses
    <2>3. CASE ~(Cardinality(open) + Cardinality(reservations') < Capacity)
      <3>1. active' = open
        BY <1>4, <2>3 DEF CreateRoom, PruneRooms
      <3> QED
        BY <1>1, <2>1, <3>1
    <2> QED
      BY <2>2, <2>3
  <1> QED
    BY <1>1, <1>2, <1>3, <1>4

\* queue/service.go:60-79, rooms/redis_store.go:54, 194: with any number of rooms, sessions and
\* slots, no script that looks at the queue passes over a live waiter while a slot is free.
\* What is left of WaitersServed is that such scripts go on being run.
THEOREM SlotsNotIdle == Spec => NoIdleSlots
  <1>1. TypeOK /\ TypeOK' /\ [Next]_vars =>
          [(\E q \in Requests : PromoteNext(q) \/ EndRoom(q)) \/ (\E r \in Rooms : CreateRoom(r)) =>
             \/ Live' = {}
             \/ Cardinality(active') + Cardinality(reservations') >= Capacity
             \/ \E s \in Live : status'[s] = "reserved"]_vars
    BY IdleStep
  <1> QED
    BY <1>1, TypeCorrect, PTL DEF Spec, NoIdleSlots
=============================================================================
