--------------------------- MODULE CapacityProofs ---------------------------
(***************************************************************************)
(* Proofs about Capacity, for any number of rooms, sessions, reservations,  *)
(* concurrent handlers and slots.                                           *)
(***************************************************************************)
EXTENDS Capacity, FiniteSetTheorems, TLAPS

\* What a handler may have in hand at each of its steps.
LEMMA CallTypes ==
  ASSUME NEW c \in Calls
  PROVE  /\ c.pc = "check" => c \in [pc : {"check"}, op : {"status", "heartbeat", "leave"},
                session : Sessions, status : {"waiting", "reserved"},
                reservation : Reservations \cup {None}]
         /\ c.pc = "beat" => c \in [pc : {"beat"}, session : Sessions]
         /\ c.pc \in {"remove", "leave"} => c \in [pc : {"remove", "leave"}, session : Sessions,
                reservation : Reservations \cup {None}]
         /\ c.pc \in {"end", "update"} => c \in [pc : {"end", "update"}, room : Rooms]
  BY DEF Calls, Idle

-----------------------------------------------------------------------------
(* The type invariant. *)

LEMMA PromotionType ==
  ASSUME TypeOK, NEW open, Promotion(open)
  PROVE  /\ queue' \subseteq Sessions /\ joining' \subseteq Sessions
         /\ instant' \subseteq Sessions
         /\ ahead' \in [Sessions -> SUBSET Sessions]
         /\ status' \in [Sessions -> {"none", "ghost", "waiting", "reserved"}]
         /\ granted' \in [Sessions -> Reservations \cup {None}]
         /\ stale' \subseteq Sessions
         /\ reservations' \subseteq Reservations
         /\ resDue' \subseteq Reservations
         /\ resKey' \in [Reservations -> Sessions \cup {None}]
  <1>1. PICK w \in Winners(open) :
          IF w = None THEN PruneAndPromote(open, None, None)
          ELSE \E v \in Reservations : PruneAndPromote(open, w, v)
    BY DEF Promotion
  <1>2. CASE w = None
    <2>1. PruneAndPromote(open, None, None)
      BY <1>1, <1>2
    <2> QED
      BY <2>1 DEF TypeOK, PruneAndPromote, Dequeue, Forget, DropSessions, PruneReservations,
           DropReservations
  <1>3. CASE w # None
    <2>1. w \in Sessions
      BY <1>3 DEF Winners, Live, TypeOK
    <2>2. PICK v \in Reservations : PruneAndPromote(open, w, v)
      BY <1>1, <1>3
    <2>3. LiveReservations \subseteq Reservations
      BY DEF LiveReservations, TypeOK
    <2> QED
      BY <1>3, <2>1, <2>2, <2>3 DEF TypeOK, PruneAndPromote, Dequeue, Forget
  <1> QED
    BY <1>2, <1>3

LEMMA PruneRoomsType ==
  ASSUME TypeOK,
         \/ PruneRooms
         \/ \E r \in Rooms : PruneRoomsAndOpen(r) \/ PruneRoomsAndEnd(r)
  PROVE  /\ active' \subseteq Rooms
         /\ room' \in [Rooms -> {"absent", "active", "ended"}]
         /\ expirations' \subseteq Rooms
  BY DEF TypeOK, PruneRooms, PruneRoomsAndOpen, PruneRoomsAndEnd

\* Every variable keeps its type: what a handler carries over from one command to
\* the next is always something it read.
LEMMA TypeStep == TypeOK /\ [Next]_vars => TypeOK'
  <1> SUFFICES ASSUME TypeOK, [Next]_vars PROVE TypeOK'
    OBVIOUS
  <1>1. ASSUME NEW s \in Sessions, Join(s) \/ Enqueue(s) \/ JoinFails(s) PROVE TypeOK'
    BY <1>1 DEF TypeOK, Join, Enqueue, JoinFails, Placed, Forget, roomVars, reservationVars
  <1>2. ASSUME NEW s \in Sessions, NEW q \in Requests,
               NEW op \in {"status", "heartbeat", "leave"}, ReadStatus(q, s, op)
        PROVE  TypeOK'
    <2>1. call' \in [Requests -> Calls]
      BY <1>2 DEF TypeOK, ReadStatus, Calls
    <2> QED
      BY <1>2, <2>1 DEF TypeOK, ReadStatus, roomVars, sessionVars, lineVars, reservationVars
  <1>3. ASSUME NEW s \in Sessions, NEW r \in Rooms, ClaimRoom(s, r) PROVE TypeOK'
    BY <1>3, PruneRoomsType DEF TypeOK, ClaimRoom, PruneSessions, PruneReservations,
         DropSessions, Dequeue, Forget, DropReservations
  <1>4. ASSUME RefuseClaim PROVE TypeOK'
    BY <1>4, PruneRoomsType DEF TypeOK, RefuseClaim, PruneSessions, PruneReservations,
         DropSessions, Dequeue, Forget, DropReservations
  <1>5. ASSUME NEW r \in Rooms, CreateRoom(r) PROVE TypeOK'
    BY <1>5, PruneRoomsType, PromotionType DEF TypeOK, CreateRoom
  <1>6. ASSUME NEW r \in Rooms, NEW q \in Requests,
               ReadRoomToEnd(q, r) \/ ReadRoomToTransfer(q, r)
        PROVE  TypeOK'
    <2>1. call' \in [Requests -> Calls]
      BY <1>6 DEF TypeOK, ReadRoomToEnd, ReadRoomToTransfer, Calls
    <2> QED
      BY <1>6, <2>1 DEF TypeOK, ReadRoomToEnd, ReadRoomToTransfer, roomVars, sessionVars, lineVars,
           reservationVars
  <1>7. ASSUME NEW q \in Requests, CheckStatus(q) PROVE TypeOK'
    <2>1. call[q] \in [pc : {"check"}, op : {"status", "heartbeat", "leave"},
             session : Sessions, status : {"waiting", "reserved"},
             reservation : Reservations \cup {None}]
      BY <1>7, CallTypes DEF CheckStatus, TypeOK
    <2>2. PICK c : call' = [call EXCEPT ![q] = c] /\
             \/ c = Idle
             \/ c = [pc |-> "beat", session |-> call[q].session]
             \/ \E pc \in {"remove", "leave"} :
                  c = [pc |-> pc, session |-> call[q].session,
                       reservation |-> call[q].reservation]
      BY <1>7, <2>1 DEF CheckStatus
    <2>3. c \in Calls
      BY <2>1, <2>2 DEF Calls
    <2>4. call' \in [Requests -> Calls]
      BY <2>2, <2>3 DEF TypeOK
    <2> QED
      BY <1>7, <2>4 DEF TypeOK, CheckStatus, roomVars, sessionVars, lineVars, reservationVars
  <1>8. ASSUME NEW q \in Requests, Beat(q) PROVE TypeOK'
    <2>1. call[q].session \in Sessions
      BY <1>8, CallTypes DEF Beat, TypeOK
    <2>2. call' \in [Requests -> Calls]
      BY <1>8 DEF TypeOK, Beat, Calls
    <2> QED
      BY <1>8, <2>1, <2>2 DEF TypeOK, Beat, roomVars, lineVars, reservationVars
  <1>9. ASSUME NEW q \in Requests, RemoveSession(q) PROVE TypeOK'
    <2>1. call' \in [Requests -> Calls]
      BY <1>9 DEF TypeOK, RemoveSession, Calls
    <2> QED
      BY <1>9, <2>1 DEF TypeOK, RemoveSession, roomVars, DropSessions, Dequeue, Forget,
           DropReservations
  <1>10. ASSUME NEW q \in Requests, PromoteNext(q) PROVE TypeOK'
    <2>1. call' \in [Requests -> Calls]
      BY <1>10 DEF TypeOK, PromoteNext, Calls
    <2> QED
      BY <1>10, <2>1, PruneRoomsType, PromotionType DEF TypeOK, PromoteNext
  <1>11. ASSUME NEW q \in Requests, EndRoom(q) PROVE TypeOK'
    <2>1. call[q].room \in Rooms
      BY <1>11, CallTypes DEF EndRoom, TypeOK
    <2>2. call' \in [Requests -> Calls]
      BY <1>11 DEF TypeOK, EndRoom, Calls
    <2> QED
      BY <1>11, <2>1, <2>2, PruneRoomsType, PromotionType DEF TypeOK, EndRoom
  <1>12. ASSUME NEW q \in Requests, UpdateRoom(q) PROVE TypeOK'
    <2>1. call[q].room \in Rooms
      BY <1>12, CallTypes DEF UpdateRoom, TypeOK
    <2>2. call' \in [Requests -> Calls]
      BY <1>12 DEF TypeOK, UpdateRoom, Calls
    <2> QED
      BY <1>12, <2>1, <2>2 DEF TypeOK, UpdateRoom, sessionVars, lineVars, reservationVars
  <1>13. ASSUME NEW q \in Requests, Abandon(q) \/ RemoveFails(q) PROVE TypeOK'
    <2>1. call' \in [Requests -> Calls]
      BY <1>13 DEF TypeOK, Abandon, RemoveFails, Calls
    <2> QED
      BY <1>13, <2>1 DEF TypeOK, Abandon, RemoveFails, roomVars, sessionVars, lineVars, reservationVars
  <1>14. CASE Deadline \/ ClockTicks
    BY <1>14 DEF Deadline, ClockTicks, RoomDeadline, HeartbeatDeadline, ReservationDeadline,
         ExpireSessionKey, ExpireReservationKey, DropSessions, TypeOK, roomVars,
         sessionVars, lineVars, reservationVars
  <1>15. CASE UNCHANGED vars
    BY <1>15 DEF TypeOK, vars, roomVars, sessionVars, lineVars, reservationVars
  <1> QED
    BY <1>1, <1>2, <1>3, <1>4, <1>5, <1>6, <1>7, <1>8, <1>9, <1>10, <1>11, <1>12, <1>13,
       <1>14, <1>15 DEF Next, QueueStep, RoomStep, Progress

LEMMA TypeInit == Init => TypeOK
  BY DEF Init, TypeOK, Calls

\* Every reachable state is well typed.
THEOREM TypeCorrect == Spec => []TypeOK
  BY TypeInit, TypeStep, PTL DEF Spec

-----------------------------------------------------------------------------
(* The capacity bound. *)

LEMMA FiniteParts ==
  ASSUME TypeOK
  PROVE  /\ IsFiniteSet(active) /\ IsFiniteSet(reservations) /\ IsFiniteSet(LiveReservations)
         /\ IsFiniteSet(active \ DueRooms)
         /\ LiveReservations \subseteq reservations
  BY FiniteAssumption, FS_Subset DEF TypeOK, LiveReservations

LEMMA OneMore ==
  ASSUME NEW S, IsFiniteSet(S), NEW x
  PROVE  /\ IsFiniteSet(S \cup {x})
         /\ Cardinality(S) \in Nat /\ Cardinality(S \cup {x}) \in Nat
         /\ Cardinality(S \cup {x}) <= Cardinality(S) + 1
  <1>1. /\ IsFiniteSet(S \cup {x})
        /\ Cardinality(S \cup {x}) = IF x \in S THEN Cardinality(S) ELSE Cardinality(S) + 1
    BY FS_AddElement
  <1>2. Cardinality(S) \in Nat
    BY FS_CardinalityType
  <1> QED
    BY <1>1, <1>2

\* A promotion either only takes reservations away, or it adds one where a slot was free.
LEMMA PromotionTaken ==
  ASSUME TypeOK, NEW open, Promotion(open)
  PROVE  \/ reservations' = LiveReservations
         \/ /\ SlotFree(open)
            /\ \E v \in Reservations :
                 v \notin reservations /\ reservations' = LiveReservations \cup {v}
  <1>1. PICK w \in Winners(open) :
          IF w = None THEN PruneAndPromote(open, None, None)
          ELSE \E v \in Reservations : PruneAndPromote(open, w, v)
    BY DEF Promotion
  <1>2. CASE w = None
    BY <1>1, <1>2 DEF PruneAndPromote, PruneReservations, DropReservations, LiveReservations
  <1>3. CASE w # None
    <2>1. SlotFree(open)
      BY <1>3 DEF Winners
    <2> QED
      BY <1>1, <1>3, <2>1 DEF PruneAndPromote, FreshReservation
  <1> QED
    BY <1>2, <1>3

\* After a promotion beside the rooms left open, rooms and reservations fit.
LEMMA PromotionFits ==
  ASSUME TypeOK, CapacityBound, NEW open, open \subseteq active, Promotion(open)
  PROVE  /\ Cardinality(open) + Cardinality(reservations') <= Capacity
         /\ IsFiniteSet(open) /\ IsFiniteSet(reservations')
         /\ Cardinality(open) \in Nat /\ Cardinality(reservations') \in Nat
  <1>1. /\ IsFiniteSet(open) /\ Cardinality(open) \in Nat
        /\ Cardinality(open) <= Cardinality(active) /\ Cardinality(active) \in Nat
    BY FiniteParts, FS_Subset, FS_CardinalityType
  <1>2. /\ Cardinality(LiveReservations) <= Cardinality(reservations)
        /\ Cardinality(LiveReservations) \in Nat /\ Cardinality(reservations) \in Nat
    BY FiniteParts, FS_Subset, FS_CardinalityType
  <1>3. CASE reservations' = LiveReservations
    BY <1>1, <1>2, <1>3, FiniteParts, CapacityAssumption DEF CapacityBound
  <1>4. ASSUME SlotFree(open), NEW v \in Reservations,
               reservations' = LiveReservations \cup {v}
        PROVE  /\ Cardinality(open) + Cardinality(reservations') <= Capacity
               /\ IsFiniteSet(reservations') /\ Cardinality(reservations') \in Nat
    <2>1. /\ IsFiniteSet(reservations') /\ Cardinality(reservations') \in Nat
          /\ Cardinality(reservations') <= Cardinality(LiveReservations) + 1
      BY <1>4, FiniteParts, OneMore
    <2> QED
      BY <1>1, <1>2, <1>4, <2>1, CapacityAssumption DEF SlotFree
  <1> QED
    BY <1>1, <1>3, <1>4, PromotionTaken

LEMMA FewerTaken ==
  ASSUME TypeOK, CapacityBound,
         active' \subseteq active, reservations' \subseteq reservations
  PROVE  CapacityBound'
  <1>1. /\ Cardinality(active') <= Cardinality(active)
        /\ Cardinality(active) \in Nat /\ Cardinality(active') \in Nat
    BY FiniteParts, FS_Subset, FS_CardinalityType
  <1>2. /\ Cardinality(reservations') <= Cardinality(reservations)
        /\ Cardinality(reservations) \in Nat /\ Cardinality(reservations') \in Nat
    BY FiniteParts, FS_Subset, FS_CardinalityType
  <1> QED
    BY <1>1, <1>2, CapacityAssumption DEF CapacityBound

\* The bound is inductive with the types: every script counts after its own pruning,
\* and a claim swaps a reservation for a room.
LEMMA CapacityStep == TypeOK /\ CapacityBound /\ [Next]_vars => CapacityBound'
  <1> SUFFICES ASSUME TypeOK, CapacityBound, [Next]_vars PROVE CapacityBound'
    OBVIOUS
  <1>1. ASSUME UNCHANGED <<active, reservations>> PROVE CapacityBound'
    BY <1>1 DEF CapacityBound
  <1>2. ASSUME NEW q \in Requests, PromoteNext(q) PROVE CapacityBound'
    BY <1>2, PromotionFits DEF PromoteNext, PruneRooms, CapacityBound
  <1>3. ASSUME NEW q \in Requests, EndRoom(q) PROVE CapacityBound'
    BY <1>3, PromotionFits DEF EndRoom, PruneRoomsAndEnd, CapacityBound
  <1>4. ASSUME NEW r \in Rooms, CreateRoom(r) PROVE CapacityBound'
    <2> DEFINE open == active \ DueRooms
    <2>1. /\ Cardinality(open) + Cardinality(reservations') <= Capacity
          /\ IsFiniteSet(open) /\ Cardinality(open) \in Nat
          /\ Cardinality(reservations') \in Nat
      BY <1>4, PromotionFits DEF CreateRoom
    <2>2. CASE Cardinality(open) + Cardinality(reservations') < Capacity
      <3>1. Cardinality(active') <= Cardinality(open) + 1 /\ Cardinality(active') \in Nat
        BY <1>4, <2>1, <2>2, OneMore
           DEF CreateRoom, PruneRoomsAndOpen
      <3> QED
        BY <2>1, <2>2, <3>1, CapacityAssumption DEF CapacityBound
    <2>3. CASE ~(Cardinality(open) + Cardinality(reservations') < Capacity)
      BY <1>4, <2>1, <2>3 DEF CreateRoom, PruneRooms, CapacityBound
    <2> QED
      BY <2>2, <2>3
  <1>5. ASSUME NEW s \in Sessions, NEW r \in Rooms, ClaimRoom(s, r) PROVE CapacityBound'
    <2> DEFINE open == active \ DueRooms
    <2>1. /\ granted[s] \in LiveReservations
          /\ Cardinality(open) + Cardinality(LiveReservations) <= Capacity
      BY <1>5 DEF ClaimRoom, Claimable
    <2>2. reservations' = LiveReservations \ {granted[s]}
      BY <1>5, FiniteParts DEF ClaimRoom, PruneReservations, DropReservations
    <2>3. /\ Cardinality(reservations') = Cardinality(LiveReservations) - 1
          /\ Cardinality(LiveReservations) \in Nat /\ Cardinality(reservations') \in Nat
      BY <2>1, <2>2, FiniteParts, FS_RemoveElement, FS_CardinalityType
    <2>4. /\ Cardinality(active') <= Cardinality(open) + 1
          /\ Cardinality(open) \in Nat /\ Cardinality(active') \in Nat
      BY <1>5, FiniteParts, OneMore
         DEF ClaimRoom, PruneRoomsAndOpen
    <2> QED
      BY <2>1, <2>3, <2>4, CapacityAssumption DEF CapacityBound
  <1>6. ASSUME RefuseClaim PROVE CapacityBound'
    BY <1>6, FewerTaken DEF RefuseClaim, PruneRooms, PruneReservations, DropReservations
  <1>7. ASSUME NEW q \in Requests, RemoveSession(q) PROVE CapacityBound'
    BY <1>7, FewerTaken DEF RemoveSession, DropReservations, roomVars
  <1> QED
    BY <1>1, <1>2, <1>3, <1>4, <1>5, <1>6, <1>7
       DEF Next, QueueStep, RoomStep, Progress, Deadline, Join, Enqueue, JoinFails,
           ClockTicks, RemoveFails, ReadStatus, CheckStatus, Beat, ReadRoomToEnd,
           ReadRoomToTransfer, UpdateRoom, Abandon, RoomDeadline, HeartbeatDeadline,
           ReservationDeadline, ExpireSessionKey, ExpireReservationKey, vars, roomVars,
           reservationVars

\* At most Capacity active rooms and outstanding reservations, in every reachable state.
THEOREM CapacityBounded == Spec => []CapacityBound
  <1>1. Init => CapacityBound
    BY FS_EmptySet, CapacityAssumption DEF Init, CapacityBound
  <1> QED
    BY <1>1, CapacityStep, TypeCorrect, PTL DEF Spec

-----------------------------------------------------------------------------
(* Every record that reads active will be pruned. *)

LEMMA OpenRoomExpiresStep ==
  TypeOK /\ EveryOpenRoomExpires /\ [Next]_vars => EveryOpenRoomExpires'
  <1> SUFFICES ASSUME TypeOK, EveryOpenRoomExpires, [Next]_vars PROVE EveryOpenRoomExpires'
    OBVIOUS
  <1>1. ASSUME UNCHANGED roomVars PROVE EveryOpenRoomExpires'
    BY <1>1 DEF EveryOpenRoomExpires, roomVars
  <1>2. ASSUME \/ PruneRooms
               \/ \E r \in Rooms : PruneRoomsAndOpen(r) \/ PruneRoomsAndEnd(r)
        PROVE  EveryOpenRoomExpires'
    BY <1>2 DEF EveryOpenRoomExpires, TypeOK, PruneRooms, PruneRoomsAndOpen,
         PruneRoomsAndEnd, DueRooms
  <1>3. ASSUME NEW q \in Requests, EndRoom(q) PROVE EveryOpenRoomExpires'
    BY <1>2, <1>3, CallTypes DEF EndRoom, TypeOK
  <1>4. ASSUME NEW q \in Requests, UpdateRoom(q) PROVE EveryOpenRoomExpires'
    <2>1. call[q].room \in Rooms
      BY <1>4, CallTypes DEF UpdateRoom, TypeOK
    <2> QED
      BY <1>4, <2>1 DEF UpdateRoom, EveryOpenRoomExpires, TypeOK
  <1> QED
    BY <1>1, <1>2, <1>3, <1>4
       DEF Next, QueueStep, RoomStep, Progress, Deadline, Join, Enqueue, JoinFails,
           ClockTicks, RemoveFails, ReadStatus, CheckStatus, Beat, RemoveSession,
           PromoteNext, CreateRoom, ClaimRoom, RefuseClaim, ReadRoomToEnd,
           ReadRoomToTransfer, Abandon, RoomDeadline, HeartbeatDeadline,
           ReservationDeadline, ExpireSessionKey, ExpireReservationKey, vars

\* Even a record that a late transfer wrote back is among the expirations.
THEOREM OpenRoomsExpire == Spec => []EveryOpenRoomExpires
  <1>1. Init => EveryOpenRoomExpires
    BY DEF Init, EveryOpenRoomExpires
  <1> QED
    BY <1>1, OpenRoomExpiresStep, TypeCorrect, PTL DEF Spec

-----------------------------------------------------------------------------
(* Capacity implements SlotPool. *)

\* A handler that ends or updates a room knows it from a record it read.
KnownRooms ==
  \A q \in Requests : call[q].pc \in {"end", "update"} => room[call[q].room] # "absent"

LEMMA KnownRoomsStep ==
  TypeOK /\ EveryOpenRoomExpires /\ KnownRooms /\ [Next]_vars =>
    KnownRooms' /\ \A r \in Rooms : room[r] # "absent" => room'[r] # "absent"
  <1> SUFFICES ASSUME TypeOK, EveryOpenRoomExpires, KnownRooms, [Next]_vars
               PROVE  KnownRooms' /\ \A r \in Rooms : room[r] # "absent" => room'[r] # "absent"
    OBVIOUS
  <1>1. ASSUME NEW p \in Requests, UpdateRoom(p)
        PROVE  \A r \in Rooms : room[r] # "absent" => room'[r] # "absent"
    BY <1>1, CallTypes DEF UpdateRoom, TypeOK
  <1>2. ASSUME \/ PruneRooms
               \/ \E r \in Rooms : PruneRoomsAndOpen(r)
               \/ \E r : PruneRoomsAndEnd(r)
        PROVE  \A r \in Rooms : room[r] # "absent" => room'[r] # "absent"
    BY <1>2 DEF TypeOK, PruneRooms, PruneRoomsAndOpen, PruneRoomsAndEnd
  <1>3. ASSUME UNCHANGED room
        PROVE  \A r \in Rooms : room[r] # "absent" => room'[r] # "absent"
    BY <1>3
  <1>4. \A r \in Rooms : room[r] # "absent" => room'[r] # "absent"
    BY <1>1, <1>2, <1>3
       DEF Next, QueueStep, RoomStep, Progress, Deadline, Join, Enqueue, JoinFails,
           ClockTicks, RemoveFails, ReadStatus, CheckStatus, Beat, RemoveSession,
           PromoteNext, EndRoom, CreateRoom, ClaimRoom, RefuseClaim, ReadRoomToEnd,
           ReadRoomToTransfer, Abandon, RoomDeadline, HeartbeatDeadline,
           ReservationDeadline, ExpireSessionKey, ExpireReservationKey, vars, roomVars
  <1>5. ASSUME NEW q \in Requests, call'[q].pc \in {"end", "update"}
        PROVE  call'[q].room \in Rooms /\ room[call'[q].room] # "absent"
    <2>1. ASSUME call'[q] = call[q]
          PROVE  call'[q].room \in Rooms /\ room[call'[q].room] # "absent"
      BY <1>5, <2>1, CallTypes DEF KnownRooms, TypeOK
    <2>2. ASSUME NEW p \in Requests, NEW r \in Rooms,
                 ReadRoomToEnd(p, r) \/ ReadRoomToTransfer(p, r)
          PROVE  call'[q].room \in Rooms /\ room[call'[q].room] # "absent"
      <3>1. CASE p = q
        BY <2>2, <3>1 DEF ReadRoomToEnd, ReadRoomToTransfer, TypeOK
      <3>2. CASE p # q
        BY <2>1, <2>2, <3>2 DEF ReadRoomToEnd, ReadRoomToTransfer, TypeOK
      <3> QED
        BY <3>1, <3>2
    <2>3. ASSUME NEW p \in Requests, CheckStatus(p)
          PROVE  call'[q].room \in Rooms /\ room[call'[q].room] # "absent"
      <3>1. CASE p = q
        <4>1. call[q] \in [pc : {"check"}, op : {"status", "heartbeat", "leave"},
                 session : Sessions, status : {"waiting", "reserved"},
                 reservation : Reservations \cup {None}]
          BY <2>3, <3>1, CallTypes DEF CheckStatus, TypeOK
        <4> QED
          BY <1>5, <2>3, <3>1, <4>1 DEF CheckStatus, TypeOK, Idle
      <3>2. CASE p # q
        BY <2>1, <2>3, <3>2 DEF CheckStatus, TypeOK
      <3> QED
        BY <3>1, <3>2
    <2>4. ASSUME NEW p \in Requests, NEW s \in Sessions,
                 NEW op \in {"status", "heartbeat", "leave"}, ReadStatus(p, s, op)
          PROVE  call'[q].room \in Rooms /\ room[call'[q].room] # "absent"
      <3>1. CASE p = q
        BY <1>5, <2>4, <3>1 DEF ReadStatus, TypeOK
      <3>2. CASE p # q
        BY <2>1, <2>4, <3>2 DEF ReadStatus, TypeOK
      <3> QED
        BY <3>1, <3>2
    <2>5. ASSUME NEW p \in Requests,
                 \/ Beat(p) \/ RemoveSession(p) \/ PromoteNext(p) \/ EndRoom(p)
                 \/ UpdateRoom(p) \/ Abandon(p) \/ RemoveFails(p)
          PROVE  call'[q].room \in Rooms /\ room[call'[q].room] # "absent"
      <3>1. CASE p = q
        BY <1>5, <2>5, <3>1 DEF Beat, RemoveSession, PromoteNext, EndRoom, UpdateRoom,
             Abandon, RemoveFails, TypeOK, Idle
      <3>2. CASE p # q
        BY <2>1, <2>5, <3>2 DEF Beat, RemoveSession, PromoteNext, EndRoom, UpdateRoom,
             Abandon, RemoveFails, TypeOK
      <3> QED
        BY <3>1, <3>2
    <2> QED
      BY <2>1, <2>2, <2>3, <2>4, <2>5
         DEF Next, QueueStep, RoomStep, Progress, Deadline, Join, Enqueue, JoinFails,
             ClockTicks, RemoveFails, CreateRoom, ClaimRoom, RefuseClaim, RoomDeadline,
             HeartbeatDeadline, ReservationDeadline, ExpireSessionKey,
             ExpireReservationKey, vars
  <1> QED
    BY <1>4, <1>5 DEF KnownRooms

SlotInv == TypeOK /\ EveryOpenRoomExpires /\ KnownRooms

\* SlotPool counts with the same operator as Capacity.
LEMMA SameCount == \A S : Slots!Cardinality(S) = Cardinality(S)
  BY DEF Slots!Cardinality, Cardinality

\* The rooms that were ever opened change only with a room that was absent.
LEMMA SameOpened ==
  ASSUME TypeOK, EveryOpenRoomExpires,
         \/ PruneRooms
         \/ \E r \in Rooms : room[r] # "absent" /\ PruneRoomsAndEnd(r)
  PROVE  {r \in Rooms : room'[r] # "absent"} = {r \in Rooms : room[r] # "absent"}
  <1>1. \A r \in DueRooms : room[r] # "absent"
    BY DEF EveryOpenRoomExpires, DueRooms
  <1> QED
    BY <1>1 DEF TypeOK, PruneRooms, PruneRoomsAndEnd

LEMMA OneMoreOpened ==
  ASSUME TypeOK, EveryOpenRoomExpires, NEW r \in Rooms, room[r] = "absent",
         PruneRoomsAndOpen(r)
  PROVE  /\ r \notin {x \in Rooms : room[x] # "absent"}
         /\ {x \in Rooms : room'[x] # "absent"} = {x \in Rooms : room[x] # "absent"} \cup {r}
  <1>1. \A x \in DueRooms : room[x] # "absent"
    BY DEF EveryOpenRoomExpires, DueRooms
  <1> QED
    BY <1>1 DEF TypeOK, PruneRoomsAndOpen

\* What any promotion looks like from the slots' side, beside the rooms left open.
LEMMA PromotionMaps ==
  ASSUME TypeOK, NEW open, open \subseteq active, active' = open, Promotion(open),
         {r \in Rooms : room'[r] # "absent"} = {r \in Rooms : room[r] # "absent"}
  PROVE  Slots!Next
  <1>1. open \in SUBSET active /\ LiveReservations \in SUBSET reservations
    BY FiniteParts
  <1>2. CASE reservations' = LiveReservations
    BY <1>1, <1>2 DEF Slots!Next, Slots!Release
  <1>3. ASSUME SlotFree(open), NEW v \in Reservations, v \notin reservations,
               reservations' = LiveReservations \cup {v}
        PROVE  Slots!Next
    <2>1. Slots!Grant(open, LiveReservations, v)
      BY <1>3, SameCount DEF Slots!Grant, Slots!Taken, SlotFree
    <2> QED
      BY <1>1, <2>1 DEF Slots!Next
  <1> QED
    BY <1>2, <1>3, PromotionTaken

LEMMA CreateMaps ==
  ASSUME SlotInv, NEW r \in Rooms, CreateRoom(r)
  PROVE  Slots!Next
  <1> USE DEF SlotInv
  <1> DEFINE open == active \ DueRooms
  <1>1. open \in SUBSET active /\ LiveReservations \in SUBSET reservations
    BY FiniteParts
  <1>2. Promotion(open) /\ room[r] = "absent"
    BY DEF CreateRoom
  <1>3. CASE ~(Cardinality(open) + Cardinality(reservations') < Capacity)
    <2>1. PruneRooms
      BY <1>3 DEF CreateRoom
    <2> QED
      BY <1>1, <1>2, <2>1, SameOpened, PromotionMaps DEF PruneRooms
  <1>4. CASE Cardinality(open) + Cardinality(reservations') < Capacity
    <2>1. PruneRoomsAndOpen(r)
      BY <1>4 DEF CreateRoom
    <2>2. CASE reservations' = LiveReservations
      <3>1. Slots!Open(open, LiveReservations, r)
        BY <1>2, <1>4, <2>1, <2>2, OneMoreOpened, SameCount
           DEF Slots!Open, Slots!Taken, PruneRoomsAndOpen
      <3> QED
        BY <1>1, <3>1 DEF Slots!Next
    <2>3. ASSUME NEW v \in Reservations, v \notin reservations,
                 reservations' = LiveReservations \cup {v}
          PROVE  Slots!Next
      <3>1. v \notin LiveReservations
        BY <1>1, <2>3
      <3>2. Cardinality(reservations') = Cardinality(LiveReservations) + 1
        BY <2>3, <3>1, FiniteParts, FS_AddElement
      <3>3. Cardinality(open) \in Nat /\ Cardinality(LiveReservations) \in Nat
        BY FiniteParts, FS_CardinalityType
      <3>4. Cardinality(open) + Cardinality(LiveReservations) + 1 < Capacity
        BY <1>4, <3>2, <3>3
      <3>5. Slots!GrantAndOpen(open, LiveReservations, v, r)
        BY <1>2, <2>1, <2>3, <3>4, OneMoreOpened, SameCount
           DEF Slots!GrantAndOpen, Slots!Taken, PruneRoomsAndOpen
      <3> QED
        BY <1>1, <3>5 DEF Slots!Next
    <2> QED
      BY <1>2, <2>2, <2>3, PromotionTaken
  <1> QED
    BY <1>3, <1>4

LEMMA ClaimMaps ==
  ASSUME SlotInv, NEW s \in Sessions, NEW r \in Rooms, ClaimRoom(s, r)
  PROVE  Slots!Next
  <1> USE DEF SlotInv
  <1> DEFINE open == active \ DueRooms
             v == granted[s]
  <1>1. open \in SUBSET active /\ LiveReservations \in SUBSET reservations
    BY FiniteParts
  <1>2. v \in LiveReservations /\ v \in Reservations
    BY DEF ClaimRoom, Claimable, LiveReservations, TypeOK
  <1>3. reservations' = LiveReservations \ {v}
    BY <1>1 DEF ClaimRoom, PruneReservations, DropReservations
  <1>4. Slots!Redeem(open, LiveReservations, v, r)
    BY <1>2, <1>3, OneMoreOpened DEF Slots!Redeem, ClaimRoom, PruneRoomsAndOpen
  <1> QED
    BY <1>1, <1>2, <1>4 DEF Slots!Next

LEMMA ReleaseMaps ==
  ASSUME active' \in SUBSET active, reservations' \in SUBSET reservations,
         {r \in Rooms : room'[r] # "absent"} = {r \in Rooms : room[r] # "absent"}
  PROVE  Slots!Next
  BY DEF Slots!Next, Slots!Release

\* Every step is a step of the pool, or leaves it alone.
LEMMA SlotStep == SlotInv /\ [Next]_vars => [Slots!Next]_Slots!poolVars
  <1> SUFFICES ASSUME SlotInv, [Next]_vars
               PROVE  Slots!Next \/ UNCHANGED Slots!poolVars
    OBVIOUS
  <1> USE DEF SlotInv
  <1>1. ASSUME UNCHANGED <<active, room, reservations>> PROVE UNCHANGED Slots!poolVars
    BY <1>1 DEF Slots!poolVars
  <1>2. ASSUME NEW q \in Requests, PromoteNext(q) PROVE Slots!Next
    BY <1>2, SameOpened, PromotionMaps DEF PromoteNext, PruneRooms
  <1>3. ASSUME NEW q \in Requests, EndRoom(q) PROVE Slots!Next
    <2>1. call[q].room \in Rooms /\ room[call[q].room] # "absent"
      BY <1>3, CallTypes DEF EndRoom, TypeOK, KnownRooms
    <2> QED
      BY <1>3, <2>1, SameOpened, PromotionMaps DEF EndRoom, PruneRoomsAndEnd
  <1>4. ASSUME RefuseClaim PROVE Slots!Next
    BY <1>4, SameOpened, ReleaseMaps
       DEF RefuseClaim, PruneRooms, PruneReservations, DropReservations
  <1>5. ASSUME NEW q \in Requests, RemoveSession(q) PROVE Slots!Next
    BY <1>5, ReleaseMaps DEF RemoveSession, DropReservations, roomVars
  <1>6. ASSUME NEW q \in Requests, UpdateRoom(q) PROVE UNCHANGED Slots!poolVars
    <2>1. call[q].room \in Rooms /\ room[call[q].room] # "absent"
      BY <1>6, CallTypes DEF UpdateRoom, TypeOK, KnownRooms
    <2> QED
      BY <1>6, <2>1 DEF UpdateRoom, TypeOK, Slots!poolVars, reservationVars
  <1> QED
    BY <1>1, <1>2, <1>3, <1>4, <1>5, <1>6, CreateMaps, ClaimMaps
       DEF Next, QueueStep, RoomStep, Progress, Deadline, Join, Enqueue, JoinFails,
           ClockTicks, RemoveFails, ReadStatus, CheckStatus, Beat, ReadRoomToEnd,
           ReadRoomToTransfer, Abandon, RoomDeadline, HeartbeatDeadline,
           ReservationDeadline, ExpireSessionKey, ExpireReservationKey, vars, roomVars,
           reservationVars

\* The scripts and pipelines implement the pool of slots.
THEOREM CapacityImplementsSlots == Spec => SlotsSpec
  <1>1. Init => SlotInv
    BY TypeInit DEF Init, SlotInv, EveryOpenRoomExpires, KnownRooms, Idle
  <1>2. SlotInv /\ [Next]_vars => SlotInv'
    BY TypeStep, OpenRoomExpiresStep, KnownRoomsStep DEF SlotInv
  <1>3. Init => Slots!Init
    BY DEF Init, Slots!Init
  <1> QED
    BY <1>1, <1>2, <1>3, SlotStep, PTL DEF Spec, SlotsSpec, Slots!Spec

-----------------------------------------------------------------------------
(* Ended rooms. *)

\* Only a transfer in hand writes a record back, and one takes an active record in hand.
LEMMA EndedStep ==
  ASSUME TypeOK, [Next]_vars, NEW r \in Rooms, room[r] = "ended", ~LateTransfer(r)
  PROVE  room'[r] = "ended" /\ ~LateTransfer(r)'
  <1> DEFINE late == [pc |-> "update", room |-> r]
  <1>1. \A q \in Requests : call[q] # late
    BY DEF LateTransfer
  <1>2. room'[r] = "ended"
    <2>1. ASSUME NEW q \in Requests, UpdateRoom(q) PROVE room'[r] = "ended"
      <3>1. call[q] \in [pc : {"end", "update"}, room : Rooms] /\ call[q].pc = "update"
        BY <2>1, CallTypes DEF UpdateRoom, TypeOK
      <3>2. call[q].room # r
        BY <1>1, <3>1
      <3> QED
        BY <2>1, <3>1, <3>2 DEF UpdateRoom, TypeOK
    <2>2. ASSUME NEW x \in Rooms, PruneRoomsAndOpen(x), room[x] = "absent"
          PROVE  room'[r] = "ended"
      BY <2>2 DEF PruneRoomsAndOpen
    <2>3. ASSUME PruneRooms \/ \E x : PruneRoomsAndEnd(x) PROVE room'[r] = "ended"
      BY <2>3 DEF PruneRooms, PruneRoomsAndEnd
    <2>4. ASSUME UNCHANGED room PROVE room'[r] = "ended"
      BY <2>4
    <2> QED
      BY <2>1, <2>2, <2>3, <2>4
         DEF Next, QueueStep, RoomStep, Progress, Deadline, Join, Enqueue, JoinFails,
             ClockTicks, RemoveFails, ReadStatus, CheckStatus, Beat, RemoveSession,
             PromoteNext, EndRoom, CreateRoom, ClaimRoom, RefuseClaim, ReadRoomToEnd,
             ReadRoomToTransfer, Abandon, RoomDeadline, HeartbeatDeadline,
             ReservationDeadline, ExpireSessionKey, ExpireReservationKey, vars, roomVars
  <1>3. ASSUME NEW q \in Requests, call'[q] = late PROVE FALSE
    <2>1. call'[q] # call[q] /\ call'[q].pc = "update" /\ call'[q].room = r
      BY <1>1, <1>3
    <2>2. ASSUME NEW p \in Requests, NEW x \in Rooms, ReadRoomToTransfer(p, x) PROVE FALSE
      <3>1. x = r
        BY <2>1, <2>2 DEF ReadRoomToTransfer, TypeOK
      <3> QED
        BY <2>2, <3>1 DEF ReadRoomToTransfer
    <2>3. ASSUME NEW p \in Requests, CheckStatus(p) PROVE FALSE
      <3>1. p = q
        BY <2>1, <2>3 DEF CheckStatus, TypeOK
      <3>2. call[q] \in [pc : {"check"}, op : {"status", "heartbeat", "leave"},
               session : Sessions, status : {"waiting", "reserved"},
               reservation : Reservations \cup {None}]
        BY <2>3, <3>1, CallTypes DEF CheckStatus, TypeOK
      <3> QED
        BY <2>1, <2>3, <3>1, <3>2 DEF CheckStatus, TypeOK, Idle
    <2>4. ASSUME NEW p \in Requests, NEW s \in Sessions,
                 NEW op \in {"status", "heartbeat", "leave"}, ReadStatus(p, s, op)
          PROVE  FALSE
      BY <2>1, <2>4 DEF ReadStatus, TypeOK
    <2>5. ASSUME NEW p \in Requests,
                 \/ \E x \in Rooms : ReadRoomToEnd(p, x)
                 \/ Beat(p) \/ RemoveSession(p) \/ PromoteNext(p) \/ EndRoom(p)
                 \/ UpdateRoom(p) \/ Abandon(p) \/ RemoveFails(p)
          PROVE  FALSE
      BY <2>1, <2>5 DEF ReadRoomToEnd, Beat, RemoveSession, PromoteNext, EndRoom, UpdateRoom,
           Abandon, RemoveFails, TypeOK, Idle
    <2> QED
      BY <2>1, <2>2, <2>3, <2>4, <2>5
         DEF Next, QueueStep, RoomStep, Progress, Deadline, Join, Enqueue, JoinFails,
             ClockTicks, RemoveFails, CreateRoom, ClaimRoom, RefuseClaim, RoomDeadline,
             HeartbeatDeadline, ReservationDeadline, ExpireSessionKey,
             ExpireReservationKey, vars
  <1> QED
    BY <1>2, <1>3 DEF LateTransfer

\* rooms/service.go:213-247: without a transfer that read the record in time, an ended room
\* is ended for good, whatever any number of handlers do with whatever they have read.
THEOREM EndedForGood == Spec => OnlyLateTransfersRevive
  <1>1. TypeOK /\ [Next]_vars =>
          [\A r \in Rooms : room[r] = "ended" /\ ~LateTransfer(r) =>
             room'[r] = "ended" /\ ~LateTransfer(r)']_vars
    BY EndedStep
  <1> QED
    BY <1>1, TypeCorrect, PTL DEF Spec, OnlyLateTransfersRevive
=============================================================================
