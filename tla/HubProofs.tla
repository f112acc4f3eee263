------------------------------ MODULE HubProofs ------------------------------
(***************************************************************************)
(* Proofs about Hub, for any number of connections, timers and seats.       *)
(***************************************************************************)
EXTENDS Hub, FiniteSetTheorems, TLAPS

\* What one hold of the mutex does to the clients and the timers, wherever it is from.
LEMMA RemovedLocked ==
  ASSUME TypeOK, NEW gone \in SUBSET Registered, RemoveLocked(gone)
  PROVE  /\ conn' \in [Clients -> Stages]
         /\ timer' \in [Timers -> {"off", "armed", "fired", "calling", "ending", "deleting"}]
         /\ entry' \in Timers \cup {None}
         /\ \A c \in Clients : conn'[c] = "gone" => conn[c] = "gone"
         /\ Registered' = Registered \ gone
         /\ gone # {} /\ Registered' = {} =>
              /\ entry' \in Timers /\ timer'[entry'] = "armed"
         /\ ~(gone # {} /\ Registered' = {}) => UNCHANGED <<timer, entry>>
  <1>1. /\ conn' = [c \in Clients |-> IF c \in gone THEN "removed" ELSE conn[c]]
        /\ IF gone # {} /\ Registered \ gone = {} THEN Schedule ELSE UNCHANGED <<timer, entry>>
    BY DEF RemoveLocked
  <1>2. gone \subseteq Clients
    BY DEF Registered
  <1>3. /\ conn' \in [Clients -> Stages]
        /\ \A c \in Clients : conn'[c] = "gone" => conn[c] = "gone"
    BY <1>1, <1>2 DEF TypeOK, Stages
  <1>4. Registered' = Registered \ gone
    BY <1>1, <1>2 DEF Registered, TypeOK
  <1>5. CASE gone # {} /\ Registered \ gone = {}
    <2>1. PICK t \in Timers :
            timer[t] = "off" /\ timer' = [timer EXCEPT ![t] = "armed"] /\ entry' = t
      BY <1>1, <1>5 DEF Schedule
    <2> QED
      BY <1>3, <1>4, <1>5, <2>1 DEF TypeOK
  <1>6. CASE ~(gone # {} /\ Registered \ gone = {})
    BY <1>1, <1>3, <1>4, <1>6 DEF TypeOK
  <1> QED
    BY <1>5, <1>6

-----------------------------------------------------------------------------
(* What every step keeps true of the hub's memory and the seats. *)

HubInv == TypeOK /\ SeatReturned /\ EntryCurrent /\ EmptyRoomWatched

LEMMA HubInit == Init => HubInv
  BY DEF Init, HubInv, TypeOK, Stages, SeatReturned, EntryCurrent, EmptyRoomWatched

LEMMA RemovalStep ==
  ASSUME HubInv, NEW gone \in SUBSET Registered, gone # {}, RemoveLocked(gone),
         serving' \subseteq serving, UNCHANGED <<seatVars, roomVars, watched>>
  PROVE  HubInv'
  <1>1. TypeOK'
    BY RemovedLocked DEF HubInv, TypeOK, seatVars, roomVars
  <1>2. SeatReturned'
    BY RemovedLocked DEF HubInv, SeatReturned, seatVars
  <1>3. Registered # {}
    BY DEF Registered
  <1>4. entry' # None => Registered' = {} /\ timer'[entry'] = "armed"
    BY RemovedLocked, <1>3 DEF HubInv, EntryCurrent
  <1>5. EntryCurrent'
    BY <1>4 DEF EntryCurrent
  <1>6. Registered' = {} => entry' \in Timers /\ timer'[entry'] = "armed"
    BY RemovedLocked DEF HubInv
  <1>7. EmptyRoomWatched'
    BY <1>6 DEF EmptyRoomWatched
  <1> QED
    BY <1>1, <1>2, <1>5, <1>7 DEF HubInv

\* A step that only moves connections which are and stay unregistered.
LEMMA OutsideStep ==
  ASSUME HubInv, TypeOK', SeatReturned', Registered' = Registered,
         UNCHANGED <<timer, entry, watched>>
  PROVE  HubInv'
  BY DEF HubInv, EntryCurrent, EmptyRoomWatched

LEMMA ConnectStep ==
  ASSUME HubInv, NEW c \in Clients, Connect(c)
  PROVE  HubInv'
  <1>1. CASE Authorize(c)
    <2>1. TypeOK' /\ SeatReturned' /\ Registered' = Registered
      BY <1>1 DEF Authorize, HubInv, TypeOK, Stages, SeatReturned, Registered, seatVars, roomVars
    <2> QED
      BY <1>1, <2>1, OutsideStep DEF Authorize
  <1>2. CASE Admit(c) \/ AdmitLost(c)
    <2>1. TypeOK' /\ Registered' = Registered
      BY <1>2 DEF Admit, AdmitLost, HubInv, TypeOK, Stages, Registered, Seated, roomVars
    <2>2. SeatReturned'
      BY <1>2 DEF Admit, AdmitLost, HubInv, TypeOK, SeatReturned, Seated
    <2> QED
      BY <1>2, <2>1, <2>2, OutsideStep DEF Admit, AdmitLost
  <1>3. CASE Register(c)
    <2>1. PICK evicted \in SUBSET Registered :
            conn' = [d \in Clients |-> IF d = c THEN "in"
                                        ELSE IF d \in evicted THEN "removed" ELSE conn[d]]
      BY <1>3 DEF Register
    <2>2. TypeOK'
      BY <1>3, <2>1 DEF Register, HubInv, TypeOK, Stages, seatVars, roomVars
    <2>3. SeatReturned'
      BY <1>3, <2>1 DEF Register, HubInv, TypeOK, SeatReturned, seatVars
    <2>4. c \in Registered'
      BY <2>1 DEF Registered
    <2>5. EntryCurrent' /\ EmptyRoomWatched'
      BY <1>3, <2>4 DEF Register, EntryCurrent, EmptyRoomWatched
    <2> QED
      BY <2>2, <2>3, <2>5 DEF HubInv
  <1> QED
    BY <1>1, <1>2, <1>3 DEF Connect

LEMMA DisconnectStep ==
  ASSUME HubInv, NEW c \in Clients, Disconnect(c)
  PROVE  HubInv'
  <1>1. CASE WatchExpires(c)
    <2>1. PICK evicted \in SUBSET (Registered \ {c}) : RemoveLocked(evicted \cup {c})
      BY <1>1 DEF WatchExpires
    <2>2. evicted \cup {c} \in SUBSET Registered /\ evicted \cup {c} # {}
      BY <1>1 DEF WatchExpires
    <2> QED
      BY <1>1, <2>1, <2>2, RemovalStep DEF WatchExpires
  <1>2. CASE Leave(c) /\ c \in Registered
    <2>1. PICK evicted \in SUBSET (Registered \ {c}) : RemoveLocked(evicted \cup {c})
      BY <1>2 DEF Leave
    <2>2. evicted \cup {c} \in SUBSET Registered /\ evicted \cup {c} # {}
      BY <1>2
    <2> QED
      BY <1>2, <2>1, <2>2, RemovalStep DEF Leave
  <1>3. CASE Leave(c) /\ c \notin Registered
    <2>1. TypeOK' /\ SeatReturned' /\ Registered' = Registered
      BY <1>3 DEF Leave, HubInv, TypeOK, SeatReturned, Registered, seatVars, roomVars
    <2> QED
      BY <1>3, <2>1, OutsideStep DEF Leave
  <1>4. CASE Close(c)
    <2>1. TypeOK' /\ SeatReturned' /\ Registered' = Registered
      BY <1>4 DEF Close, HubInv, TypeOK, Stages, SeatReturned, Registered, seatVars, roomVars
    <2> QED
      BY <1>4, <2>1, OutsideStep DEF Close
  <1> QED
    BY <1>1, <1>2, <1>3, <1>4 DEF Disconnect

LEMMA SeatStep ==
  ASSUME HubInv, NEW c \in Clients, Seat(c)
  PROVE  HubInv'
  <1>1. TypeOK'
    BY DEF Seat, Heartbeat, Cleanup, CleanupFails, SeatLapses, HubInv, TypeOK, Stages,
           hubVars, seatVars, roomVars
  <1>2. SeatReturned'
    BY DEF Seat, Heartbeat, Cleanup, CleanupFails, SeatLapses, HubInv, TypeOK, SeatReturned,
           hubVars, seatVars, roomVars
  <1>3. Registered' = Registered
    BY DEF Seat, Heartbeat, Cleanup, CleanupFails, SeatLapses, HubInv, TypeOK, Registered,
           hubVars
  <1>4. UNCHANGED <<timer, entry, watched>>
    BY DEF Seat, Heartbeat, Cleanup, CleanupFails, SeatLapses, hubVars
  <1> QED
    BY <1>1, <1>2, <1>3, <1>4, OutsideStep

LEMMA TimerStep ==
  ASSUME HubInv, NEW t \in Timers, Timer(t)
  PROVE  HubInv'
  <1>1. TypeOK' /\ SeatReturned' /\ Registered' = Registered
    BY DEF Timer, OnEmpty, TimerFires, TimerChecks, ReadRoom, EndRoom, DeleteRoom, CallbackFails,
           HubInv, TypeOK, SeatReturned, Registered, seatVars, roomVars
  <1>2. CASE TimerFires(t)
    BY <1>1, <1>2 DEF TimerFires, HubInv, TypeOK, EntryCurrent, EmptyRoomWatched
  <1>3. CASE TimerChecks(t)
    BY <1>1, <1>3 DEF TimerChecks, HubInv, TypeOK, EntryCurrent, EmptyRoomWatched
  <1>4. CASE ReadRoom(t) \/ EndRoom(t)
    BY <1>1, <1>4 DEF ReadRoom, EndRoom, HubInv, TypeOK, EntryCurrent, EmptyRoomWatched
  <1>5. CASE DeleteRoom(t)
    BY <1>1, <1>5 DEF DeleteRoom, HubInv, TypeOK, EntryCurrent, EmptyRoomWatched
  <1>6. CASE CallbackFails(t)
    BY <1>1, <1>6 DEF CallbackFails, HubInv, TypeOK, EntryCurrent, EmptyRoomWatched
  <1> QED
    BY <1>2, <1>3, <1>4, <1>5, <1>6 DEF Timer, OnEmpty

LEMMA HubStep == HubInv /\ [Next]_vars => HubInv'
  <1> SUFFICES ASSUME HubInv, [Next]_vars PROVE HubInv'
    OBVIOUS
  <1>1. ASSUME NEW c \in Clients, Connect(c) \/ Disconnect(c) \/ Seat(c) PROVE HubInv'
    BY <1>1, ConnectStep, DisconnectStep, SeatStep
  <1>2. ASSUME NEW t \in Timers, Timer(t) PROVE HubInv'
    BY <1>2, TimerStep
  <1>3. CASE Publish
    BY <1>3, RemovalStep DEF Publish
  <1>4. CASE PresenceKeyExpires
    <2>1. TypeOK' /\ SeatReturned' /\ Registered' = Registered
      BY <1>4 DEF PresenceKeyExpires, HubInv, TypeOK, SeatReturned, Registered, hubVars, roomVars
    <2> QED
      BY <1>4, <2>1, OutsideStep DEF PresenceKeyExpires, hubVars
  <1>5. CASE DeadlineEnds \/ Transfer \/ OwnerEnds \/ OwnerDeletes \/ MediaChanges
    <2> USE DEF DeadlineEnds, Transfer, ReadRoomToTransfer, UpdateRoom, AbandonTransfers,
                OwnerEnds, OwnerDeletes, MediaChanges
    <2>1. TypeOK'
      BY <1>5 DEF HubInv, TypeOK, hubVars, seatVars
    <2>2. UNCHANGED <<hubVars, seatVars, watched>>
      BY <1>5
    <2> QED
      BY <2>1, <2>2, OutsideStep DEF HubInv, SeatReturned, Registered, hubVars, seatVars
  <1>6. CASE Restart
    BY <1>6 DEF Restart, HubInv, TypeOK, Stages, SeatReturned, EntryCurrent,
         EmptyRoomWatched, seatVars
  <1>7. CASE UNCHANGED vars
    BY <1>7 DEF vars, hubVars, seatVars, roomVars, HubInv, TypeOK, SeatReturned, EntryCurrent,
         EmptyRoomWatched, Registered
  <1> QED
    BY <1>1, <1>2, <1>3, <1>4, <1>5, <1>6, <1>7 DEF Next

\* Every variable of the hub keeps its type; in particular a seat that is gone has no
\* deadline left behind.
THEOREM HubTypeCorrect == Spec => []TypeOK
  <1>1. HubInv => TypeOK
    BY DEF HubInv
  <1> QED
    BY <1>1, HubInit, HubStep, PTL DEF Spec

\* A heartbeat that is late cannot take a seat again for a client that was removed.
THEOREM SeatsReturned == Spec => []SeatReturned
  <1>1. HubInv => SeatReturned
    BY DEF HubInv
  <1> QED
    BY <1>1, HubInit, HubStep, PTL DEF Spec

\* The timer map holds only a timer still to come, of an empty room.
THEOREM EntriesCurrent == Spec => []EntryCurrent
  <1>1. HubInv => EntryCurrent
    BY DEF HubInv
  <1> QED
    BY <1>1, HubInit, HubStep, PTL DEF Spec

\* However the last client is lost, whichever callbacks it races with and whoever ended the
\* record, the empty room has a timer or a callback still to come.
THEOREM EmptyRoomsWatched == Spec => []EmptyRoomWatched
  <1>1. HubInv => EmptyRoomWatched
    BY DEF HubInv
  <1> QED
    BY <1>1, HubInit, HubStep, PTL DEF Spec

-----------------------------------------------------------------------------
(* The clients. *)

LEMMA MembersRemoved ==
  ASSUME HubInv, NEW gone \in SUBSET Registered, gone # {}, RemoveLocked(gone)
  PROVE  Members!Next
  <1>1. entry = None /\ gone \subseteq Clients
    BY DEF HubInv, EntryCurrent, Registered
  <1>2. Registered' = Registered \ gone
    BY RemovedLocked DEF HubInv
  <1>3. {c \in Clients : conn'[c] = "removed"} = {c \in Clients : conn[c] = "removed"} \cup gone
    BY <1>1 DEF RemoveLocked
  <1>4. entry' # None <=> Registered \ gone = {}
    BY <1>1, <1>2, RemovedLocked, NoTimerAssumption DEF HubInv
  <1>5. Members!Exit(gone)
    BY <1>2, <1>3, <1>4 DEF Members!Exit
  <1> QED
    BY <1>5 DEF Members!Next

LEMMA MembersStep == HubInv /\ [Next]_vars => [Members!Next]_(Members!memberVars)
  <1> SUFFICES ASSUME HubInv, [Next]_vars PROVE [Members!Next]_(Members!memberVars)
    OBVIOUS
  <1> DEFINE away == {c \in Clients : conn[c] = "removed"}
  <1>1. TypeOK
    BY DEF HubInv
  <1>2. ASSUME Registered' = Registered, away' = away, entry' = entry
        PROVE  UNCHANGED Members!memberVars
    BY <1>2 DEF Members!memberVars
  <1>3. ASSUME UNCHANGED <<conn, entry>> PROVE UNCHANGED Members!memberVars
    BY <1>3 DEF Members!memberVars, Registered
  <1>4. ASSUME NEW c \in Clients, Authorize(c) \/ Admit(c) \/ AdmitLost(c) \/ Close(c) \/ Heartbeat(c)
        PROVE  UNCHANGED Members!memberVars
    BY <1>1, <1>2, <1>4 DEF Authorize, Admit, AdmitLost, Close, Heartbeat, Registered, TypeOK
  <1>5. ASSUME NEW c \in Clients, Register(c) PROVE Members!Next
    <2>1. PICK evicted \in SUBSET Registered :
            conn' = [d \in Clients |-> IF d = c THEN "in"
                                        ELSE IF d \in evicted THEN "removed" ELSE conn[d]]
      BY <1>5 DEF Register
    <2>2. conn[c] = "admitted" /\ entry' = None
      BY <1>5 DEF Register
    <2>3. Registered' = (Registered \ evicted) \cup {c}
      BY <2>1 DEF Registered
    <2>4. away' = away \cup evicted
      BY <2>1, <2>2 DEF Registered
    <2>5. c \notin Registered \cup away
      BY <2>2 DEF Registered
    <2>6. Members!Enter(c, evicted)
      BY <2>2, <2>3, <2>4, <2>5 DEF Members!Enter
    <2> QED
      BY <2>6 DEF Members!Next
  <1>6. ASSUME NEW c \in Clients, WatchExpires(c) \/ (Leave(c) /\ c \in Registered) PROVE Members!Next
    <2>1. PICK evicted \in SUBSET (Registered \ {c}) : RemoveLocked(evicted \cup {c})
      BY <1>6 DEF WatchExpires, Leave
    <2>2. evicted \cup {c} \in SUBSET Registered /\ evicted \cup {c} # {}
      BY <1>6 DEF WatchExpires
    <2> QED
      BY <2>1, <2>2, MembersRemoved
  <1>7. ASSUME NEW c \in Clients, Leave(c), c \notin Registered PROVE UNCHANGED Members!memberVars
    BY <1>3, <1>7 DEF Leave
  <1>8. CASE Publish
    BY <1>8, MembersRemoved DEF Publish
  <1>9. ASSUME NEW c \in Clients, Cleanup(c) \/ CleanupFails(c) PROVE Members!Next
    <2>1. Registered' = Registered /\ away' = away \ {c} /\ entry' = entry
      BY <1>1, <1>9 DEF Cleanup, CleanupFails, Registered, TypeOK
    <2>2. Members!Return(c)
      BY <2>1 DEF Members!Return
    <2> QED
      BY <2>2 DEF Members!Next
  <1>10. ASSUME NEW c \in Clients, SeatLapses(c) PROVE UNCHANGED Members!memberVars
    BY <1>3, <1>10 DEF SeatLapses, hubVars
  <1>11. ASSUME NEW t \in Timers, TimerChecks(t) PROVE Members!Next
    <2>1. UNCHANGED conn /\ entry' = None
      BY <1>11 DEF TimerChecks
    <2>2. Registered' = Registered /\ away' = away
      BY <2>1 DEF Registered
    <2>3. Members!Quiet
      BY <2>1, <2>2 DEF Members!Quiet, HubInv, EntryCurrent
    <2> QED
      BY <2>3 DEF Members!Next
  <1>12. ASSUME NEW t \in Timers, TimerFires(t) \/ OnEmpty(t) PROVE UNCHANGED Members!memberVars
    BY <1>3, <1>12 DEF TimerFires, OnEmpty, ReadRoom, EndRoom, DeleteRoom, CallbackFails
  <1>13. CASE Restart
    <2>1. Registered' = {} /\ away' = {} /\ entry' = None
      BY <1>13 DEF Restart, Registered
    <2>2. Members!Forget
      BY <2>1 DEF Members!Forget
    <2> QED
      BY <2>2 DEF Members!Next
  <1>14. CASE \/ PresenceKeyExpires \/ DeadlineEnds \/ Transfer \/ OwnerEnds \/ OwnerDeletes
              \/ MediaChanges \/ UNCHANGED vars
    BY <1>3, <1>14
       DEF PresenceKeyExpires, DeadlineEnds, Transfer, ReadRoomToTransfer, UpdateRoom,
           AbandonTransfers, OwnerEnds, OwnerDeletes, MediaChanges, vars, hubVars
  <1> HIDE DEF away
  <1> QED
    BY <1>4, <1>5, <1>6, <1>7, <1>8, <1>9, <1>10, <1>11, <1>12, <1>13, <1>14
       DEF Next, Connect, Disconnect, Seat, Timer

\* realtime/hub.go:150-234: registering, evicting, leaving, the watch and the callback keep
\* to Membership, which a hold of the mutex, broadcast by broadcast, implements.
THEOREM HubKeepsMembership == Spec => MembersSpec
  <1>1. Init => Members!Init
    BY DEF Init, Members!Init, Registered
  <1> QED
    BY <1>1, HubInit, HubStep, MembersStep, PTL DEF Spec, MembersSpec, Members!Spec

-----------------------------------------------------------------------------
(* The seats. *)

LEMMA SeatsStep == TypeOK /\ PresenceBound /\ [Next]_vars => PresenceBound'
  <1> SUFFICES ASSUME TypeOK, PresenceBound, [Next]_vars PROVE PresenceBound'
    OBVIOUS
  <1>1. IsFiniteSet(presence)
    BY ClientsAssumption, FS_Subset DEF TypeOK
  <1>2. ASSUME NEW S \in SUBSET presence PROVE Cardinality(S) <= Max
    <2>1. Cardinality(S) <= Cardinality(presence)
      BY <1>1, FS_Subset
    <2>2. Cardinality(S) \in Nat /\ Cardinality(presence) \in Nat
      BY <1>1, FS_Subset, FS_CardinalityType
    <2> QED
      BY <2>1, <2>2, MaxAssumption DEF PresenceBound
  <1>3. ASSUME NEW c \in Clients, Admit(c) \/ AdmitLost(c) PROVE PresenceBound'
    <2>1. CASE ~SeatFree
      BY <1>2, <1>3, <2>1 DEF Admit, AdmitLost, Seated, PresenceBound
    <2>2. CASE SeatFree
      <3>1. IsFiniteSet(Seated)
        BY <1>1, FS_Subset DEF Seated
      <3>2. Cardinality(Seated \cup {c}) \in {Cardinality(Seated), Cardinality(Seated) + 1}
        BY <3>1, FS_AddElement
      <3>3. Cardinality(Seated) \in Nat /\ Cardinality(Seated) < Max
        BY <2>2, <3>1, FS_CardinalityType DEF SeatFree
      <3>4. presence' = Seated \cup {c}
        BY <1>3, <2>2 DEF Admit, AdmitLost
      <3> QED
        BY <3>2, <3>3, <3>4, MaxAssumption DEF PresenceBound
    <2> QED
      BY <2>1, <2>2
  <1>4. CASE presence' \subseteq presence
    BY <1>2, <1>4 DEF PresenceBound
  <1>5. presence' \subseteq presence \/ \E c \in Clients : Admit(c) \/ AdmitLost(c)
    BY DEF Next, Connect, Disconnect, Seat, Timer, Authorize, Register, WatchExpires, Leave,
         Close, Heartbeat, Cleanup, CleanupFails, SeatLapses, TimerFires, TimerChecks,
         OnEmpty, ReadRoom, EndRoom, DeleteRoom, CallbackFails, Publish, PresenceKeyExpires,
         DeadlineEnds, Transfer, ReadRoomToTransfer, UpdateRoom, AbandonTransfers, OwnerEnds,
         OwnerDeletes, MediaChanges, Restart, vars, seatVars
  <1> QED
    BY <1>3, <1>4, <1>5

\* No more seats are ever taken than the room has, also by connections that never got
\* their answer, and after restarts.
THEOREM PresenceBounded == Spec => []PresenceBound
  <1>1. Init => PresenceBound
    BY FS_EmptySet, MaxAssumption DEF Init, PresenceBound
  <1> QED
    BY <1>1, HubTypeCorrect, SeatsStep, PTL DEF Spec

-----------------------------------------------------------------------------
(* The empty room. *)

\* A callback goes on to LiveKit only after the record was ended; only a late transfer can have
\* made it active again.
EndedFirst == \A t \in Timers : timer[t] = "deleting" => room \in {"ended", "revived"}

LEMMA EndedFirstStep == TypeOK /\ EndedFirst /\ [Next]_vars => EndedFirst'
  <1> SUFFICES ASSUME TypeOK, EndedFirst, [Next]_vars PROVE EndedFirst'
    OBVIOUS
  <1>1. ASSUME room' = room \/ room' \in {"ended", "revived"},
               \A t \in Timers : timer'[t] = "deleting" => timer[t] = "deleting"
        PROVE  EndedFirst'
    BY <1>1 DEF EndedFirst
  <1>2. ASSUME NEW t \in Timers, ReadRoom(t) \/ EndRoom(t) PROVE EndedFirst'
    BY <1>2 DEF ReadRoom, EndRoom, EndedFirst, TypeOK, roomVars
  <1>3. ASSUME NEW t \in Timers,
               TimerFires(t) \/ TimerChecks(t) \/ DeleteRoom(t) \/ CallbackFails(t)
        PROVE  EndedFirst'
    BY <1>3 DEF TimerFires, TimerChecks, DeleteRoom, CallbackFails, EndedFirst, TypeOK, roomVars
  <1>4. ASSUME NEW gone, RemoveLocked(gone) \/ UNCHANGED timer,
               room' = room \/ room' \in {"ended", "revived"}
        PROVE  EndedFirst'
    BY <1>1, <1>4 DEF RemoveLocked, Schedule, TypeOK
  <1>5. ASSUME NEW c \in Clients, Register(c) PROVE EndedFirst'
    BY <1>1, <1>5 DEF Register, roomVars
  <1>6. CASE Restart
    BY <1>6 DEF Restart, EndedFirst
  <1>7. ASSUME NEW c \in Clients,
               \/ Authorize(c) \/ Admit(c) \/ AdmitLost(c) \/ Disconnect(c) \/ Seat(c)
        PROVE  EndedFirst'
    BY <1>4, <1>7
       DEF Authorize, Admit, AdmitLost, Disconnect, WatchExpires, Leave, Close, Seat, Heartbeat,
           Cleanup, CleanupFails, SeatLapses, hubVars, roomVars
  <1>8. CASE \/ Publish \/ PresenceKeyExpires \/ DeadlineEnds \/ Transfer \/ OwnerEnds
             \/ OwnerDeletes \/ MediaChanges \/ UNCHANGED vars
    BY <1>4, <1>8
       DEF Publish, PresenceKeyExpires, DeadlineEnds, Transfer, ReadRoomToTransfer, UpdateRoom,
           AbandonTransfers, OwnerEnds, OwnerDeletes, MediaChanges, vars, hubVars, roomVars
  <1> QED
    BY <1>2, <1>3, <1>5, <1>6, <1>7, <1>8 DEF Next, Connect, Timer, OnEmpty

LEMMA RunsOutStep ==
  ASSUME TypeOK, EndedFirst, [Next]_vars, watched, Registered = {}, Registered' = {}
  PROVE  IF watched'
         THEN \A t \in Timers : timer'[t] = timer[t] \/ <<timer[t], timer'[t]>> \in Later
         ELSE \/ room' \in {"ended", "revived"} /\ ~media'
              \/ Restart
              \/ \E t \in Timers : CallbackFails(t)
  <1> DEFINE Goal ==
        IF watched'
        THEN \A t \in Timers : timer'[t] = timer[t] \/ <<timer[t], timer'[t]>> \in Later
        ELSE \/ room' \in {"ended", "revived"} /\ ~media'
             \/ Restart
             \/ \E t \in Timers : CallbackFails(t)
  <1>1. ASSUME UNCHANGED <<timer, watched>> PROVE Goal
    BY <1>1
  <1>2. ASSUME NEW t \in Timers, Timer(t) PROVE Goal
    <2>1. CASE TimerFires(t) \/ TimerChecks(t) \/ ReadRoom(t) \/ EndRoom(t)
      BY <2>1 DEF TimerFires, TimerChecks, ReadRoom, EndRoom, Later, TypeOK
    <2>2. CASE DeleteRoom(t)
      <3>1. ~watched' /\ room' \in {"ended", "revived"} /\ ~media'
        BY <2>2 DEF DeleteRoom, EndedFirst
      <3> QED
        BY <3>1
    <2>3. CASE CallbackFails(t)
      BY <2>3 DEF CallbackFails
    <2> QED
      BY <1>2, <2>1, <2>2, <2>3 DEF Timer, OnEmpty
  <1>3. CASE Restart
    BY <1>3 DEF Restart
  <1>4. ASSUME NEW c \in Clients, Register(c) PROVE Goal
    <2>1. c \in Registered'
      BY <1>4 DEF Register, Registered
    <2> QED
      BY <2>1
  <1>5. ASSUME NEW gone \in SUBSET Registered, gone # {} PROVE Goal
    BY <1>5
  <1>6. ASSUME NEW c \in Clients,
               \/ Authorize(c) \/ Admit(c) \/ AdmitLost(c) \/ Disconnect(c) \/ Seat(c)
        PROVE  Goal
    <2>1. c \notin Registered
      OBVIOUS
    <2> QED
      BY <1>1, <1>6, <2>1
         DEF Authorize, Admit, AdmitLost, Disconnect, WatchExpires, Leave, Close, Seat, Heartbeat,
             Cleanup, CleanupFails, SeatLapses, hubVars
  <1>7. CASE \/ PresenceKeyExpires \/ DeadlineEnds \/ Transfer \/ OwnerEnds \/ OwnerDeletes
             \/ MediaChanges \/ UNCHANGED vars
    BY <1>1, <1>7
       DEF PresenceKeyExpires, DeadlineEnds, Transfer, ReadRoomToTransfer, UpdateRoom,
           AbandonTransfers, OwnerEnds, OwnerDeletes, MediaChanges, vars, hubVars
  <1>8. CASE Publish
    BY <1>5, <1>8 DEF Publish
  <1> QED
    BY <1>2, <1>3, <1>4, <1>6, <1>7, <1>8 DEF Next, Connect

\* realtime/hub.go:236-262, cmd/api/main.go: with any number of connections and of timers that
\* race, a room left empty comes step by step nearer to its end.  The hub gives it up only for a
\* restart, an error, or a late transfer that made the record active after its end, and then the
\* LiveKit room is gone all the same.  With EmptyRoomsWatched, what is left of EmptyRoomEnds and
\* MediaDeleted is that timers and callbacks run.
THEOREM EmptyRoomsRunOut == Spec => EmptyRoomRunsOut
  <1>1. Init => EndedFirst
    BY DEF Init, EndedFirst
  <1>2. TypeOK /\ EndedFirst /\ [Next]_vars =>
          [watched /\ Registered = {} /\ Registered' = {} =>
             IF watched'
             THEN \A t \in Timers : timer'[t] = timer[t] \/ <<timer[t], timer'[t]>> \in Later
             ELSE \/ room' \in {"ended", "revived"} /\ ~media'
                  \/ Restart
                  \/ \E t \in Timers : CallbackFails(t)]_vars
    BY RunsOutStep
  <1> QED
    BY <1>1, <1>2, EndedFirstStep, HubTypeCorrect, PTL DEF Spec, EmptyRoomRunsOut
=============================================================================
