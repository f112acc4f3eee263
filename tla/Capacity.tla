------------------------------ MODULE Capacity ------------------------------
(***************************************************************************)
(* The room slots of Ruse and the queue of creators waiting for one: the   *)
(* four Lua scripts and the pipelines of rooms/redis_store.go and          *)
(* queue/service.go, run by concurrent request handlers of the API server. *)
(*                                                                         *)
(* One Redis command, script or MULTI/EXEC pipeline is one action.  What a *)
(* handler read in an earlier command is kept in call[q] until it acts on  *)
(* it.  Time is not measured: a deadline is either still ahead or has      *)
(* passed (stale, roomDue, resDue), and may pass between any two commands. *)
(* Operators marked "Slip" are not used by the specification: each is its   *)
(* successor with one plausible mistake, which some property must notice.   *)
(* Redis expires keys by its own clock, so a key may go before or after    *)
(* the server sees the matching deadline.                                  *)
(***************************************************************************)
EXTENDS Naturals, FiniteSets

CONSTANTS
  Rooms,         \* room ids; a created room keeps its id for ever
  Sessions,      \* queue session ids
  Reservations,  \* reservation ids
  Requests,      \* request handlers that may be under way at once
  Capacity,      \* 3 in the scripts' arguments
  None           \* an absent session or reservation

ASSUME CapacityAssumption == Capacity \in Nat
ASSUME FiniteAssumption == IsFiniteSet(Rooms) /\ IsFiniteSet(Reservations)
ASSUME NoneAssumption == None \notin Sessions \cup Reservations

VARIABLES
  active,        \* SET ruse:rooms:active
  room,          \* State of the record ruse:room:<id>
  expirations,   \* members of ZSET ruse:rooms:expirations
  roomDue,       \* rooms whose ExpiresAt has passed
  queue,         \* members of ZSET ruse:queue
  joining,       \* sessions whose Join has read the clock and not yet run its pipeline
  ahead,         \* the order of their scores: ahead[s] are those below s
  instant,       \* those whose score is the millisecond that the clock shows
  status,        \* HASH ruse:queue:<id>: status, "ghost" if only a heartbeat is there
  granted,       \* ... and its reservationId
  stale,         \* sessions whose heartbeat is more than 60 s old
  reservations,  \* members of ZSET ruse:reservations
  resDue,        \* reservations whose score has passed
  resKey,        \* STRING ruse:reservation:<id>, the session it was granted to
  call           \* what each request handler has read and does next

roomVars == <<active, room, expirations>>
lineVars == <<queue, joining, ahead, instant>>
sessionVars == <<status, granted, stale, lineVars>>
reservationVars == <<reservations, resDue, resKey>>
vars == <<roomVars, roomDue, sessionVars, reservationVars, call>>

Idle == [pc |-> "idle"]
Calls ==
  {Idle, [pc |-> "promote"]}
    \cup [pc : {"check"}, op : {"status", "heartbeat", "leave"}, session : Sessions,
          status : {"waiting", "reserved"}, reservation : Reservations \cup {None}]
    \cup [pc : {"beat"}, session : Sessions]
    \cup [pc : {"remove", "leave"}, session : Sessions, reservation : Reservations \cup {None}]
    \cup [pc : {"end", "update"}, room : Rooms]

TypeOK ==
  /\ active \subseteq Rooms
  /\ room \in [Rooms -> {"absent", "active", "ended"}]
  /\ expirations \subseteq Rooms
  /\ roomDue \subseteq Rooms
  /\ queue \subseteq Sessions /\ joining \subseteq Sessions /\ instant \subseteq Sessions
  /\ ahead \in [Sessions -> SUBSET Sessions]
  /\ status \in [Sessions -> {"none", "ghost", "waiting", "reserved"}]
  /\ granted \in [Sessions -> Reservations \cup {None}]
  /\ stale \subseteq Sessions
  /\ reservations \subseteq Reservations
  /\ resDue \subseteq Reservations
  /\ resKey \in [Reservations -> Sessions \cup {None}]
  /\ call \in [Requests -> Calls]

Init ==
  /\ active = {} /\ expirations = {} /\ roomDue = {}
  /\ room = [r \in Rooms |-> "absent"]
  /\ queue = {} /\ joining = {} /\ instant = {} /\ stale = {}
  /\ ahead = [s \in Sessions |-> {}]
  /\ status = [s \in Sessions |-> "none"]
  /\ granted = [s \in Sessions |-> None]
  /\ reservations = {} /\ resDue = {}
  /\ resKey = [v \in Reservations |-> None]
  /\ call = [q \in Requests |-> Idle]

-----------------------------------------------------------------------------
(* Random ids: an id is new when nothing refers to it. *)

\* Sessions that have a place in the order.
Placed == queue \cup joining

FreshSession(s) ==
  /\ status[s] = "none" /\ s \notin Placed
  /\ \A v \in Reservations : resKey[v] # s
  /\ \A q \in Requests : call[q].pc \in {"check", "beat", "remove", "leave"} => call[q].session # s

\* Slip: an id is taken again as soon as its keys are gone.
ReusedReservation(v) == v \notin reservations /\ resKey[v] = None

FreshReservation(v) ==
  /\ v \notin reservations /\ resKey[v] = None
  /\ \A s \in Sessions : granted[s] # v
  /\ \A q \in Requests : call[q].pc \in {"check", "remove", "leave"} => call[q].reservation # v

-----------------------------------------------------------------------------
(* What the scripts share.  Each prunes the rooms whose deadline passed, then *)
(* the reservations nobody can claim any more together with their sessions.   *)

DueRooms == expirations \cap roomDue

Holds(s, v) == status[s] = "reserved" /\ s \notin stale /\ granted[s] = v

StaleReservation(v) ==
  v \in resDue \/ resKey[v] = None \/ ~Holds(resKey[v], v)

LiveReservations == {v \in reservations : ~StaleReservation(v)}

Evicted == {s \in Sessions : \E v \in reservations \ LiveReservations : resKey[v] = s}

\* Queued sessions that ZPOPMIN would find fit for promotion after the pruning.
Live == {s \in queue \ Evicted : status[s] = "waiting" /\ s \notin stale}

\* Slip: one grant too many.
SlotFreeOneMore(open) == Cardinality(open) + Cardinality(LiveReservations) <= Capacity

\* Slip: one grant too few.
SlotFreeOneLess(open) == Cardinality(open) + Cardinality(LiveReservations) + 1 < Capacity

\* A slot is free beside the given active rooms, after the pruning.
SlotFree(open) == Cardinality(open) + Cardinality(LiveReservations) < Capacity

\* Slip: ZPOPMAX.
LastWinners(open) ==
  IF SlotFree(open) /\ Live # {} THEN {w \in Live : \A x \in Live : w \notin ahead[x]} ELSE {None}

\* The loop pops sessions in order until one is fit; None if none is or no slot is free.
Winners(open) ==
  IF SlotFree(open) /\ Live # {} THEN {w \in Live : ahead[w] \cap Live = {}} ELSE {None}

\* Slip: ZPOPMIN of the whole queue.
PoppedAll(open, w) == IF ~SlotFree(open) THEN {} ELSE queue

\* Slip: the winner is looked at, but stays queued.
PeekedOnly(open, w) ==
  IF ~SlotFree(open) THEN {} ELSE IF w = None THEN queue ELSE ahead[w] \cap queue

Popped(open, w) ==
  IF ~SlotFree(open) THEN {}
  ELSE IF w = None THEN queue
  ELSE {w} \cup (ahead[w] \cap queue)

Forget(gone) ==
  /\ ahead' = [s \in Sessions |-> IF s \in gone THEN {} ELSE ahead[s] \ gone]
  /\ instant' = instant \ gone

Dequeue(gone) == queue' = queue \ gone /\ Forget(gone) /\ UNCHANGED joining

DropSessions(gone) ==
  /\ status' = [s \in Sessions |-> IF s \in gone THEN "none" ELSE status[s]]
  /\ granted' = [s \in Sessions |-> IF s \in gone THEN None ELSE granted[s]]
  /\ stale' = stale \ gone

DropReservations(gone) ==
  /\ reservations' = reservations \ gone
  /\ resDue' = resDue \ gone
  /\ resKey' = [v \in Reservations |-> IF v \in gone THEN None ELSE resKey[v]]

\* Pruning alone, and pruning that also takes one session and its reservation along.
PruneSessions(also) == DropSessions(Evicted \cup also) /\ Dequeue(Evicted \cup also)
PruneReservations(also) == DropReservations((reservations \ LiveReservations) \cup also)

\* The sessions popped before the winner lose their hash; the winner, if any, is
\* granted the new reservation v.
PruneAndPromote(open, w, v) ==
  /\ Dequeue(Evicted \cup Popped(open, w))
  /\ IF w = None
     THEN /\ DropSessions(Evicted \cup Popped(open, w))
          /\ PruneReservations({})
     ELSE /\ FreshReservation(v)
          /\ LET dead == (Evicted \cup Popped(open, w)) \ {w}
             IN  /\ status' = [s \in Sessions |-> IF s = w THEN "reserved"
                                 ELSE IF s \in dead THEN "none" ELSE status[s]]
                 /\ granted' = [s \in Sessions |-> IF s = w THEN v
                                 ELSE IF s \in dead THEN None ELSE granted[s]]
                 /\ stale' = stale \ dead
          /\ reservations' = LiveReservations \cup {v}
          /\ resDue' = resDue \cap LiveReservations
          /\ resKey' = [u \in Reservations |-> IF u = v THEN w
                          ELSE IF u \in LiveReservations THEN resKey[u] ELSE None]

\* Promotion tries one id; without a winner the id is not used.
Promotion(open) ==
  \E w \in Winners(open) :
    IF w = None THEN PruneAndPromote(open, None, None)
    ELSE \E v \in Reservations : PruneAndPromote(open, w, v)

\* The room records and sets after the deadline pruning, with one more room
\* opened, or one ended.
PruneRooms ==
  /\ active' = active \ DueRooms
  /\ expirations' = expirations \ DueRooms
  /\ room' = [r \in Rooms |-> IF r \in DueRooms THEN "ended" ELSE room[r]]

PruneRoomsAndOpen(r) ==
  /\ active' = (active \ DueRooms) \cup {r}
  /\ expirations' = (expirations \ DueRooms) \cup {r}
  /\ room' = [x \in Rooms |-> IF x = r THEN "active"
                               ELSE IF x \in DueRooms THEN "ended" ELSE room[x]]

PruneRoomsAndEnd(r) ==
  /\ active' = active \ (DueRooms \cup {r})
  /\ expirations' = expirations \ (DueRooms \cup {r})
  /\ room' = [x \in Rooms |-> IF x \in DueRooms \cup {r} THEN "ended" ELSE room[x]]

-----------------------------------------------------------------------------
(* Queue handlers. *)

\* Service.Join reads the clock, whose milliseconds will be its score.  Sessions that read
\* the same millisecond are in the order of their ids, which is any.
Join(s) ==
  /\ FreshSession(s)
  /\ joining' = joining \cup {s} /\ instant' = instant \cup {s}
  /\ \E after \in SUBSET instant :
       /\ \A t \in after : instant \ after \subseteq ahead[t]
       /\ ahead' = [t \in Sessions |-> IF t = s THEN Placed \ after
                                        ELSE IF t \in after THEN ahead[t] \cup {s} ELSE ahead[t]]
  /\ UNCHANGED <<roomVars, roomDue, status, granted, stale, queue, reservationVars, call>>

\* Its pipeline writes the hash and enters the queue by that score, whoever came in between.
Enqueue(s) ==
  /\ s \in joining
  /\ joining' = joining \ {s} /\ queue' = queue \cup {s}
  /\ status' = [status EXCEPT ![s] = "waiting"]
  /\ UNCHANGED <<roomVars, roomDue, granted, stale, ahead, instant, reservationVars, call>>

JoinFails(s) ==
  /\ s \in joining
  /\ joining' = joining \ {s} /\ Forget({s})
  /\ UNCHANGED <<roomVars, roomDue, status, granted, stale, queue, reservationVars, call>>

ClockTicks ==
  /\ instant # {}
  /\ instant' = {}
  /\ UNCHANGED <<roomVars, roomDue, status, granted, stale, queue, joining, ahead>>
  /\ UNCHANGED <<reservationVars, call>>

\* Slip: a hash without a token passes.
ReadAnyStatus(q, s, op) ==
  /\ call[q] = Idle
  /\ call' = [call EXCEPT ![q] = [pc |-> "check", op |-> op, session |-> s,
                                 status |-> status[s], reservation |-> granted[s]]]
  /\ UNCHANGED <<roomVars, roomDue, sessionVars, reservationVars>>

\* Service.Status, first read (HGETALL).  A missing hash, or one without a token,
\* is answered at once; an old heartbeat starts the removal.
ReadStatus(q, s, op) ==
  /\ call[q] = Idle
  /\ status[s] \in {"waiting", "reserved"}
  /\ call' = [call EXCEPT ![q] =
       IF s \in stale
       THEN [pc |-> "remove", session |-> s, reservation |-> granted[s]]
       ELSE [pc |-> "check", op |-> op, session |-> s,
             status |-> status[s], reservation |-> granted[s]]]
  /\ UNCHANGED <<roomVars, roomDue, sessionVars, reservationVars>>

\* Its second read: ZRANK of a waiting session, PTTL of a reservation key.  A PTTL that
\* fails is taken for a key that is gone; a ZRANK that fails is one way to Abandon.
CheckStatus(q) ==
  /\ call[q].pc = "check"
  /\ LET c == call[q]
         remove == [pc |-> "remove", session |-> c.session, reservation |-> c.reservation]
         found == CASE c.op = "status" -> Idle
                    [] c.op = "heartbeat" -> [pc |-> "beat", session |-> c.session]
                    [] c.op = "leave" -> [remove EXCEPT !.pc = "leave"]
     IN  \/ /\ c.status = "waiting"
            /\ call' = [call EXCEPT ![q] = IF c.session \in queue THEN found ELSE Idle]
         \/ /\ c.status = "reserved" /\ resKey[c.reservation] # None
            /\ call' = [call EXCEPT ![q] = found]
         \/ /\ c.status = "reserved"
            /\ call' = [call EXCEPT ![q] = remove]
  /\ UNCHANGED <<roomVars, roomDue, sessionVars, reservationVars>>

\* Slip: a heartbeat does not promote.
BeatOnly(q) ==
  /\ call[q].pc = "beat"
  /\ LET s == call[q].session
     IN  /\ status' = [status EXCEPT ![s] = IF @ = "none" THEN "ghost" ELSE @]
         /\ stale' = stale \ {s}
  /\ call' = [call EXCEPT ![q] = Idle]
  /\ UNCHANGED <<roomVars, roomDue, granted, lineVars, reservationVars>>

\* Service.Heartbeat's HSET creates the hash again if it is gone by now.
Beat(q) ==
  /\ call[q].pc = "beat"
  /\ LET s == call[q].session
     IN  /\ status' = [status EXCEPT ![s] = IF @ = "none" THEN "ghost" ELSE @]
         /\ stale' = stale \ {s}
  /\ call' = [call EXCEPT ![q] = [pc |-> "promote"]]
  /\ UNCHANGED <<roomVars, roomDue, granted, lineVars, reservationVars>>

\* Slip: the hash stays.
RemoveFromQueueOnly(q) ==
  /\ call[q].pc \in {"remove", "leave"}
  /\ Dequeue({call[q].session})
  /\ DropReservations({call[q].reservation})
  /\ call' = [call EXCEPT ![q] = [pc |-> "promote"]]
  /\ UNCHANGED <<roomVars, roomDue, status, granted, stale>>

\* removeSession, for Status or Leave, takes the reservation id that was read, if one was.
RemoveSession(q) ==
  /\ call[q].pc \in {"remove", "leave"}
  /\ DropSessions({call[q].session})
  /\ Dequeue({call[q].session})
  /\ DropReservations({call[q].reservation})
  /\ call' = [call EXCEPT ![q] = [pc |-> "promote"]]
  /\ UNCHANGED <<roomVars, roomDue>>

\* Status goes on to promote after an error, Leave does not (Abandon).
RemoveFails(q) ==
  /\ call[q].pc = "remove"
  /\ call' = [call EXCEPT ![q] = [pc |-> "promote"]]
  /\ UNCHANGED <<roomVars, roomDue, sessionVars, reservationVars>>

PromoteNext(q) ==
  /\ call[q].pc = "promote"
  /\ PruneRooms
  /\ Promotion(active \ DueRooms)
  /\ call' = [call EXCEPT ![q] = Idle]
  /\ UNCHANGED roomDue

-----------------------------------------------------------------------------
(* Room handlers. *)

\* Slip: the queue is not looked at.
CreateUnpromoted(r) ==
  /\ room[r] = "absent"
  /\ PruneSessions({})
  /\ PruneReservations({})
  /\ IF SlotFree(active \ DueRooms) THEN PruneRoomsAndOpen(r) ELSE PruneRooms
  /\ UNCHANGED <<roomDue, call>>

\* createRoomScript promotes one waiting session before it looks for a slot.
CreateRoom(r) ==
  /\ room[r] = "absent"
  /\ Promotion(active \ DueRooms)
  /\ IF Cardinality(active \ DueRooms) + Cardinality(reservations') < Capacity
     THEN PruneRoomsAndOpen(r)
     ELSE PruneRooms
  /\ UNCHANGED <<roomDue, call>>

\* Slip: the hash alone is believed, not the reservation's own keys.
ClaimableByHash(s) ==
  /\ s \notin Evicted /\ status[s] = "reserved"
  /\ Cardinality(active \ DueRooms) + Cardinality(LiveReservations) <= Capacity

Claimable(s) ==
  /\ s \notin Evicted /\ status[s] = "reserved" /\ granted[s] # None
  /\ granted[s] \in LiveReservations /\ resKey[granted[s]] = s
  /\ Cardinality(active \ DueRooms) + Cardinality(LiveReservations) <= Capacity

\* claimRoomScript turns a live reservation into a room.
ClaimRoom(s, r) ==
  /\ room[r] = "absent"
  /\ Claimable(s)
  /\ PruneRoomsAndOpen(r)
  /\ PruneSessions({s})
  /\ PruneReservations({granted[s]})
  /\ UNCHANGED <<roomDue, call>>

\* A refused claim has still pruned; a wrong token is refused whatever the session holds.
RefuseClaim ==
  /\ PruneRooms
  /\ PruneSessions({})
  /\ PruneReservations({})
  /\ UNCHANGED <<roomDue, call>>

\* EndRoom, EndRoomIfActive and RoomState read an active record, then run the script.
ReadRoomToEnd(q, r) ==
  /\ call[q] = Idle
  /\ room[r] = "active"
  /\ call' = [call EXCEPT ![q] = [pc |-> "end", room |-> r]]
  /\ UNCHANGED <<roomVars, roomDue, sessionVars, reservationVars>>

EndRoom(q) ==
  /\ call[q].pc = "end"
  /\ PruneRoomsAndEnd(call[q].room)
  /\ Promotion(active \ (DueRooms \cup {call[q].room}))
  /\ call' = [call EXCEPT ![q] = Idle]
  /\ UNCHANGED roomDue

\* Slip: the deadline alone is looked at.
ReadAnyRoomToTransfer(q, r) ==
  /\ call[q] = Idle
  /\ room[r] # "absent" /\ r \notin roomDue
  /\ call' = [call EXCEPT ![q] = [pc |-> "update", room |-> r]]
  /\ UNCHANGED <<roomVars, roomDue, sessionVars, reservationVars>>

\* TransferStreamHost reads an active, unexpired record, and later writes it back.
ReadRoomToTransfer(q, r) ==
  /\ call[q] = Idle
  /\ room[r] = "active" /\ r \notin roomDue
  /\ call' = [call EXCEPT ![q] = [pc |-> "update", room |-> r]]
  /\ UNCHANGED <<roomVars, roomDue, sessionVars, reservationVars>>

\* Slip: the record is written without its entry among the expirations.
UpdateRecordOnly(q) ==
  /\ call[q].pc = "update"
  /\ room' = [room EXCEPT ![call[q].room] = "active"]
  /\ call' = [call EXCEPT ![q] = Idle]
  /\ UNCHANGED <<active, expirations, roomDue, sessionVars, reservationVars>>

UpdateRoom(q) ==
  /\ call[q].pc = "update"
  /\ room' = [room EXCEPT ![call[q].room] = "active"]
  /\ expirations' = expirations \cup {call[q].room}
  /\ call' = [call EXCEPT ![q] = Idle]
  /\ UNCHANGED <<active, roomDue, sessionVars, reservationVars>>

\* The request's context is cancelled, a command fails or the server stops: what
\* the handler had still to do is not done.
Abandon(q) ==
  /\ call[q] # Idle
  /\ call' = [call EXCEPT ![q] = Idle]
  /\ UNCHANGED <<roomVars, roomDue, sessionVars, reservationVars>>

-----------------------------------------------------------------------------
(* Deadlines, and the keys Redis expires. *)

RoomDeadline(r) ==
  /\ room[r] # "absent" /\ r \notin roomDue
  /\ roomDue' = roomDue \cup {r}
  /\ UNCHANGED <<roomVars, sessionVars, reservationVars, call>>

HeartbeatDeadline(s) ==
  /\ status[s] # "none" /\ s \notin stale
  /\ stale' = stale \cup {s}
  /\ UNCHANGED <<roomVars, roomDue, status, granted, lineVars, reservationVars, call>>

ReservationDeadline(v) ==
  /\ v \in reservations \ resDue
  /\ resDue' = resDue \cup {v}
  /\ UNCHANGED <<roomVars, roomDue, sessionVars, reservations, resKey, call>>

ExpireSessionKey(s) ==
  /\ status[s] # "none"
  /\ DropSessions({s})
  /\ UNCHANGED <<roomVars, roomDue, lineVars, reservationVars, call>>

ExpireReservationKey(v) ==
  /\ resKey[v] # None
  /\ resKey' = [resKey EXCEPT ![v] = None]
  /\ UNCHANGED <<roomVars, roomDue, sessionVars, reservations, resDue, call>>

-----------------------------------------------------------------------------
Progress(q) ==
  CheckStatus(q) \/ Beat(q) \/ RemoveSession(q) \/ PromoteNext(q) \/ EndRoom(q) \/ UpdateRoom(q)

QueueStep(s) ==
  \/ Join(s) \/ Enqueue(s) \/ JoinFails(s)
  \/ \E q \in Requests, op \in {"status", "heartbeat", "leave"} : ReadStatus(q, s, op)
  \/ \E r \in Rooms : ClaimRoom(s, r)

RoomStep(r) ==
  \/ CreateRoom(r)
  \/ \E q \in Requests : ReadRoomToEnd(q, r) \/ ReadRoomToTransfer(q, r)

Deadline ==
  \/ \E r \in Rooms : RoomDeadline(r)
  \/ \E s \in Sessions : HeartbeatDeadline(s) \/ ExpireSessionKey(s)
  \/ \E v \in Reservations : ReservationDeadline(v) \/ ExpireReservationKey(v)

Next ==
  \/ \E s \in Sessions : QueueStep(s)
  \/ \E r \in Rooms : RoomStep(r)
  \/ \E q \in Requests : Progress(q) \/ RemoveFails(q) \/ Abandon(q)
  \/ RefuseClaim \/ ClockTicks \/ Deadline

Spec == Init /\ [][Next]_vars

(***************************************************************************)
(* Fairness.  A handler that is not abandoned takes its next step, of those *)
(* that promote some get through although others are abandoned, the clock   *)
(* and the deadlines pass, and Redis expires the hash of a silent session.  *)
(* A client that waits polls: it goes on sending heartbeats, of which one   *)
(* now and then gets as far as the promotion.                               *)
(***************************************************************************)
HeartbeatRead(s) == \E q \in Requests : ReadStatus(q, s, "heartbeat")
HeartbeatChecked(s) ==
  \E q \in Requests :
    call[q].pc = "check" /\ call[q].op = "heartbeat" /\ call[q].session = s /\ CheckStatus(q)
HeartbeatWritten(s) ==
  \E q \in Requests : call[q].pc = "beat" /\ call[q].session = s /\ Beat(q)

ClientPolls(s) ==
  SF_vars(HeartbeatRead(s)) /\ SF_vars(HeartbeatChecked(s)) /\ SF_vars(HeartbeatWritten(s))

Fairness ==
  /\ \A q \in Requests : WF_vars(Progress(q)) /\ SF_vars(PromoteNext(q))
  /\ \A s \in Sessions : WF_vars(s \in stale /\ ExpireSessionKey(s))
  /\ WF_vars(ClockTicks) /\ \A r \in Rooms : WF_vars(RoomDeadline(r))
  /\ \A v \in Reservations : WF_vars(ReservationDeadline(v))

FairSpec == Spec /\ Fairness

-----------------------------------------------------------------------------
(* Properties. *)

\* Active rooms and outstanding reservations together never exceed the slots,
\* although four scripts and a pipeline hand slots out and take them back.
CapacityBound == Cardinality(active) + Cardinality(reservations) <= Capacity

\* A room that counts against capacity, and every record that reads "active", even
\* one that a late transfer wrote back, has an entry among the expirations: the
\* deadline pruning of some later script ends it.
EveryOpenRoomExpires ==
  /\ active \subseteq expirations
  /\ expirations = {r \in Rooms : room[r] = "active"}

\* The hash, the reservation key, the two sorted sets and what handlers read earlier
\* are written by different commands and expire separately, yet never contradict each
\* other.  A key belongs to an outstanding reservation and to one session, which is
\* not queued any more; a reserved session is not queued either (the next promotion
\* would delete it); and the reservation a hash or a handler names is not a third
\* party's.
ReservationsConsistent ==
  /\ \A v \in Reservations : resKey[v] # None => v \in reservations /\ resKey[v] \notin queue
  /\ \A u, v \in Reservations : resKey[u] = resKey[v] /\ resKey[u] # None => u = v
  /\ \A s \in Sessions : status[s] = "reserved" => s \notin queue /\ granted[s] # None
  /\ \A s \in Sessions : granted[s] # None => resKey[granted[s]] \in {s, None}
  /\ \A q \in Requests : call[q].pc \in {"check", "remove", "leave"} /\ call[q].reservation # None =>
       resKey[call[q].reservation] \in {call[q].session, None}

\* The holder's own doing, or a deadline of its own.
OwnStep(s, v) ==
  \/ \E r \in Rooms : ClaimRoom(s, r)
  \/ \E q \in Requests : RemoveSession(q) /\ call[q].session = s
  \/ HeartbeatDeadline(s) \/ ExpireSessionKey(s)
  \/ ReservationDeadline(v) \/ ExpireReservationKey(v)

\* A reservation that can still be claimed stays so under every step of everyone
\* else: other sessions' removals with ids read long ago, prunings, promotions, room
\* ends, refused claims.
ReservationsKept ==
  [][\A v \in LiveReservations : v \in LiveReservations' \/ OwnStep(resKey[v], v)]_vars

\* Whoever is granted a slot leaves no queued session behind that asked earlier, unless that
\* one had stopped sending heartbeats.  A queued session's position may grow, but only by
\* joins that read the clock before it or in its millisecond and whose pipelines came later:
\* whoever asks in a later one, however fast, never gets ahead of it.
FirstComeFirstServed ==
  [][\A s \in Sessions :
       /\ status[s] = "waiting" /\ status'[s] = "reserved" =>
            \A x \in ahead[s] \cap queue : x \in stale \/ status[x] # "waiting"
       /\ s \in queue \cap queue' =>
            /\ ahead'[s] \cap queue' \subseteq ahead[s]
            /\ s \in instant \/ ahead'[s] \subseteq ahead[s]]_vars

\* A session whose client polls is in the end granted a slot or leaves, whatever the other
\* clients do: rooms end by their deadline, reservations nobody claims lapse, entries ahead
\* are popped, and its own heartbeats run the promotion that notices.
WaitersServed ==
  \A s \in Sessions :
    ClientPolls(s) =>
      ((s \in queue /\ status[s] = "waiting") ~> ~(s \in queue /\ status[s] = "waiting"))

\* proj_docs/VISION.md:337 "Expired codes must never reactivate."  A room whose record
\* reads ended never reads active again.
EndedRoomsStayEnded ==
  [][\A r \in Rooms : room[r] = "ended" => room'[r] = "ended"]_vars

\* A newcomer who creates a room past waiting sessions has at least let the first of
\* them that is alive have a slot before, in the same step.
NewcomersAfterHead ==
  [][\A r \in Rooms : CreateRoom(r) /\ r \in active' /\ Live # {} =>
       \E s \in Live : ahead[s] \cap Live = {} /\ status'[s] = "reserved"]_vars

\* No slot stays idle: a script that looks at the queue leaves no live waiter behind a free
\* slot, unless it has just granted another one theirs (it promotes one).
NoIdleSlots ==
  [][(\E q \in Requests : PromoteNext(q) \/ EndRoom(q)) \/ (\E r \in Rooms : CreateRoom(r)) =>
       \/ Live' = {}
       \/ Cardinality(active') + Cardinality(reservations') >= Capacity
       \/ \E s \in Live : status'[s] = "reserved"]_vars

LateTransfer(r) == \E q \in Requests : call[q] = [pc |-> "update", room |-> r]

\* What is left of EndedRoomsStayEnded: only a transfer that had read the record before the
\* room ended writes it back, and nobody starts one afterwards.  Without one under way an
\* ended room is ended for good.
OnlyLateTransfersRevive ==
  [][\A r \in Rooms : room[r] = "ended" /\ ~LateTransfer(r) =>
       room'[r] = "ended" /\ ~LateTransfer(r)']_vars

\* The queue is a line, with those about to enter it: of two exactly one is ahead of the other,
\* consistently so; whoever left is ahead of nobody; and no session that reads "waiting" is
\* lost from it, whichever of the scripts and pipelines took its neighbours out.
QueueOrdered ==
  /\ \A s \in Sessions : status[s] = "waiting" => s \in queue
  /\ \A s \in Sessions : ahead[s] \subseteq Placed \ {s} /\ (s \notin Placed => ahead[s] = {})
  /\ \A s, t \in Placed : s # t => (s \in ahead[t] <=> t \notin ahead[s])
  /\ \A t \in Placed : \A s \in ahead[t] : ahead[s] \subseteq ahead[t]

\* What the queue promises to those who wait.
Line == INSTANCE WaitingLine WITH
  line <- queue, coming <- joining, before <- ahead, recent <- instant,
  alive <- {s \in queue : status[s] = "waiting" /\ s \notin stale},
  served <- {s \in Sessions : status[s] = "reserved"}
LineSpec == Line!Spec

\* What the slots promise, whoever asks for them.
Slots == INSTANCE SlotPool WITH
  open <- active, opened <- {r \in Rooms : room[r] # "absent"}, granted <- reservations
SlotsSpec == Slots!Spec
=============================================================================
