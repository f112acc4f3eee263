-------------------------------- MODULE Hub --------------------------------
(***************************************************************************)
(* The realtime hub of one room (realtime/hub.go) and the WebSocket handler *)
(* that drives it (handlers/realtime.go): the sorted set of presence seats  *)
(* in Redis, the clients registered under the hub's mutex, and the timer    *)
(* that ends a room left empty and deletes its LiveKit room (main.go).      *)
(*                                                                          *)
(* A Redis script is one action, and so is whatever runs under one hold of  *)
(* the mutex; Broadcast shows why that may be.  Rooms share nothing in the  *)
(* hub but the mutex, so one room is enough.  Whether a broadcast finds a   *)
(* client's buffer full, or notices that it is closed already, is a choice: *)
(* Send selects among ready cases.                                          *)
(* Operators marked "Slip" are not used by the specification: each is its   *)
(* successor with one plausible mistake, which some property must notice.   *)
(***************************************************************************)
EXTENDS Naturals, FiniteSets

CONSTANTS
  Clients,  \* connections under way at once; one that is over may be used anew
  Timers,   \* empty-room timers that may exist at once; one that is off may be used anew
  Max,      \* maxRoomSessions, 8
  None      \* no entry in emptyTimers

ASSUME MaxAssumption == Max \in Nat
ASSUME ClientsAssumption == IsFiniteSet(Clients)
ASSUME NoTimerAssumption == None \notin Timers

VARIABLES
  conn,      \* how far each connection has come
  serving,   \* connections whose handler is in its read loop
  presence,  \* members of ZSET ruse:realtime:presence:<room>
  lapsed,    \* those of them whose score has passed
  timer,     \* "fired" waits for the mutex, "calling" has found nobody there, "ending" has
             \* read the record active, "deleting" has read it ended or has ended it
  entry,     \* emptyTimers[room]
  room,      \* State of the room's record; "revived" is active once more
  transferring, \* some transfer of the stream host has read the record while it was
             \* active, and not written it back
  closing,   \* the owner's handler has ended the room and not yet deleted LiveKit's
  media,     \* LiveKit has a room of this id
  watched    \* the hub has had clients, and neither restarted, nor failed to clean up,
             \* nor cleaned up after they left

hubVars == <<conn, serving, timer, entry>>
seatVars == <<presence, lapsed>>
roomVars == <<room, transferring, closing, media>>
vars == <<hubVars, seatVars, roomVars, watched>>

\* "gone" has given its seat back, "leaked" could not or does not know it has one.
Stages == {"away", "upgrading", "admitted", "in", "closed", "removed", "gone", "leaked"}

Registered == {c \in Clients : conn[c] \in {"in", "closed"}}

TypeOK ==
  /\ conn \in [Clients -> Stages]
  /\ serving \subseteq Clients
  /\ presence \subseteq Clients /\ lapsed \subseteq presence
  /\ timer \in [Timers -> {"off", "armed", "fired", "calling", "ending", "deleting"}]
  /\ entry \in Timers \cup {None}
  /\ room \in {"active", "ended", "revived"} /\ transferring \in BOOLEAN
  /\ closing \in BOOLEAN /\ media \in BOOLEAN /\ watched \in BOOLEAN

Init ==
  /\ conn = [c \in Clients |-> "away"] /\ serving = {}
  /\ presence = {} /\ lapsed = {}
  /\ timer = [t \in Timers |-> "off"] /\ entry = None
  /\ room = "active" /\ transferring = FALSE /\ closing = FALSE /\ media = FALSE
  /\ watched = FALSE

-----------------------------------------------------------------------------
(* Connecting. *)

\* The handler authorizes against the room's record, then upgrades the connection.
\* The session id it will take is new.
Authorize(c) ==
  /\ conn[c] \in {"away", "gone", "leaked"} /\ c \notin serving /\ c \notin presence
  /\ room # "ended"
  /\ conn' = [conn EXCEPT ![c] = "upgrading"]
  /\ UNCHANGED <<serving, timer, entry, seatVars, roomVars, watched>>

\* joinScript prunes the lapsed seats, and takes one if it is free.
Seated == presence \ lapsed

\* Slip: a ninth is let in.
OneSeatMore == Cardinality(Seated) <= Max

SeatFree == Cardinality(Seated) < Max

Admit(c) ==
  /\ conn[c] = "upgrading"
  /\ presence' = IF SeatFree THEN Seated \cup {c} ELSE Seated
  /\ lapsed' = {}
  /\ conn' = [conn EXCEPT ![c] = IF SeatFree THEN "admitted" ELSE "away"]
  /\ UNCHANGED <<serving, timer, entry, roomVars, watched>>

\* The script may run, and its reply get lost: Join gives up, the seat stays taken.
AdmitLost(c) ==
  /\ conn[c] = "upgrading"
  /\ presence' = IF SeatFree THEN Seated \cup {c} ELSE Seated
  /\ lapsed' = {}
  /\ conn' = [conn EXCEPT ![c] = "leaked"]
  /\ UNCHANGED <<serving, timer, entry, roomVars, watched>>

-----------------------------------------------------------------------------
(* Under the mutex. *)

\* scheduleEmptyRoomLocked overwrites the entry and stops no timer.
Schedule ==
  \E t \in Timers :
    /\ timer[t] = "off"
    /\ timer' = [timer EXCEPT ![t] = "armed"]
    /\ entry' = t

\* Slip: clients a broadcast evicts leave no timer behind.
RemoveOnly(gone) ==
  /\ conn' = [c \in Clients |-> IF c \in gone THEN "removed" ELSE conn[c]]
  /\ IF Cardinality(gone) = 1 /\ Registered = gone THEN Schedule ELSE UNCHANGED <<timer, entry>>

\* removeLocked and what it evicts on its way: whoever is last has the room scheduled.
RemoveLocked(gone) ==
  /\ conn' = [c \in Clients |-> IF c \in gone THEN "removed" ELSE conn[c]]
  /\ IF gone # {} /\ Registered \ gone = {} THEN Schedule ELSE UNCHANGED <<timer, entry>>

\* Slip: the timer is stopped but its entry stays.
RegisterKeepingEntry(c) ==
  /\ conn[c] = "admitted"
  /\ \E evicted \in SUBSET Registered :
       conn' = [d \in Clients |-> IF d = c THEN "in"
                                   ELSE IF d \in evicted THEN "removed" ELSE conn[d]]
  /\ serving' = serving \cup {c}
  /\ timer' = [t \in Timers |-> IF t = entry /\ timer[t] = "armed" THEN "off" ELSE timer[t]]
  /\ watched' = TRUE
  /\ UNCHANGED <<entry, seatVars, roomVars>>

\* The rest of Join.  Stop has no effect on a timer that has fired.  The broadcasts
\* cannot evict the newcomer, whose buffer holds all they send.
Register(c) ==
  /\ conn[c] = "admitted"
  /\ \E evicted \in SUBSET Registered :
       conn' = [d \in Clients |-> IF d = c THEN "in"
                                   ELSE IF d \in evicted THEN "removed" ELSE conn[d]]
  /\ serving' = serving \cup {c}
  /\ timer' = [t \in Timers |-> IF t = entry /\ timer[t] = "armed" THEN "off" ELSE timer[t]]
  /\ entry' = None
  /\ watched' = TRUE
  /\ UNCHANGED <<seatVars, roomVars>>

\* An API handler publishes an event.
Publish ==
  /\ \E evicted \in SUBSET Registered : evicted # {} /\ RemoveLocked(evicted)
  /\ UNCHANGED <<serving, seatVars, roomVars, watched>>

\* The watch goroutine's timer: no heartbeat came through for 45 s.
WatchExpires(c) ==
  /\ c \in Registered
  /\ \E evicted \in SUBSET (Registered \ {c}) : RemoveLocked(evicted \cup {c})
  /\ UNCHANGED <<serving, seatVars, roomVars, watched>>

\* The read loop ends, and the handler's deferred Leave removes the client if nobody
\* else has.
Leave(c) ==
  /\ c \in serving
  /\ serving' = serving \ {c}
  /\ IF c \in Registered
     THEN \E evicted \in SUBSET (Registered \ {c}) : RemoveLocked(evicted \cup {c})
     ELSE UNCHANGED <<conn, timer, entry>>
  /\ UNCHANGED <<seatVars, roomVars, watched>>

-----------------------------------------------------------------------------
(* Outside the mutex. *)

\* A write fails, an event is unknown, the room's state cannot be read, or a heartbeat
\* fails in Redis: the client is closed, and stays registered.
Close(c) ==
  /\ conn[c] = "in"
  /\ conn' = [conn EXCEPT ![c] = "closed"]
  /\ UNCHANGED <<serving, timer, entry, seatVars, roomVars, watched>>

\* Slip: the score is set whether or not the seat is still there.
HeartbeatAnyway(c) ==
  /\ c \in serving
  /\ presence' = presence \cup {c} /\ lapsed' = lapsed \ {c}
  /\ UNCHANGED <<hubVars, roomVars, watched>>

\* The handler may still be reading when the watch has removed its client.
Heartbeat(c) ==
  /\ c \in serving
  /\ lapsed' = lapsed \ {c}
  /\ conn' = IF c \notin presence /\ conn[c] = "in" THEN [conn EXCEPT ![c] = "closed"] ELSE conn
  /\ UNCHANGED <<serving, timer, entry, presence, roomVars, watched>>

\* Slip: the seat is given back, its deadline is kept.
CleanupKeepingDeadline(c) ==
  /\ conn[c] = "removed"
  /\ conn' = [conn EXCEPT ![c] = "gone"]
  /\ presence' = presence \ {c}
  /\ UNCHANGED <<serving, timer, entry, lapsed, roomVars, watched>>

\* Whoever removed a client then gives its seat back; an error is ignored.
Cleanup(c) ==
  /\ conn[c] = "removed"
  /\ conn' = [conn EXCEPT ![c] = "gone"]
  /\ presence' = presence \ {c} /\ lapsed' = lapsed \ {c}
  /\ UNCHANGED <<serving, timer, entry, roomVars, watched>>

CleanupFails(c) ==
  /\ conn[c] = "removed"
  /\ conn' = [conn EXCEPT ![c] = "leaked"]
  /\ UNCHANGED <<serving, timer, entry, seatVars, roomVars, watched>>

SeatLapses(c) ==
  /\ c \in presence \ lapsed
  /\ lapsed' = lapsed \cup {c}
  /\ UNCHANGED <<hubVars, presence, roomVars, watched>>

\* The whole key expires 45 s after its last join or heartbeat.
PresenceKeyExpires ==
  /\ presence # {} /\ presence = lapsed
  /\ presence' = {} /\ lapsed' = {}
  /\ UNCHANGED <<hubVars, roomVars, watched>>

-----------------------------------------------------------------------------
(* The empty-room timer. *)

TimerFires(t) ==
  /\ timer[t] = "armed"
  /\ timer' = [timer EXCEPT ![t] = "fired"]
  /\ UNCHANGED <<conn, serving, entry, seatVars, roomVars, watched>>

\* Slip: the callback minds whether it is still the room's entry.
EntryChecks(t) ==
  /\ timer[t] = "fired"
  /\ entry' = None
  /\ timer' = [timer EXCEPT ![t] = IF Registered = {} /\ entry = t THEN "calling" ELSE "off"]
  /\ UNCHANGED <<conn, serving, seatVars, roomVars, watched>>

\* The callback gets the mutex, deletes the room's entry, whichever timer's it is, and
\* unlocks before it calls onEmpty.
TimerChecks(t) ==
  /\ timer[t] = "fired"
  /\ entry' = None
  /\ timer' = [timer EXCEPT ![t] = IF Registered = {} THEN "calling" ELSE "off"]
  /\ UNCHANGED <<conn, serving, seatVars, roomVars, watched>>

\* Slip: a room that was ended already is left alone.
LeaveEnded(t) ==
  /\ timer[t] = "calling"
  /\ timer' = [timer EXCEPT ![t] = IF room = "ended" THEN "off" ELSE "ending"]
  /\ UNCHANGED <<conn, serving, entry, seatVars, roomVars, watched>>

\* onEmpty: EndRoomIfActive reads the record, and does not ask the hub again.
ReadRoom(t) ==
  /\ timer[t] = "calling"
  /\ timer' = [timer EXCEPT ![t] = IF room = "ended" THEN "deleting" ELSE "ending"]
  /\ UNCHANGED <<conn, serving, entry, seatVars, roomVars, watched>>

\* It writes the record it read, ended, whatever the record is by now.
EndRoom(t) ==
  /\ timer[t] = "ending"
  /\ timer' = [timer EXCEPT ![t] = "deleting"]
  /\ room' = "ended"
  /\ UNCHANGED <<conn, serving, entry, seatVars, transferring, closing, media, watched>>

\* LiveKit's room is deleted whoever ended the record, and may be absent.
DeleteRoom(t) ==
  /\ timer[t] = "deleting"
  /\ timer' = [timer EXCEPT ![t] = "off"]
  /\ media' = FALSE
  /\ watched' = (watched /\ Registered # {})
  /\ UNCHANGED <<conn, serving, entry, seatVars, room, transferring, closing>>

\* An error of any of the calls is logged, and nobody tries again.
CallbackFails(t) ==
  /\ timer[t] \in {"calling", "ending", "deleting"}
  /\ timer' = [timer EXCEPT ![t] = "off"]
  /\ watched' = FALSE
  /\ UNCHANGED <<conn, serving, entry, seatVars, roomVars>>

-----------------------------------------------------------------------------
(* The room, elsewhere. *)

\* A script or a reading after the deadline ends the record, and nothing else.
DeadlineEnds ==
  /\ room # "ended"
  /\ room' = "ended"
  /\ UNCHANGED <<hubVars, seatVars, transferring, closing, media, watched>>

\* A transfer of the stream host reads the record.
ReadRoomToTransfer ==
  /\ room # "ended"
  /\ transferring' = TRUE
  /\ UNCHANGED <<hubVars, seatVars, room, closing, media, watched>>

\* One that was under way writes back the whole record it read; others may remain.
UpdateRoom ==
  /\ transferring
  /\ room' = IF room = "ended" THEN "revived" ELSE room
  /\ transferring' \in BOOLEAN
  /\ UNCHANGED <<hubVars, seatVars, closing, media, watched>>

\* No such participant, or an error: none is left under way.
AbandonTransfers ==
  /\ transferring
  /\ transferring' = FALSE
  /\ UNCHANGED <<hubVars, seatVars, room, closing, media, watched>>

\* The owner ends the room, maybe again; clients stay connected.
OwnerEnds ==
  /\ ~closing
  /\ room' = "ended" /\ closing' = TRUE
  /\ UNCHANGED <<hubVars, seatVars, transferring, media, watched>>

\* The handler goes on to delete LiveKit's room; an error is logged only.
OwnerDeletes ==
  /\ closing
  /\ closing' = FALSE
  /\ media' \in {FALSE, media}
  /\ UNCHANGED <<hubVars, seatVars, room, transferring, watched>>

\* A participant's token lets LiveKit open the room, also one that was deleted, and
\* LiveKit closes what is empty.
MediaChanges ==
  /\ media' = ~media
  /\ UNCHANGED <<hubVars, seatVars, room, transferring, closing, watched>>

\* The server is restarted: what is in memory is lost, the seats are not.
Restart ==
  /\ conn' = [c \in Clients |-> IF c \in presence THEN "leaked" ELSE "away"]
  /\ serving' = {}
  /\ timer' = [t \in Timers |-> "off"] /\ entry' = None
  /\ transferring' = FALSE /\ closing' = FALSE /\ watched' = FALSE
  /\ UNCHANGED <<seatVars, room, media>>

-----------------------------------------------------------------------------
Connect(c) == Authorize(c) \/ Admit(c) \/ AdmitLost(c) \/ Register(c)
Disconnect(c) == WatchExpires(c) \/ Leave(c) \/ Close(c)
Seat(c) == Heartbeat(c) \/ Cleanup(c) \/ CleanupFails(c) \/ SeatLapses(c)
OnEmpty(t) == ReadRoom(t) \/ EndRoom(t) \/ DeleteRoom(t) \/ CallbackFails(t)
Timer(t) == TimerFires(t) \/ TimerChecks(t) \/ OnEmpty(t)
Transfer == ReadRoomToTransfer \/ UpdateRoom \/ AbandonTransfers

Next ==
  \/ \E c \in Clients : Connect(c) \/ Disconnect(c) \/ Seat(c)
  \/ \E t \in Timers : Timer(t)
  \/ Publish \/ PresenceKeyExpires \/ Restart
  \/ DeadlineEnds \/ Transfer \/ OwnerEnds \/ OwnerDeletes \/ MediaChanges

Spec == Init /\ [][Next]_vars

\* Timers run, and a closed client's connection is closed by its writer, or runs into
\* its read deadline; then its handler leaves.  Calls to Redis and LiveKit return.
Fairness ==
  /\ \A t \in Timers : WF_vars(Timer(t))
  /\ \A c \in Clients : WF_vars(conn[c] = "closed" /\ Leave(c))

FairSpec == Spec /\ Fairness

-----------------------------------------------------------------------------
(* Properties. *)

\* The seats taken in Redis never exceed the maximum, whatever became of the
\* connections that took them.
PresenceBound == Cardinality(presence) <= Max

\* A connection that was removed and cleaned up has no seat, although its handler may
\* still be answering heartbeats when the watch or a broadcast removes it.
SeatReturned == \A c \in Clients : conn[c] = "gone" => c \notin presence

\* The hub's timer map never holds a timer that is over, or one of an occupied room,
\* although fired callbacks delete entries that are not theirs.
EntryCurrent ==
  entry # None => timer[entry] \in {"armed", "fired"} /\ Registered = {}

\* A room whose clients have all left has a timer, or a callback of one, still to come,
\* also if its record was ended by others: none of the ways to lose the last client, and
\* no join and leave that race with a callback, drops the room.
EmptyRoomWatched ==
  watched /\ Registered = {} => \E t \in Timers : timer[t] # "off"

\* Whither a timer of an empty room may go.
Later == {<<"armed", "fired">>, <<"fired", "calling">>, <<"calling", "ending">>,
          <<"calling", "deleting">>, <<"ending", "deleting">>}

\* What ends an empty room: while nobody is registered, no step of anybody sets a timer back or
\* calls one off, and the hub stops watching the room only if the room is gone from LiveKit and
\* ended, or brought back by a late transfer once it was ended, or the server restarts, or a
\* callback has failed.
EmptyRoomRunsOut ==
  [][watched /\ Registered = {} /\ Registered' = {} =>
       IF watched'
       THEN \A t \in Timers : timer'[t] = timer[t] \/ <<timer[t], timer'[t]>> \in Later
       ELSE \/ room' \in {"ended", "revived"} /\ ~media'
            \/ Restart
            \/ \E t \in Timers : CallbackFails(t)]_vars

Deserted == watched /\ \A c \in Clients : conn[c] # "in"

\* A room whose clients are all closed or gone is ended, joined again, or given up: by a restart,
\* an error, or a callback whose ending a late transfer undid before LiveKit's room was deleted.
EmptyRoomEnds == room # "ended" /\ Deserted ~> ~(room # "ended" /\ Deserted)

\* What LiveKit has of a deserted room is deleted, whoever ended the room and whichever
\* timers race, unless the room is joined again or given up.
MediaDeleted == media /\ Deserted ~> ~(media /\ Deserted)

\* A hold of the mutex changes who is registered, whose seats are to be given back and
\* the timer map as Membership says, which Broadcast implements.
Members == INSTANCE Membership WITH
  members <- Registered,
  leaving <- {c \in Clients : conn[c] = "removed"},
  alarm <- entry # None
MembersSpec == Members!Spec

\* README.md:14 "after they remain empty for a minute".  The empty-room callback does
\* not end a room that has clients.
OccupiedRoomNotEnded ==
  [][\A t \in Timers : EndRoom(t) /\ room # "ended" => Registered = {}]_vars

\* proj_docs/PRD.md:35 "Empty rooms should end after a 60-second grace period."  A room
\* that emptied once more is not ended by the timer of an earlier emptiness.
GraceRestarts ==
  [][\A t \in Timers : timer[t] = "fired" /\ timer'[t] = "calling" =>
       \A u \in Timers : timer[u] # "armed"]_vars
=============================================================================
