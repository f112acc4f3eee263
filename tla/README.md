# Ruse: a verification project

Ruse keeps at most three screen-sharing rooms open, lets creators queue for a slot, admits
guests by the owner's approval, tells participants about each other over WebSockets and
leaves media to LiveKit. All shared state is in Redis; the Go API server works on it with
single commands, `MULTI` pipelines and Lua scripts, from many request handlers at once.
This directory models that server in TLA+, checks the models with TLC on small instances,
and proves the central theorems with TLAPS for all instances. Paths below are relative to
`src/server/` unless they say otherwise.

## Inventory

| Part | State | Operations | What is hard |
|---|---|---|---|
| Room slots and records (`internal/rooms`) | `ruse:rooms:active`, `ruse:rooms:expirations`, `ruse:room:<id>`, code index | create, claim, end, end if active, state, transfer | four scripts count the same slots; a transfer reads, then writes back a whole record; deadlines are noticed only when some script runs |
| Queue of creators (`internal/queue`) | `ruse:queue`, `ruse:queue:<id>`, `ruse:reservations`, `ruse:reservation:<id>` | join, status, heartbeat, leave, promote | every operation is several round trips; keys expire one by one; ids read earlier are used later |
| Realtime hub (`internal/realtime`) | clients, buffers and empty-room timers in memory; presence seats in Redis | join, heartbeat, leave, watch, publish, timer callback | mutex, timers and Redis interleave; an eviction broadcasts from within the broadcast that caused it; what is in memory does not survive a restart |
| WebSocket handler (`internal/api/handlers/realtime.go`) | a reader and a writer per connection | authorize, join, read, close, leave | authorization before the upgrade, membership after; a client can be closed and still registered |
| Empty-room callback (`cmd/api/main.go`) | none | end if active, delete the LiveKit room | acts after the hub's mutex is released; failures are logged only; must clean up after ends that did not |
| Join requests, authorization (`internal/rooms/service.go`) | `ruse:join-request:<id>` with a TTL, a set per room | request, approve, reject, list, status, authorize | read-check-write without a script; the TTL outlives the decision |
| Media (`internal/media`, `handlers/media.go`) | tokens in clients' hands, rooms in LiveKit | issue a token, delete a room | grants outlive transfers; LiveKit may fail |
| Rate limiter (`internal/api/middleware.go`) | a counter per client and window | count | fixed windows; one expiry per window |
| Router, other middleware, configuration, health | none | | |
| In-memory store | maps under one mutex | as the Redis store | used by tests only |
| Frontend (`src/frontend`), deployment | browser state; static files | polls the HTTP API; uses neither the queue nor the WebSocket | |

The parts meet in Redis and in three calls: queue and rooms share the slots and their
scripts repeat each other's pruning and promotion, so one module models both; the hub's
timer ends rooms through the room service; the WebSocket handler asks the room service
before it joins the hub.

What makes each part correct: slots are never overfilled and every taken slot is freed in
the end; reservations stay with their holders; the queue is served in the order of its
joins' clocks and everyone who keeps waiting is served; ended rooms stay ended; seats are
bounded and given back, however evictions nest; nobody is left seeing a participant who is
gone; a deserted room is ended, with its LiveKit room, and an occupied one is not;
whatever the limiter counts is forgotten in time. `PROJECT.json` lists the hazards behind
these at their lines.

## Modules

| Module | What it is |
|---|---|
| `Capacity` | rooms and queue: `queue/service.go` and the room side of `rooms/redis_store.go`, `rooms/service.go` |
| `SlotPool` | abstract: slots opened, granted, redeemed, released |
| `WaitingLine` | abstract: a number is drawn, then the line entered; the lowest number alive in it is served |
| `MCCapacity` | symmetry for TLC |
| `CapacityProofs` | types, capacity bound, expiry and end of rooms, `Capacity` implements `SlotPool` |
| `QueueProofs` | consistency of reservations, what may take one away, order of grants, newcomers, no idle slot |
| `LineProofs` | the queue is a total order, promotion has one winner, `Capacity` implements `WaitingLine` |
| `Hub` | the hub, its presence seats and its empty-room timer, driven by WebSocket handlers |
| `MCHub` | symmetry for TLC |
| `HubProofs` | types, timer map, empty rooms watched and run out, seats, `Hub` implements `Membership` |
| `Membership` | abstract: what one hold of the hub's mutex does to clients, seats and alarm |
| `Broadcast` | one hold of the mutex, event by event: nested evictions, what clients are told |
| `MCBroadcast` | symmetry for TLC |
| `BroadcastProofs` | types, no ghosts, the recursion ends, `Broadcast` implements `Membership` |
| `Admission` | join requests and their decision, authorization, transfer of the stream host, media tokens |
| `MCAdmission` | symmetry for TLC |
| `AdmissionProofs` | types, only approved guests enter, only hosts may share, settled requests and closed rooms stay so |
| `RateLimiter` | the counter of one client and category, in ticks |
| `RateLimiterProofs` | types, twice the limit at most, refusals only with cause |

`Broadcast` implements `Membership` and `Hub` implements it too: the first is what lets
the second take a whole hold of the mutex for one step. In the modules that follow the
code, an operator marked *Slip* is its successor with one plausible mistake. No
specification uses them; they are there to show that the properties notice.

### Capacity

Each Redis command, script or pipeline is one action. Operations that take several keep
what they read in `call[q]`, a record per request handler whose `pc` names the next
command: `ReadStatus` (HGETALL), `CheckStatus` (ZRANK or PTTL, which may fail), then
nothing for a status request, `Beat` and `PromoteNext` for a heartbeat, `RemoveSession`
and `PromoteNext` for a leave or for a session found dead. `ReadRoomToEnd`/`EndRoom` are
the two halves of `EndRoom`, `EndRoomIfActive` and of `RoomState` past the deadline;
`ReadRoomToTransfer`/`UpdateRoom` those of `TransferStreamHost`. A status request that
finds its session dead goes on to promote though the removal fails (`RemoveFails`), a
leave does not. `CreateRoom` and a claim are one command that matters; `RefuseClaim` is a
claim that only prunes, for whatever reason, a wrong token for a claimable session
included. `Abandon` drops what a handler had still to do: its context is cancelled, Redis
fails, or the server stops.

`Service.Join` has two steps. It reads the clock, and its pipeline later enters the queue
with that millisecond as the score; in between, other joins may read and enter. `Join` is
the reading, `Enqueue` the pipeline, `JoinFails` a pipeline that does not run; `joining`
holds the sessions between the two. Equal scores are ordered by random ids: `instant`
holds the sessions that read the present millisecond, among which a new one takes any
place, and `ClockTicks` begins the next. So a queued session may see others enter ahead of
it, and the properties of the queue say which others these can be.

The scripts are translated in the order they work: `DueRooms` and the `PruneRooms...`
operators for the first loop; `StaleReservation`, `LiveReservations` and `Evicted` for the
second; `SlotFree`, `Winners`, `Popped` and `PruneAndPromote` for the promotion loop. The
loop pops in the order of the ZSET, which `ahead` keeps as the set of sessions with a
lower score, or an equal score and a lower id, for each one queued or joining (a relation,
so that removing sessions is a set difference); it deletes the hash of every session it
finds unfit and stops at the first fit one.

Time is abstract. `stale`, `roomDue` and `resDue` say that a heartbeat is 60 s old, that a
room's or a reservation's deadline has passed; each may become true between any two
commands, and Redis may expire a key before or after the server would see the deadline
itself. This is weaker than the clocks. What the model does assume of time: the clock that
joins read does not run backwards, there is one of it (one API server), and a script acts
at the time it was handed, although that was read a round trip before. Random ids are
fresh: an id is taken only if nothing refers to it, so a
small set of ids can stand for an unbounded supply. A heartbeat that finds the hash gone
creates one with a heartbeat and no token; status `"ghost"` stands for it.

Two abstract specifications look at this from two sides. `SlotPool` knows slots and rooms
and nobody who waits; `WaitingLine` knows those who wait or are about to, in the order of
the numbers they drew (the scores), which of them are alive (their hash says "waiting" and
the heartbeat is fresh) and who has been called, and no slots. A number is drawn in one
step (`Draw`) and the line entered in a later one (`Enter`); numbers of one instant are in
any order, those of a later instant are higher (`Tick`). It lets a script strike off dead
sessions at any time, a session go by requests of its own, and the line be served only at
the lowest number that has arrived and is alive.

### Hub

One room, since rooms share only the mutex. An action is one Redis script or one hold of
the mutex. A connection moves from `away` over `upgrading` (authorized), `admitted` (has a
seat), `in` (registered) to `closed` (its `done` channel is closed, still registered),
`removed` (out of the map, seat not yet given back) and `gone`; `leaked` is a connection
whose seat nobody will give back: the reply to its join was lost, the cleanup failed, or
the server restarted. `serving` holds the connections whose read loop still runs, which
may outlast the registration and still send heartbeats. A broadcast may evict any set of
other clients, because buffers fill and `Send` picks at random between a closed `done`
channel and a buffer with room; `RemoveLocked` removes a client with everything evicted on
the way and arms the timer when the last one goes. The newcomer of a join is not evicted
by it; `Broadcast` shows why.

A timer is `armed`, `fired` (its goroutine waits for the mutex), `calling` (it has found
the room empty and unlocked), `ending` (it has read the room's record as active, and has
still to write it as ended) or `deleting` (it has ended the record, or read it as ended,
and has LiveKit's room still to delete): `ReadRoom` and `EndRoom` are the two round trips
of `EndRoomIfActive`. `entry` is the room's element of `emptyTimers`. The record may also
be ended by a script that notices the deadline
(`DeadlineEnds`) and by the owner, whose handler then deletes LiveKit's room or fails to
(`OwnerEnds`, `OwnerDeletes`; `closing` is that handler's place between the two). `media`
says that LiveKit has a room of this id. LiveKit opens one for any participant with a
token and closes empty ones at its own pace; this is external, and `MediaChanges` lets it
happen at any time.

A transfer of the stream host that read the record while it was active writes it back as a
whole, also over an ended one: `room` then is `revived`, which is active again for
everybody who reads it. `transferring` says whether any such transfer is under way; as
there may be several, a write may or may not leave others behind. A revived room can be
joined, ended, and revived once more. The write may fall between the callback's end of the
record and its deletion of the LiveKit room; then the callback finishes over an active
room and nothing of the hub's is left to end it.

`watched` is a history variable: the hub has had clients in this room, and has since
neither restarted, nor failed in the callback, nor finished the callback with nobody
there. While it is true and nobody is registered, somebody must still come to clean up.
One API server is assumed, as deployed: the timers of two would not know of each other's
clients.

### Membership and Broadcast

`Membership` has three variables: who is registered, who has been removed and not yet
given its seat back, and whether the room has a timer. Clients enter or leave, any number
of them at once; the alarm is set when the last one goes; a newcomer stays.

`Broadcast` is the code under the mutex that brings this about. `broadcastLocked` and
`removeLocked` call each other; `stack` holds a frame for each broadcast that has begun:
its event, the clients the loop has not met, those it has removed (`gone`, the slice it
will return), and what `Join` or `removeLocked` does after it (`then`: announce the owner
as stream host, or a successor to an owner who left). `Evict` is a `Send` that fails, with
the whole of `removeLocked` up to its own first broadcast; `Deliver` one that succeeds;
`AnnounceHost` the second broadcast of a frame; `Return` appends what a nested call
removed to its caller's slice, and `Release` unlocks and hands all of it to `cleanup`. Go
ranges over the map in any order and does not meet what was deleted meanwhile, so the next
client is any of `Ahead`, and so is the host that `removeLocked` picks. Whether an old
client's buffer has room is a choice, since its writer drains it at any time; a newcomer
has no writer before `Join` returns, so its `inbox` is counted against `Buffer`.

Mutex, timers and Redis around this are `Hub`'s; here the watch or a leaving handler is
`Remove`, an event of an HTTP handler is `Publish`, and a stream-host transfer is
`Transfer`, which has written the record, and `Announce`, which publishes it later. `seen`
and `host` are what the events each client took say: who is there, who streams. They start
empty, as a client that joins is not told who is there already. `before` is a history
variable: what the mutex found when it was taken, which is what others see until it is
released. People have one identity each, shared by their tabs; the code derives it twice
in different forms (`realtime.go:70` names the role too, `rooms/service.go:453` does not),
so that the model's `HostAgrees` is kinder than a comparison of the strings would be.

### Admission

One room, as an owner in several tabs and its guests see it. No script guards any of this:
every Redis command is an action, and `call[q]` holds what a handler has read.
`Ask`/`CreateJoinRequest` are `createJoinRequest`: the room is found, then the request
written. `Decide` is where approve and reject find the request pending and unexpired;
`ReadTTL` and `SetRequest` are the two commands of `UpdateJoinRequest`, between which the
key may expire or be decided by another tab. `Transfer`, `ChooseHost`, `UpdateRoom` are
`TransferStreamHost`; `Authorize`, `ListRequests`, `ReadRoomState`, `ExpireRoom` are the
media token handler, with `RoomState`, which may end the room and lets the token be issued
all the same; `ReadRoomToEnd`/`EndRoom` are every way to end the room. A guest is one
request with its cookie: the approved request a handler looks for is its guest's, so the
loop over the others is one lookup, made when that request's key is read.

`due` says that a request's `ExpiresAt` has passed, the expiry of its key is
`ExpireRequest`; the two are independent, since two clocks measure them. `tokens` are
those in clients' hands, until they expire; `publish` is their right to share the screen,
by the record the handler read last (camera and microphone are everybody's). `admitted`
and `hosts` are history variables: the guests whose approval was ever written, and the
people whom the record has ever named stream host. What `Capacity` says of the room's slot
is left out here, but not what a late transfer does to its record.

### RateLimiter

One key, as keys share nothing. A tick is a fraction of the key's life; `Script` is
`rateLimitScript`, whose first request sets the expiry; `Pass`, `Refuse` and `Unavailable`
are the answers (next handler, 429, 503), all of which have counted. Counting stops at
`Limit + 1`, as the code never tells two counts above the limit apart. `lately` and
`asked` are history variables: the requests let through, and those counted, in the last
ticks. The text of Retry-After is left out, and so is the choice of category and address,
which only names the key.

## Runs

| Run | Instance | Question |
|---|---|---|
| `capacity_slots` | 2 slots, 3 rooms, 2 sessions, 3 reservations, 1 handler | Are the slots never overfilled and never left idle beside a waiter, does everything open expire, does only a late transfer revive what has ended, is the queue a line in the order of the joins' clocks and served in it, newcomers included, is every step one of `SlotPool` and one of `WaitingLine`? |
| `queue_races` | 1 slot, 1 room, 2 sessions, 3 reservations, 2 handlers | Do racing handlers keep the reservation keys consistent and leave others' reservations alone? |
| `queue_served` | 1 slot, 1 room, 2 sessions, 3 reservations, 1 handler, fair | Is every waiter served whose client polls? |
| `ended_reactivated` | 1 slot, 2 handlers | Violated: can an ended room become active again? |
| `hub_empties` | 1 seat, 2 connections, 2 timers, fair | Are seats bounded and returned, is the timer map current, is every deserted room under a timer, does what is to end it only get further, is it ended and LiveKit's room deleted, late transfers or not, is every step one of `Membership`? |
| `occupied_room_ended` | 2 connections, 2 timers | Violated: does the callback spare occupied rooms? |
| `grace_cut_short` | 2 connections, 2 timers | Violated: does a new emptiness get its own grace period? |
| `admission_entry` | 1 guest, the owner, 3 handlers | Do only approved guests enter, do only hosts share the screen, and are decisions and the end of a room final where no handler acts on older readings? |
| `approval_expires` | 1 guest, 1 handler | Violated: does an approval last while the room is open? |
| `broadcast_holds` | 3 clients of 2 people, 1 handler, buffer 6, fair | Is a hold of the mutex one step of `Membership`, does every step bring it nearer to its end, does it end, does it leave nobody with a ghost? |
| `host_announced` | 3 clients of 2 people, 1 handler | Violated: are clients told the record's stream host? |
| `rate_limit` | limit 3, window of 4 ticks, fair | Does a window of time pass twice the limit at most, is an address refused only for what it asked in one, is it let in again? |

Why these bounds are enough to be interesting. Two slots let a script prune one room and
keep another, and let a create promote and open at once; one slot makes every session
wait. Two sessions give the promotion loop a dead session before a live one, and a create
a waiter to pass over; the order among more is proved (`GrantedInOrder`). One reservation
id more than can be outstanding lets a late handler hold the id of a reservation that is
over while others are granted; with fewer, waiters would starve because ids, not slots,
run out. Two handlers are what a race needs; one room is enough for it, to be created or
claimed and to end. Two sessions also are two joins that cross. In `Hub` two connections
compete for one seat; both are registered at once when a seat has lapsed in Redis while
its client is still there. Two timers let a fired callback meet its successor; a third
emptying waits until one of them is done. In `Broadcast` three clients let an eviction
nest in an eviction in a broadcast, two of them tabs of one person; the buffer is the
least that `BufferAssumption` allows, two events per client, as 32 is more than twice the
eight seats. A limit of three and a window of four ticks let a burst straddle the edge of
a window in several ways. In `Admission` three handlers let two decisions and a transfer,
or a decision, a token and an end, be under way together; guests meet only in the record's
host, which the owner contests as well as a second guest would.

Symmetry is used only in runs without liveness. A run of `Broadcast` or of `RateLimiter`
has no end of its own: clients and requests keep coming. The deadlock check is on except
in the runs of `Admission`: there a room that has ended, whose requests and tokens have
expired and whose guests have all asked has nothing left to do. In `Capacity` and `Hub`
refused claims and restarts are always possible, which is also true of the server.

Bounds that are not in the code: the sizes of `Rooms`, `Sessions`, `Reservations`,
`Requests` and `Handlers` (handlers under way), `Guests`, `People`, `Clients` and `Timers`
(existing at once), and the ticks of a rate window. Ids that are over are used again,
except rooms, which are opened once, and guests, who ask once.

### Fairness

`WaitersServed` is about one client that keeps waiting, whatever the others do:
`ClientPolls(s)`, which the property has as a hypothesis, says that heartbeats of session
`s` are sent, read, checked and written, though some are lost (strong fairness, since
another request may hold a handler, or the session may be stale for a moment). Of the
server, `Fairness` in `Capacity` says that a handler takes its next step unless it is
abandoned; that a promotion which is tried again and again is not abandoned every time;
that the clock and the deadlines pass; and that Redis expires the hash of a silent
session. The frontend of this commit sends no queue heartbeats; they are assumed of a
client of the queue's API. Nothing is assumed of owners, claims, ends or joins under way:
rooms end by their deadline.

`EmptyRoomEnds` and `MediaDeleted` assume that timers run (`time.AfterFunc`) and that the
handler of a closed client leaves: its writer closes the connection or, if the writer has
failed, the read deadline of 60 s ends the loop. A client that is open need not ever
leave. The callback's calls to Redis and LiveKit are assumed to return, with an answer or
an error, and an error ends `watched`. Redis calls time out; the call to LiveKit has no
time limit of its own (`cmd/api/main.go:55`), so a LiveKit that accepts a request and
never answers it is outside what `MediaDeleted` says. Nothing is assumed of the owner's
handler, which may fail or never finish.

`HoldEnds` assumes that the goroutine with the mutex runs on: `Send` is a `select` with a
default and never blocks. `LetInAgain` assumes that time passes, and nothing of clients.

## What the runs found

* `EndedRoomsStayEnded` (`proj_docs/VISION.md:337`): `UpdateRoom` writes the record a
  transfer read before the room ended. The record reads active, is found by its code and
  authorizes sessions, although the room holds no slot. `EveryOpenRoomExpires` shows that
  it is back among the expirations, so the next script after its deadline ends it;
  `OnlyLateTransfersRevive` that nothing else does this, and that no transfer which can do
  it begins after the end. In `Hub` the same write can undo the end of an empty room
  before its callback is done. The hub then gives the room up while it is active and
  empty, and only its deadline ends it; `EmptyRoomRunsOut` says that this, a restart and
  an error are the only ways to that.
* `OccupiedRoomNotEnded` (`src/README.md:14`): the callback unlocks before it ends the
  room.
* `GraceRestarts` (`proj_docs/PRD.md:35`): a fired callback outlives the join that tried
  to stop it. (The period itself is five minutes in `cmd/api/main.go:49`, not one.)
* `HostAgrees` (`proj_docs/BACKEND_FINAL_PLAN.md:7`): a join in the owner's role announces
  the owner as stream host, and `removeLocked` announces whoever is left, although the
  record may name somebody else; media tokens follow the record. Two transfers may also be
  published in the other order than they were written.
* `ApprovalLasts` (`docs/superpowers/specs/2026-07-16-room-lifecycle-design.md:10`): the
  two minutes of a pending request go on once it is approved; when they are over, the
  guest's session authorizes nothing any more.

Reading the code for the models also showed the following, which no run needs to find:

* A direct create promotes one waiter and then takes the next free slot itself, whoever
  else waits, although "the queue is first-in, first-out" (`proj_docs/VISION.md:279`).
  What holds is `NewcomersAfterHead`: the first live waiter has been granted a slot in the
  same step.
* A join is queued by the clock it read before its pipeline ran (`queue/service.go:113`).
  Of two that cross, the later command may carry the lower score: a session that was told
  position 1 is then told 2, and the other is served first. In one millisecond the ids
  decide. What holds is `FirstComeFirstServed`: whoever reads a later millisecond stays
  behind. So it takes a join that was under way, or in the same millisecond, to get ahead.
* A session that is promoted between the two reads of its status is told that it does not
  exist, while it holds a fresh reservation (`queue/service.go:150`), and a leave that
  meets this is given up. A read of the reservation key that fails is taken for an expired
  reservation, and the session is removed with it (`queue/service.go:160`), although "the
  user can create the room during the reservation" (`proj_docs/VISION.md:296`). Both are
  steps of the model; `ReservationsKept` says that nobody else's reservation is lost by
  them.
* A transfer leaves the old host's token as it is, valid for up to fifteen minutes, so two
  tokens may share the screen (`proj_docs/PRD.md:41`). `OnlyHostsPublish` and
  `OnlyApprovedEnter` bound whose they are.
* `proj_docs/BACKEND_FINAL_PLAN.md:100` wants the LiveKit room deleted when Ruse ends a
  room. An end by the deadline deletes nothing, and the owner's handler tries once.
  `MediaDeleted` shows that the empty-room callback makes up for both, once everybody has
  disconnected from the hub.

What holds is worth reading closely, too. `SettledForGood` and `ClosedForGood` except the
handlers that are under way: a verdict may flip, or an expired request return, while two
decisions race, and an ended room may give out a token to a handler that authorized it
before. The properties say that nothing else can do so.

## Proofs

Every theorem is for any finite set of rooms and reservations (`FiniteAssumption`; of
connections, `ClientsAssumption`), any sessions and handlers, any natural number of slots
or seats, and a `None` that is no id (`NoneAssumption`, `NoTimerAssumption`); in
`Admission` for any guests and handlers and an owner who is not a guest
(`OwnerAssumption`); in `Broadcast` for any people, among them the owner (its own
`OwnerAssumption`), any finite set of clients and any buffer of two events or more per
client (`BufferAssumption`); in `RateLimiter` for any positive limit and window
(`LimitAssumption`, `WindowAssumption`).

* `TypeCorrect`: `TypeOK` is inductive. Its weight is in `call`: what a handler acts on
  later has the shape of what it read.
* `CapacityBounded`: inductive with `TypeOK`. The lemma about promotion says that it
  leaves at most one reservation more than it found live, and only if a slot was free;
  creating, claiming and ending add their own room to that.
* `OpenRoomsExpire`: `expirations = {r : room[r] = "active"}` is inductive with `active
  \subseteq expirations`, because every script that changes one changes the other and
  `UpdateRoom` enters what it revives.
* `CapacityImplementsSlots`: initial states map to initial states, and every step to a
  step of the pool or a stutter, under the mapping `open <- active`, `granted <-
  reservations`, `opened` the rooms that have a record.
* `ReservationsAgree`: `ReservationsConsistent` is not inductive alone. `ReservationInv`
  adds that nothing refers to a session whose join is under way (`JoiningUnknown`), so
  that no removal meets one, and states the consistency of the store (`StoreConsistent`)
  and of what each handler carries (`CallConsistent`) separately, since a step changes the
  store for all handlers but the carried ids of one. Fresh reservation ids are what makes
  a carried id harmless.
* `ClaimableKept` and `GrantedInOrder`: action properties, from `ReservationInv`. The
  first needs that a key belongs to one session, so that evictions and removals of others
  cannot hit it; the second that `Popped` takes everyone before the winner along, and that
  a join places itself ahead of none but those of its millisecond.
  `HeadBeforeNewcomers`: a create that opens a room beside live waiters has popped up to
  the first of them, since a slot it can take was free for the promotion before.
* `EndedForGood`: `TypeOK` suffices, action by action: only `UpdateRoom` writes "active"
  over an ended record, and a transfer starts from a record that reads active.
* `SlotsNotIdle`: needs, for each of the scripts, what its promotion leaves of a free slot
  (`PromotionUses`): if it was free and found no winner, the whole queue has been popped;
  and a script that opens a room has taken what it counted as free.
* `QueueIsALine`, `OneWinner`, `CapacityImplementsLine`: `QueueOrdered` is inductive only
  with `ReservationInv`, by which a lapsed reservation's session is not in the queue, so
  that a pruning removes nobody who waits or joins (`EvictedUnplaced`). `LineInv` adds
  `InstantLast`, by which all of earlier milliseconds are ahead of those of the present
  one, so that any place among the latter makes a line again (`JoinOrdered`);
  `StaleKnown`, by which a session that joins has no stale heartbeat of an earlier life;
  and that the queue is finite. A nonempty set of live waiters then has exactly one with
  none of them ahead (`FirstExists`): of the sets of those ahead, all finite, one is least
  under inclusion (`WFMin`). So `Winners`, which the model states as a condition, is the
  one outcome of the script's loop. Each script is a step of the line: the reading of the
  clock is `Draw`, the pipeline `Enter`; a promotion that grants is `Serve`; one that does
  not, or a claim, `Sweep`; a leave `Depart`; deadlines and expiries are `Fade`, a
  heartbeat `Revive`.
* `EmptyRoomsWatched`, `EntriesCurrent`, `SeatsReturned`, `HubTypeCorrect`: their
  conjunction `HubInv` is inductive. `RemovedLocked` says once what a hold of the mutex
  does, and `RemovalStep` covers every way to lose a client with it.
* `EmptyRoomsRunOut`: needs `EndedFirst` beside `TypeOK`: a callback that is about to
  delete LiveKit's room has ended Ruse's record or found it ended, so that a record which
  is active by then has been revived. Without it a callback could finish over a room that
  nobody ever ended.
* `HubKeepsMembership`: the same lemmas, read as a step mapping; `HubInv` supplies that an
  armed entry means nobody is registered.
* `BroadcastTypeCorrect`, `NobodySeesGhosts`, `HoldsAreSteps` share one inductive
  invariant of five parts. `Types`. `StackInv`: each frame but the outermost is about a
  client of its own, out of the map and not the newcomer, so the stack is no deeper than
  the clients, and one (`StackBound`). `NewcomerInv`: the newcomer's inbox holds at most
  one event and one announcement of the host per client, of those that are out of the map
  and of itself, and nothing that a frame has still to send; `RoomForNewcomer` counts them
  against the buffer, and `NewcomerStays` follows. `SeenInv`: whom a client sees without
  there being a connection, some frame has still to announce to it as gone (`Pending`).
  `HoldInv`: whoever was there when the mutex was taken and is not now is in some frame's
  `gone`, and the alarm is as it was or says that the last one went. When the mutex is
  released nothing is pending and one frame is left, whose `gone` is what `Membership`'s
  step removes.
* `RecursionEnds`, from the same invariant: each step of a hold removes a client from the
  map, or else ends a frame, or else turns the top frame from announcing to returning, or
  else shortens its `todo`. This order is lexicographic and well-founded, since all four
  are finite (`StackBound` for the depth): nested evictions cannot go on for ever.
* `ApprovedOnly`: `EntryInv` adds to `OnlyApprovedEnter` that every approved record's
  guest is in `admitted` and that hosts and holders which handlers carry are entitled
  (`CarriedEntitled`): what was read stays good because nobody leaves `admitted`.
* `HostsPublish`: `HostsInv` adds that the record's host, and the hosts that handlers
  carry to write back or to issue a token by, are in `hosts`.
* `SettledRequestsStay`: needs that an id under way to its first write is new
  (`AskedIsNew`), for otherwise a late create would make a decided request pending.
* `ClosedRoomsStay`: `TypeOK` suffices; a handler of an ended room can only ask or decide.
* `PresenceBounded`: with `TypeOK`, from `FS_AddElement` and `FS_Subset`.
* `AtMostTwicePasses`: the invariant splits the requests of the last `Window` ticks into
  those the present key counted and those before it was created; each part is within the
  limit, as a key lives for `Window` ticks.
* `RefusalsHaveCause`: `CauseInv` says that every sum of requests that reaches back to the
  creation of the key holds at least its count; the longest sum does so at any time.

Only model-checked: liveness (`WaitersServed`, `EmptyRoomEnds`, `MediaDeleted`,
`HoldEnds`, `LetInAgain`), which is beyond the prover, and the five violations. Every
other property of a run is a theorem. Of the liveness properties, what could go wrong in
the code without any timer or goroutine standing still is proved:

* for `WaitersServed`, that promotion leaves no slot idle and keeps to the line
  (`SlotsNotIdle`, `CapacityImplementsLine`);
* for `EmptyRoomEnds` and `MediaDeleted`, that a timer or a callback exists and is never
  set back (`EmptyRoomsWatched`, `EmptyRoomsRunOut`);
* for `HoldEnds`, that every step of a hold lowers a variant (`RecursionEnds`);
* for `LetInAgain`, that only requests of the last window are held against an address
  (`RefusalsHaveCause`).

What is left to TLC there is the use of fairness.

## What is left

A composition of `Hub`, `Capacity` and `Admission` around one room's record would add the
authorization of a connection that crosses a late transfer; each side of it is in one of
the modules already, and the properties of the record are checked there.

Not modelled and why: the router, other middleware, configuration, health and the Redis
client hold no state; the in-memory store serves tests; the frontend and the deployment
are outside the server; LiveKit, its webhooks and the browser are external. Of what is
modelled, these are abstracted away: the scores of the queue, but for their order, and so
clocks that step or disagree; what an HTTP client is told; the difference between a seat's
score in Redis and the hub's own watch timer, which is one round trip; the memory that
Redis keeps for ended rooms. `PROJECT.json` lists them as hazards without a property.
