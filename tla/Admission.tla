------------------------------ MODULE Admission ------------------------------
(***************************************************************************)
(* Who gets into one room: join requests and their decision, authorization,  *)
(* the transfer of the stream host, and media tokens (rooms/service.go, the  *)
(* join-request side of rooms/redis_store.go, handlers/media.go).            *)
(*                                                                           *)
(* No script guards any of this.  Each Redis command is an action, and what  *)
(* a handler read is kept in call[q] until it writes.  A guest is one join   *)
(* request and the ticket, later the session, that belongs to it; the owner  *)
(* may have several tabs open, so that handlers decide at the same time.     *)
(* Operators marked "Slip" are not used by the specification: each is its    *)
(* successor with one plausible mistake, which some property must notice.    *)
(***************************************************************************)
EXTENDS Naturals, FiniteSets

CONSTANTS Guests, Owner, Handlers

ASSUME OwnerAssumption == Owner \notin Guests

VARIABLES
  room,      \* the record: State, and whose session is StreamHostSessionHash
  roomDue,   \* its ExpiresAt has passed
  request,   \* the record of each join request, "none" if its key is not there
  members,   \* SET of the room's join requests, which is never cleaned
  due,       \* requests whose ExpiresAt has passed
  tokens,    \* media tokens that have not expired
  admitted,  \* history: guests that were approved at some time
  hosts,     \* history: people the record has named stream host at some time
  call       \* what each handler has read and does next

requestVars == <<request, members, due, admitted>>
roomVars == <<room, roomDue, hosts>>
vars == <<roomVars, requestVars, tokens, call>>

People == Guests \cup {Owner}

Idle == [pc |-> "idle"]
Calls ==
  {Idle}
    \cup [pc : {"ask", "choose", "list"}, guest : Guests]
    \cup [pc : {"ttl", "set"}, guest : Guests, verdict : {"approved", "rejected"}]
    \cup [pc : {"update", "end"}, host : People]
    \cup [pc : {"state"}, who : People]
    \cup [pc : {"expire"}, who : People, host : People]

TypeOK ==
  /\ room \in [state : {"active", "ended"}, host : People]
  /\ roomDue \in BOOLEAN /\ hosts \subseteq People
  /\ request \in [Guests -> {"none", "pending", "approved", "rejected"}]
  /\ members \subseteq Guests /\ due \subseteq Guests /\ admitted \subseteq Guests
  /\ tokens \subseteq [holder : People, publish : BOOLEAN]
  /\ call \in [Handlers -> Calls]

Init ==
  /\ room = [state |-> "active", host |-> Owner] /\ roomDue = FALSE /\ hosts = {Owner}
  /\ request = [g \in Guests |-> "none"]
  /\ members = {} /\ due = {} /\ admitted = {} /\ tokens = {}
  /\ call = [q \in Handlers |-> Idle]

\* The room is open to requests, transfers and sessions.
Open == room.state = "active" /\ ~roomDue

-----------------------------------------------------------------------------
(* Join requests. *)

\* createJoinRequest finds the room by its code; the request's id and ticket are new.
Ask(q, g) ==
  /\ call[q] = Idle
  /\ Open
  /\ g \notin members
  /\ \A p \in Handlers : call[p].pc = "ask" => call[p].guest # g
  /\ call' = [call EXCEPT ![q] = [pc |-> "ask", guest |-> g]]
  /\ UNCHANGED <<roomVars, requestVars, tokens>>

CreateJoinRequest(q) ==
  /\ call[q].pc = "ask"
  /\ request' = [request EXCEPT ![call[q].guest] = "pending"]
  /\ members' = members \cup {call[q].guest}
  /\ call' = [call EXCEPT ![q] = Idle]
  /\ UNCHANGED <<roomVars, due, admitted, tokens>>

\* Slip: a request that was decided can be decided again.
DecideAgain(q, g, verdict) ==
  /\ call[q] = Idle
  /\ request[g] # "none" /\ g \notin due
  /\ call' = [call EXCEPT ![q] = [pc |-> "ttl", guest |-> g, verdict |-> verdict]]
  /\ UNCHANGED <<roomVars, requestVars, tokens>>

\* ApproveJoinRequest and RejectJoinRequest.  They do not ask whether the room is open.
Decide(q, g, verdict) ==
  /\ call[q] = Idle
  /\ request[g] = "pending" /\ g \notin due
  /\ call' = [call EXCEPT ![q] = [pc |-> "ttl", guest |-> g, verdict |-> verdict]]
  /\ UNCHANGED <<roomVars, requestVars, tokens>>

\* UpdateJoinRequest: TTL, and then SET with the time that is left.
ReadTTL(q) ==
  /\ call[q].pc = "ttl"
  /\ call' = [call EXCEPT ![q] = IF request[@.guest] = "none" THEN Idle
                                  ELSE [pc |-> "set", guest |-> @.guest, verdict |-> @.verdict]]
  /\ UNCHANGED <<roomVars, requestVars, tokens>>

\* The key is set whatever has become of it since.
SetRequest(q) ==
  /\ call[q].pc = "set"
  /\ request' = [request EXCEPT ![call[q].guest] = call[q].verdict]
  /\ admitted' = IF call[q].verdict = "approved" THEN admitted \cup {call[q].guest} ELSE admitted
  /\ call' = [call EXCEPT ![q] = Idle]
  /\ UNCHANGED <<roomVars, members, due, tokens>>

-----------------------------------------------------------------------------
(* Stream host and tokens. *)

\* Slip: the owner is looked up among the guests.
TransferToAnyone(q, p) ==
  /\ call[q] = Idle
  /\ Open
  /\ call' = [call EXCEPT ![q] = [pc |-> "choose", guest |-> p]]
  /\ UNCHANGED <<roomVars, requestVars, tokens>>

\* TransferStreamHost: the room is read, then, for a guest, the join requests.
Transfer(q, p) ==
  /\ call[q] = Idle
  /\ Open
  /\ call' = [call EXCEPT ![q] = IF p = Owner THEN [pc |-> "update", host |-> Owner]
                                  ELSE [pc |-> "choose", guest |-> p]]
  /\ UNCHANGED <<roomVars, requestVars, tokens>>

ChooseHost(q) ==
  /\ call[q].pc = "choose"
  /\ call' = [call EXCEPT ![q] = IF request[@.guest] = "approved"
                                  THEN [pc |-> "update", host |-> @.guest] ELSE Idle]
  /\ UNCHANGED <<roomVars, requestVars, tokens>>

\* The whole record is written, as it was read but for the host.
UpdateRoom(q) ==
  /\ call[q].pc = "update"
  /\ room' = [state |-> "active", host |-> call[q].host]
  /\ hosts' = hosts \cup {call[q].host}
  /\ call' = [call EXCEPT ![q] = Idle]
  /\ UNCHANGED <<roomDue, requestVars, tokens>>

\* Slip: the room's state is not looked at.
AuthorizeAnyRoom(q, p) ==
  /\ call[q] = Idle
  /\ call' = [call EXCEPT ![q] = IF p = Owner THEN [pc |-> "state", who |-> Owner]
                                  ELSE [pc |-> "list", guest |-> p]]
  /\ UNCHANGED <<roomVars, requestVars, tokens>>

\* The media token handler authorizes the session: the room, then the join requests.
Authorize(q, p) ==
  /\ call[q] = Idle
  /\ Open
  /\ call' = [call EXCEPT ![q] = IF p = Owner THEN [pc |-> "state", who |-> Owner]
                                  ELSE [pc |-> "list", guest |-> p]]
  /\ UNCHANGED <<roomVars, requestVars, tokens>>

\* Slip: any request of the guest's will do.
ListAnyRequest(q) ==
  /\ call[q].pc = "list"
  /\ call' = [call EXCEPT ![q] = IF request[@.guest] # "none"
                                  THEN [pc |-> "state", who |-> @.guest] ELSE Idle]
  /\ UNCHANGED <<roomVars, requestVars, tokens>>

ListRequests(q) ==
  /\ call[q].pc = "list"
  /\ call' = [call EXCEPT ![q] = IF request[@.guest] = "approved"
                                  THEN [pc |-> "state", who |-> @.guest] ELSE Idle]
  /\ UNCHANGED <<roomVars, requestVars, tokens>>

\* Slip: the right to publish the screen is not asked for.
IssueToAll(p, host) == tokens' = tokens \cup {[holder |-> p, publish |-> TRUE]}

Issue(p, host) == tokens' = tokens \cup {[holder |-> p, publish |-> (host = p)]}

\* It reads the room again, for the host; an ended room does not stop it.
ReadRoomState(q) ==
  /\ call[q].pc = "state"
  /\ IF room.state = "active" /\ roomDue
     THEN /\ call' = [call EXCEPT ![q] = [pc |-> "expire", who |-> @.who, host |-> room.host]]
          /\ UNCHANGED tokens
     ELSE /\ call' = [call EXCEPT ![q] = Idle]
          /\ Issue(call[q].who, room.host)
  /\ UNCHANGED <<roomVars, requestVars>>

\* RoomState ends a room past its deadline; the token is issued all the same.
ExpireRoom(q) ==
  /\ call[q].pc = "expire"
  /\ room' = [state |-> "ended", host |-> call[q].host]
  /\ Issue(call[q].who, call[q].host)
  /\ call' = [call EXCEPT ![q] = Idle]
  /\ UNCHANGED <<roomDue, hosts, requestVars>>

\* EndRoom and EndRoomIfActive write back the record they read, as ended.
ReadRoomToEnd(q) ==
  /\ call[q] = Idle
  /\ room.state = "active"
  /\ call' = [call EXCEPT ![q] = [pc |-> "end", host |-> room.host]]
  /\ UNCHANGED <<roomVars, requestVars, tokens>>

EndRoom(q) ==
  /\ call[q].pc = "end"
  /\ room' = [state |-> "ended", host |-> call[q].host]
  /\ call' = [call EXCEPT ![q] = Idle]
  /\ UNCHANGED <<roomDue, hosts, requestVars, tokens>>

Abandon(q) ==
  /\ call[q] # Idle
  /\ call' = [call EXCEPT ![q] = Idle]
  /\ UNCHANGED <<roomVars, requestVars, tokens>>

-----------------------------------------------------------------------------
(* Deadlines. *)

RoomDeadline ==
  /\ ~roomDue
  /\ roomDue' = TRUE
  /\ UNCHANGED <<room, hosts, requestVars, tokens, call>>

\* Some script of the slots prunes the room.
PruneRoom ==
  /\ room.state = "active" /\ roomDue
  /\ room' = [room EXCEPT !.state = "ended"]
  /\ UNCHANGED <<roomDue, hosts, requestVars, tokens, call>>

RequestDeadline(g) ==
  /\ g \in members \ due
  /\ due' = due \cup {g}
  /\ UNCHANGED <<roomVars, request, members, admitted, tokens, call>>

\* The TTL is that of the pending request, also once it is approved.
ExpireRequest(g) ==
  /\ request[g] # "none"
  /\ request' = [request EXCEPT ![g] = "none"]
  /\ UNCHANGED <<roomVars, members, due, admitted, tokens, call>>

ExpireToken(t) ==
  /\ tokens' = tokens \ {t}
  /\ UNCHANGED <<roomVars, requestVars, call>>

-----------------------------------------------------------------------------
Start(q) ==
  \/ \E g \in Guests : Ask(q, g) \/ \E verdict \in {"approved", "rejected"} : Decide(q, g, verdict)
  \/ \E p \in People : Transfer(q, p) \/ Authorize(q, p)
  \/ ReadRoomToEnd(q)

Continue(q) ==
  \/ CreateJoinRequest(q) \/ ReadTTL(q) \/ SetRequest(q)
  \/ ChooseHost(q) \/ UpdateRoom(q)
  \/ ListRequests(q) \/ ReadRoomState(q) \/ ExpireRoom(q)
  \/ EndRoom(q) \/ Abandon(q)

Deadline ==
  \/ RoomDeadline \/ PruneRoom
  \/ \E g \in Guests : RequestDeadline(g) \/ ExpireRequest(g)
  \/ \E t \in tokens : ExpireToken(t)

Next == (\E q \in Handlers : Start(q) \/ Continue(q)) \/ Deadline

Spec == Init /\ [][Next]_vars

-----------------------------------------------------------------------------
(* Properties. *)

\* proj_docs/PRD.md:52 "A guest cannot join until approved by that room's owner."
\* Whoever holds a media token or is the stream host was approved by the owner, also
\* when decisions, expiries, transfers and reads that are out of date cross.
OnlyApprovedEnter ==
  /\ room.host \in admitted \cup {Owner}
  /\ \A t \in tokens : t.holder \in admitted \cup {Owner}

\* README.md:12 "the designated stream host controls screen sharing."  Whoever's token lets
\* them share the screen has been the stream host, also when the room's end or deadline
\* writes back a record that a transfer has overtaken, and the token goes by it.
OnlyHostsPublish == \A t \in tokens : t.publish => t.holder \in hosts

\* A handler has found the request pending and is about to write its verdict.
Deciding(g) == \E q \in Handlers : call[q].pc \in {"ttl", "set"} /\ call[q].guest = g

\* Once a request is decided or gone and no verdict is on its way, it never changes but
\* by expiring: verdicts flip, and expired requests return, only in a race of decisions.
SettledForGood ==
  [][\A g \in members :
       request[g] # "pending" /\ ~Deciding(g) =>
         request'[g] \in {request[g], "none"} /\ ~Deciding(g)']_vars

\* A handler goes by a record it read while the room was open.
Underway ==
  \E q \in Handlers : call[q].pc \in {"choose", "update", "list", "state", "expire"}

\* Once a room has ended and no such handler is left, it stays ended, its host stays
\* and nobody gets a token any more.
ClosedForGood ==
  [][room.state = "ended" /\ ~Underway =>
       room'.state = "ended" /\ ~Underway' /\ tokens' \subseteq tokens]_vars

\* docs/superpowers/specs/2026-07-16-room-lifecycle-design.md:10 "Pending requests expire
\* after 2 minutes."  Approved ones do not: as long as the room is open, an approved
\* guest remains approved.
ApprovalLasts ==
  [][\A g \in Guests : Open /\ request[g] = "approved" => request'[g] = "approved"]_vars
=============================================================================
