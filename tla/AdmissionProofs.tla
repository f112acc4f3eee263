--------------------------- MODULE AdmissionProofs ---------------------------
(***************************************************************************)
(* Proofs about Admission, for any set of guests and any number of handlers. *)
(***************************************************************************)
EXTENDS Admission, TLAPS

\* What a handler has in hand at each of its steps.
LEMMA CallTypes ==
  ASSUME NEW c \in Calls
  PROVE  /\ c.pc \in {"ask", "choose", "list"} =>
              c \in [pc : {"ask", "choose", "list"}, guest : Guests]
         /\ c.pc \in {"ttl", "set"} =>
              c \in [pc : {"ttl", "set"}, guest : Guests, verdict : {"approved", "rejected"}]
         /\ c.pc \in {"update", "end"} => c \in [pc : {"update", "end"}, host : People]
         /\ c.pc = "state" => c \in [pc : {"state"}, who : People]
         /\ c.pc = "expire" => c \in [pc : {"expire"}, who : People, host : People]
  BY DEF Calls, Idle

LEMMA StartType ==
  ASSUME TypeOK, NEW q \in Handlers, Start(q)
  PROVE  TypeOK'
  <1>1. call' \in [Handlers -> Calls]
    <2>1. CASE \E g \in Guests :
                 Ask(q, g) \/ \E verdict \in {"approved", "rejected"} : Decide(q, g, verdict)
      BY <2>1 DEF TypeOK, Ask, Decide, Calls
    <2>2. ASSUME NEW p \in People, Transfer(q, p) \/ Authorize(q, p)
          PROVE  call' \in [Handlers -> Calls]
      BY <2>2 DEF TypeOK, Transfer, Authorize, Calls, People
    <2>3. CASE ReadRoomToEnd(q)
      BY <2>3 DEF TypeOK, ReadRoomToEnd, Calls
    <2> QED
      BY <2>1, <2>2, <2>3 DEF Start
  <1>2. UNCHANGED <<roomVars, requestVars, tokens>>
    BY DEF Start, Ask, Decide, Transfer, Authorize, ReadRoomToEnd
  <1> QED
    BY <1>1, <1>2 DEF TypeOK, roomVars, requestVars

LEMMA IssueType ==
  ASSUME TypeOK, NEW p \in People, NEW host, Issue(p, host)
  PROVE  tokens' \subseteq [holder : People, publish : BOOLEAN]
  <1>1. (host = p) \in BOOLEAN
    OBVIOUS
  <1>2. ASSUME NEW b \in BOOLEAN
        PROVE  [holder |-> p, publish |-> b] \in [holder : People, publish : BOOLEAN]
    OBVIOUS
  <1>3. [holder |-> p, publish |-> (host = p)] \in [holder : People, publish : BOOLEAN]
    BY <1>1, <1>2, Zenon
  <1> QED
    BY <1>3, Zenon DEF Issue, TypeOK

LEMMA ContinueType ==
  ASSUME TypeOK, NEW q \in Handlers, Continue(q)
  PROVE  TypeOK'
  <1>1. CASE CreateJoinRequest(q)
    <2>1. call[q].guest \in Guests
      BY <1>1, CallTypes DEF CreateJoinRequest, TypeOK
    <2> QED
      BY <1>1, <2>1 DEF CreateJoinRequest, TypeOK, Calls, roomVars
  <1>2. CASE ReadTTL(q)
    <2>1. call[q] \in [pc : {"ttl", "set"}, guest : Guests, verdict : {"approved", "rejected"}]
      BY <1>2, CallTypes DEF ReadTTL, TypeOK
    <2>2. call' \in [Handlers -> Calls]
      BY <1>2, <2>1 DEF ReadTTL, TypeOK, Calls
    <2> QED
      BY <1>2, <2>2 DEF ReadTTL, TypeOK, roomVars, requestVars
  <1>3. CASE SetRequest(q)
    <2>1. call[q] \in [pc : {"ttl", "set"}, guest : Guests, verdict : {"approved", "rejected"}]
      BY <1>3, CallTypes DEF SetRequest, TypeOK
    <2> QED
      BY <1>3, <2>1 DEF SetRequest, TypeOK, Calls, roomVars
  <1>4. CASE ChooseHost(q) \/ ListRequests(q)
    <2>1. call[q].guest \in Guests
      BY <1>4, CallTypes DEF ChooseHost, ListRequests, TypeOK
    <2>2. call' \in [Handlers -> Calls]
      BY <1>4, <2>1 DEF ChooseHost, ListRequests, TypeOK, Calls, People
    <2> QED
      BY <1>4, <2>2 DEF ChooseHost, ListRequests, TypeOK, roomVars, requestVars
  <1>5. CASE UpdateRoom(q) \/ EndRoom(q)
    <2>1. call[q].host \in People
      BY <1>5, CallTypes DEF UpdateRoom, EndRoom, TypeOK
    <2> QED
      BY <1>5, <2>1 DEF UpdateRoom, EndRoom, TypeOK, Calls, requestVars
  <1>6. CASE ReadRoomState(q)
    <2>1. call[q].who \in People
      BY <1>6, CallTypes DEF ReadRoomState, TypeOK
    <2>2. call' \in [Handlers -> Calls]
      BY <1>6, <2>1 DEF ReadRoomState, TypeOK, Calls
    <2>3. tokens' \subseteq [holder : People, publish : BOOLEAN]
      BY <1>6, <2>1, IssueType DEF ReadRoomState, TypeOK
    <2> QED
      BY <1>6, <2>2, <2>3 DEF ReadRoomState, TypeOK, roomVars, requestVars
  <1>7. CASE ExpireRoom(q)
    <2>1. call[q] \in [pc : {"expire"}, who : People, host : People]
      BY <1>7, CallTypes DEF ExpireRoom, TypeOK
    <2>2. tokens' \subseteq [holder : People, publish : BOOLEAN]
      BY <1>7, <2>1, IssueType DEF ExpireRoom
    <2> QED
      BY <1>7, <2>1, <2>2 DEF ExpireRoom, TypeOK, Calls, requestVars
  <1>8. CASE Abandon(q)
    BY <1>8 DEF Abandon, TypeOK, Calls, roomVars, requestVars
  <1> QED
    BY <1>1, <1>2, <1>3, <1>4, <1>5, <1>6, <1>7, <1>8 DEF Continue

LEMMA TypeStep == TypeOK /\ [Next]_vars => TypeOK'
  <1> SUFFICES ASSUME TypeOK, [Next]_vars PROVE TypeOK'
    OBVIOUS
  <1>1. ASSUME NEW q \in Handlers, Start(q) \/ Continue(q) PROVE TypeOK'
    BY <1>1, StartType, ContinueType
  <1>2. CASE Deadline
    BY <1>2 DEF Deadline, RoomDeadline, PruneRoom, RequestDeadline, ExpireRequest, ExpireToken,
         TypeOK, roomVars, requestVars
  <1>3. CASE UNCHANGED vars
    BY <1>3 DEF TypeOK, vars, roomVars, requestVars
  <1> QED
    BY <1>1, <1>2, <1>3 DEF Next

LEMMA InitType == Init => TypeOK
  <1> SUFFICES ASSUME Init PROVE TypeOK
    OBVIOUS
  <1>1. call \in [Handlers -> Calls]
    BY DEF Init, Calls
  <1>2. room \in [state : {"active", "ended"}, host : People]
    BY DEF Init, People
  <1> QED
    BY <1>1, <1>2 DEF Init, TypeOK

\* Every variable keeps its type, in particular what handlers carry to their next step.
THEOREM AdmissionTypeCorrect == Spec => []TypeOK
  <1>1. Init => TypeOK
    BY InitType
  <1> QED
    BY <1>1, TypeStep, PTL DEF Spec

-----------------------------------------------------------------------------
(* Nobody enters who was not approved. *)

Entitled == admitted \cup {Owner}

\* What is decided or carried is as good as what is in effect: an approved record was
\* approved, and a handler only carries hosts and holders who are entitled.
CarriedEntitled ==
  \A q \in Handlers :
    /\ call[q].pc \in {"update", "end", "expire"} => call[q].host \in Entitled
    /\ call[q].pc \in {"state", "expire"} => call[q].who \in Entitled

EntryInv ==
  /\ TypeOK
  /\ OnlyApprovedEnter
  /\ \A g \in Guests : request[g] = "approved" => g \in admitted
  /\ CarriedEntitled

\* Nobody loses what entitles, and only the one handler's hands change.
LEMMA CarriedStep ==
  ASSUME CarriedEntitled, admitted \subseteq admitted', NEW q \in Handlers, TypeOK,
         \A p \in Handlers \ {q} : call'[p] = call[p],
         call'[q].pc \in {"update", "end", "expire"} => call'[q].host \in Entitled',
         call'[q].pc \in {"state", "expire"} => call'[q].who \in Entitled'
  PROVE  CarriedEntitled'
  BY DEF CarriedEntitled, Entitled

LEMMA EntryStep == EntryInv /\ [Next]_vars => EntryInv'
  <1> SUFFICES ASSUME EntryInv, [Next]_vars PROVE EntryInv'
    OBVIOUS
  <1>t. TypeOK /\ TypeOK'
    BY TypeStep DEF EntryInv
  <1>1. ASSUME NEW q \in Handlers, Start(q) PROVE EntryInv'
    <2>1. UNCHANGED <<roomVars, requestVars, tokens>>
      BY <1>1 DEF Start, Ask, Decide, Transfer, Authorize, ReadRoomToEnd
    <2>2. \A p \in Handlers \ {q} : call'[p] = call[p]
      BY <1>1, <1>t DEF Start, Ask, Decide, Transfer, Authorize, ReadRoomToEnd, TypeOK
    <2>3. \/ call'[q].pc \in {"ask", "ttl", "choose", "list"}
          \/ call'[q] = [pc |-> "update", host |-> Owner]
          \/ call'[q] = [pc |-> "state", who |-> Owner]
          \/ call'[q] = [pc |-> "end", host |-> room.host]
      BY <1>1, <1>t DEF Start, Ask, Decide, Transfer, Authorize, ReadRoomToEnd, TypeOK
    <2>4. CarriedEntitled'
      <3>1. Entitled' = Entitled /\ room.host \in Entitled /\ Owner \in Entitled
        BY <2>1 DEF Entitled, requestVars, EntryInv, OnlyApprovedEnter
      <3> QED
        BY <1>t, <2>1, <2>2, <2>3, <3>1, CarriedStep DEF EntryInv, requestVars
    <2> QED
      BY <1>t, <2>1, <2>4 DEF EntryInv, OnlyApprovedEnter, roomVars, requestVars
  <1>2. ASSUME NEW q \in Handlers, CreateJoinRequest(q) \/ SetRequest(q) PROVE EntryInv'
    <2>1. call'[q].pc = "idle" /\ \A p \in Handlers \ {q} : call'[p] = call[p]
      BY <1>2, <1>t DEF CreateJoinRequest, SetRequest, TypeOK, Idle
    <2>2. admitted \subseteq admitted'
      BY <1>2 DEF CreateJoinRequest, SetRequest
    <2>3. CarriedEntitled'
      BY <1>t, <2>1, <2>2, CarriedStep DEF EntryInv
    <2>4. \A g \in Guests : request'[g] = "approved" => g \in admitted'
      BY <1>2, <1>t DEF CreateJoinRequest, SetRequest, EntryInv, TypeOK
    <2>5. OnlyApprovedEnter'
      BY <1>2, <2>2 DEF CreateJoinRequest, SetRequest, EntryInv, OnlyApprovedEnter, roomVars
    <2> QED
      BY <1>t, <2>3, <2>4, <2>5 DEF EntryInv
  <1>3. ASSUME NEW q \in Handlers,
               ReadTTL(q) \/ ChooseHost(q) \/ ListRequests(q) \/ Abandon(q)
        PROVE  EntryInv'
    <2>1. UNCHANGED <<roomVars, requestVars, tokens>>
      BY <1>3 DEF ReadTTL, ChooseHost, ListRequests, Abandon
    <2>2. \A p \in Handlers \ {q} : call'[p] = call[p]
      BY <1>3, <1>t DEF ReadTTL, ChooseHost, ListRequests, Abandon, TypeOK
    <2>3. \/ call'[q].pc \in {"idle", "set"}
          \/ \E g \in admitted : \/ call'[q] = [pc |-> "update", host |-> g]
                                 \/ call'[q] = [pc |-> "state", who |-> g]
      <3>1. CASE ReadTTL(q) \/ Abandon(q)
        BY <3>1, <1>t DEF ReadTTL, Abandon, TypeOK, Idle
      <3>2. CASE ChooseHost(q) \/ ListRequests(q)
        <4>1. call[q].guest \in Guests
          BY <3>2, <1>t, CallTypes DEF ChooseHost, ListRequests, TypeOK
        <4> QED
          BY <3>2, <4>1, <1>t DEF ChooseHost, ListRequests, TypeOK, Idle, EntryInv
      <3> QED
        BY <1>3, <3>1, <3>2
    <2>4. CarriedEntitled'
      <3>1. Entitled' = Entitled /\ admitted \subseteq Entitled
        BY <2>1 DEF Entitled, requestVars
      <3>2. /\ call'[q].pc \in {"update", "end", "expire"} => call'[q].host \in Entitled'
            /\ call'[q].pc \in {"state", "expire"} => call'[q].who \in Entitled'
        <4>1. CASE call'[q].pc \in {"idle", "set"}
          BY <4>1
        <4>2. ASSUME NEW g \in admitted, call'[q] = [pc |-> "update", host |-> g]
              PROVE  call'[q].pc = "update" /\ call'[q].host \in Entitled'
          BY <3>1, <4>2
        <4>3. ASSUME NEW g \in admitted, call'[q] = [pc |-> "state", who |-> g]
              PROVE  call'[q].pc = "state" /\ call'[q].who \in Entitled'
          BY <3>1, <4>3
        <4> QED
          BY <2>3, <4>1, <4>2, <4>3
      <3>3. CarriedEntitled /\ admitted \subseteq admitted'
        BY <2>1 DEF EntryInv, requestVars
      <3> QED
        BY <1>t, <2>2, <3>2, <3>3, CarriedStep
    <2> QED
      BY <1>t, <2>1, <2>4 DEF EntryInv, OnlyApprovedEnter, roomVars, requestVars
  <1>4. ASSUME NEW q \in Handlers,
               UpdateRoom(q) \/ EndRoom(q) \/ ReadRoomState(q) \/ ExpireRoom(q)
        PROVE  EntryInv'
    <2>1. UNCHANGED requestVars
      BY <1>4 DEF UpdateRoom, EndRoom, ReadRoomState, ExpireRoom
    <2>2. Entitled' = Entitled /\ room.host \in Entitled
      BY <2>1 DEF Entitled, requestVars, EntryInv, OnlyApprovedEnter
    <2>3. /\ call[q].pc \in {"update", "end", "expire"} => call[q].host \in Entitled
          /\ call[q].pc \in {"state", "expire"} => call[q].who \in Entitled
      BY DEF EntryInv, CarriedEntitled
    <2>4. \A p \in Handlers \ {q} : call'[p] = call[p]
      BY <1>4, <1>t DEF UpdateRoom, EndRoom, ReadRoomState, ExpireRoom, TypeOK
    <2>5. \/ call'[q].pc = "idle"
          \/ /\ call[q].pc = "state"
             /\ call'[q] = [pc |-> "expire", who |-> call[q].who, host |-> room.host]
      BY <1>4, <1>t DEF UpdateRoom, EndRoom, ReadRoomState, ExpireRoom, TypeOK, Idle
    <2>6. CarriedEntitled'
      BY <1>t, <2>1, <2>2, <2>3, <2>4, <2>5, CarriedStep DEF EntryInv, requestVars
    <2>7. room'.host \in Entitled
      BY <1>4, <2>2, <2>3 DEF UpdateRoom, EndRoom, ReadRoomState, ExpireRoom, roomVars
    <2>8. \A t \in tokens' : t.holder \in Entitled
      BY <1>4, <2>3 DEF UpdateRoom, EndRoom, ReadRoomState, ExpireRoom, Issue, EntryInv,
           OnlyApprovedEnter, Entitled
    <2>9. OnlyApprovedEnter'
      BY <2>2, <2>7, <2>8 DEF OnlyApprovedEnter, Entitled
    <2> QED
      BY <1>t, <2>1, <2>6, <2>9 DEF EntryInv, requestVars
  <1>5. CASE Deadline
    <2>1. UNCHANGED <<call, admitted>> /\ room'.host = room.host /\ tokens' \subseteq tokens
      BY <1>5, <1>t DEF Deadline, RoomDeadline, PruneRoom, RequestDeadline, ExpireRequest,
           ExpireToken, roomVars, requestVars, TypeOK
    <2>2. \A g \in Guests : request'[g] \in {request[g], "none"}
      BY <1>5, <1>t DEF Deadline, RoomDeadline, PruneRoom, RequestDeadline, ExpireRequest,
           ExpireToken, roomVars, requestVars, TypeOK
    <2> QED
      BY <1>t, <2>1, <2>2 DEF EntryInv, OnlyApprovedEnter, CarriedEntitled, Entitled
  <1>6. CASE UNCHANGED vars
    BY <1>t, <1>6 DEF EntryInv, OnlyApprovedEnter, CarriedEntitled, Entitled, vars, roomVars,
         requestVars
  <1> QED
    BY <1>1, <1>2, <1>3, <1>4, <1>5, <1>6 DEF Next, Continue

\* Whoever holds a media token or is the stream host was approved by the owner, however
\* decisions, expiries and transfers interleave with what handlers have read before.
THEOREM ApprovedOnly == Spec => []OnlyApprovedEnter
  <1>1. Init => EntryInv
    BY InitType DEF Init, EntryInv, OnlyApprovedEnter, CarriedEntitled, Idle
  <1>2. EntryInv => OnlyApprovedEnter
    BY DEF EntryInv
  <1> QED
    BY <1>1, <1>2, EntryStep, PTL DEF Spec

-----------------------------------------------------------------------------
(* Nobody shares the screen who was never the host. *)

\* Also the host a handler is to write back, and to issue a token by, once was in the record.
HostsInv ==
  /\ OnlyHostsPublish
  /\ room.host \in hosts
  /\ \A q \in Handlers : call[q].pc \in {"end", "expire"} => call[q].host \in hosts

LEMMA HostsStep == TypeOK /\ HostsInv /\ [Next]_vars => HostsInv'
  <1> SUFFICES ASSUME TypeOK, HostsInv, [Next]_vars PROVE HostsInv'
    OBVIOUS
  <1>1. ASSUME UNCHANGED <<room, hosts>>, tokens' \subseteq tokens, NEW q \in Handlers,
               \A p \in Handlers \ {q} : call'[p] = call[p],
               call'[q].pc \in {"end", "expire"} => call'[q].host = room.host
        PROVE  HostsInv'
    BY <1>1 DEF HostsInv, OnlyHostsPublish
  <1>2. ASSUME NEW q \in Handlers, Start(q) PROVE HostsInv'
    <2>1. UNCHANGED <<room, hosts, tokens>>
      BY <1>2 DEF Start, Ask, Decide, Transfer, Authorize, ReadRoomToEnd, roomVars
    <2>2. /\ \A p \in Handlers \ {q} : call'[p] = call[p]
          /\ call'[q].pc \in {"end", "expire"} => call'[q].host = room.host
      BY <1>2 DEF Start, Ask, Decide, Transfer, Authorize, ReadRoomToEnd, TypeOK
    <2> QED
      BY <1>1, <2>1, <2>2
  <1>3. ASSUME NEW q \in Handlers,
               \/ CreateJoinRequest(q) \/ ReadTTL(q) \/ SetRequest(q) \/ ChooseHost(q)
               \/ ListRequests(q) \/ Abandon(q)
        PROVE  HostsInv'
    <2>1. UNCHANGED <<room, hosts, tokens>>
      BY <1>3 DEF CreateJoinRequest, ReadTTL, SetRequest, ChooseHost, ListRequests, Abandon,
           roomVars
    <2>2. /\ \A p \in Handlers \ {q} : call'[p] = call[p]
          /\ call'[q].pc \notin {"end", "expire"}
      BY <1>3 DEF CreateJoinRequest, ReadTTL, SetRequest, ChooseHost, ListRequests, Abandon,
           TypeOK, Idle
    <2> QED
      BY <1>1, <2>1, <2>2
  <1>4. ASSUME NEW q \in Handlers, UpdateRoom(q) \/ EndRoom(q) PROVE HostsInv'
    BY <1>4 DEF UpdateRoom, EndRoom, HostsInv, OnlyHostsPublish, TypeOK, Idle
  <1>5. ASSUME NEW q \in Handlers, ReadRoomState(q) \/ ExpireRoom(q) PROVE HostsInv'
    <2>1. /\ room'.host \in hosts /\ hosts' = hosts
          /\ \A p \in Handlers : call'[p].pc \in {"end", "expire"} => call'[p].host \in hosts
      BY <1>5 DEF ReadRoomState, ExpireRoom, HostsInv, TypeOK, Idle, roomVars
    <2>2. ASSUME NEW host \in hosts, NEW who, Issue(who, host)
          PROVE  OnlyHostsPublish'
      <3>1. ASSUME NEW t \in tokens', t.publish PROVE t.holder \in hosts
        <4>1. CASE t \in tokens
          BY <3>1, <4>1 DEF HostsInv, OnlyHostsPublish
        <4>2. CASE t = [holder |-> who, publish |-> (host = who)]
          <5>1. t.holder = who /\ t.publish = (host = who)
            BY <4>2
          <5> QED
            BY <3>1, <5>1, Zenon
        <4> QED
          BY <2>2, <3>1, <4>1, <4>2, Zenon DEF Issue
      <3> QED
        BY <2>1, <3>1, Zenon DEF OnlyHostsPublish
    <2>3. OnlyHostsPublish'
      <3>1. CASE UNCHANGED tokens
        BY <2>1, <3>1 DEF HostsInv, OnlyHostsPublish
      <3>2. CASE Issue(call[q].who, room.host)
        BY <2>2, <3>2, Zenon DEF HostsInv
      <3>3. CASE Issue(call[q].who, call[q].host) /\ call[q].pc = "expire"
        <4>1. call[q].host \in hosts
          BY <3>3 DEF HostsInv
        <4> QED
          BY <2>2, <3>3, <4>1, Zenon
      <3> QED
        BY <1>5, <3>1, <3>2, <3>3, Zenon DEF ReadRoomState, ExpireRoom
    <2> QED
      BY <2>1, <2>3 DEF HostsInv
  <1>6. CASE Deadline \/ UNCHANGED vars
    <2>1. UNCHANGED <<call, hosts>> /\ room'.host = room.host /\ tokens' \subseteq tokens
      BY <1>6 DEF Deadline, RoomDeadline, PruneRoom, RequestDeadline, ExpireRequest, ExpireToken,
           vars, roomVars, TypeOK
    <2> QED
      BY <2>1 DEF HostsInv, OnlyHostsPublish
  <1> QED
    BY <1>2, <1>3, <1>4, <1>5, <1>6 DEF Next, Continue

\* Whoever holds a token to share the screen has been named host by the record, although tokens
\* are issued by readings that transfers have overtaken, and old records are written back.
THEOREM HostsPublish == Spec => []OnlyHostsPublish
  <1>1. Init => HostsInv
    BY DEF Init, HostsInv, OnlyHostsPublish, Idle
  <1>2. HostsInv => OnlyHostsPublish
    BY DEF HostsInv
  <1> QED
    BY <1>1, <1>2, HostsStep, AdmissionTypeCorrect, PTL DEF Spec

-----------------------------------------------------------------------------
(* What is settled, or closed, remains so. *)

\* A handler that asks has an id no request has.
AskedIsNew ==
  \A p, q \in Handlers : call[p].pc = "ask" =>
    /\ call[p].guest \notin members
    /\ call[q].pc = "ask" /\ call[q].guest = call[p].guest => p = q

LEMMA AskedStep == TypeOK /\ AskedIsNew /\ [Next]_vars => AskedIsNew'
  <1> SUFFICES ASSUME TypeOK, AskedIsNew, [Next]_vars PROVE AskedIsNew'
    OBVIOUS
  <1>1. ASSUME NEW q \in Handlers, NEW g \in Guests, Ask(q, g) PROVE AskedIsNew'
    BY <1>1 DEF Ask, AskedIsNew, TypeOK, requestVars
  <1>2. ASSUME NEW q \in Handlers, CreateJoinRequest(q) PROVE AskedIsNew'
    BY <1>2 DEF CreateJoinRequest, AskedIsNew, TypeOK, Idle
  <1>3. ASSUME NEW q \in Handlers, Start(q) \/ Continue(q), ~CreateJoinRequest(q),
               \A g \in Guests : ~Ask(q, g)
        PROVE  AskedIsNew'
    <2>1. members' = members
      BY <1>3 DEF Start, Continue, Ask, Decide, Transfer, Authorize, ReadRoomToEnd, ReadTTL,
           SetRequest, ChooseHost, UpdateRoom, ListRequests, ReadRoomState, ExpireRoom, EndRoom,
           Abandon, requestVars
    <2>2. call'[q].pc # "ask" /\ \A p \in Handlers \ {q} : call'[p] = call[p]
      <3>1. CASE Start(q)
        BY <1>3, <3>1 DEF Start, Decide, Transfer, Authorize, ReadRoomToEnd, TypeOK
      <3>2. CASE Continue(q)
        BY <1>3, <3>2 DEF Continue, ReadTTL, SetRequest, ChooseHost, UpdateRoom, ListRequests,
             ReadRoomState, ExpireRoom, EndRoom, Abandon, TypeOK, Idle
      <3> QED
        BY <1>3, <3>1, <3>2
    <2> QED
      BY <2>1, <2>2 DEF AskedIsNew
  <1>4. CASE Deadline \/ UNCHANGED vars
    <2>1. UNCHANGED <<call, members>>
      BY <1>4 DEF Deadline, RoomDeadline, PruneRoom, RequestDeadline, ExpireRequest, ExpireToken,
           vars, requestVars
    <2> QED
      BY <2>1 DEF AskedIsNew
  <1> QED
    BY <1>1, <1>2, <1>3, <1>4 DEF Next

Settled(g) == g \in members /\ request[g] # "pending" /\ ~Deciding(g)

LEMMA SettledStep ==
  ASSUME TypeOK, AskedIsNew, [Next]_vars, NEW g \in Guests, Settled(g)
  PROVE  request'[g] \in {request[g], "none"} /\ ~Deciding(g)'
  <1>1. ASSUME NEW q \in Handlers, Start(q)
        PROVE  request'[g] \in {request[g], "none"} /\ ~Deciding(g)'
    <2>1. request' = request
      BY <1>1 DEF Start, Ask, Decide, Transfer, Authorize, ReadRoomToEnd, requestVars
    <2>2. \A p \in Handlers \ {q} : call'[p] = call[p]
      BY <1>1 DEF Start, Ask, Decide, Transfer, Authorize, ReadRoomToEnd, TypeOK
    <2>3. ~(call'[q].pc \in {"ttl", "set"} /\ call'[q].guest = g)
      BY <1>1 DEF Start, Ask, Decide, Transfer, Authorize, ReadRoomToEnd, TypeOK, Settled
    <2> QED
      BY <2>1, <2>2, <2>3 DEF Settled, Deciding
  <1>2. ASSUME NEW q \in Handlers, Continue(q)
        PROVE  request'[g] \in {request[g], "none"} /\ ~Deciding(g)'
    <2>1. request'[g] = request[g]
      <3>1. CASE CreateJoinRequest(q)
        BY <3>1 DEF CreateJoinRequest, AskedIsNew, Settled, TypeOK
      <3>2. CASE SetRequest(q)
        BY <3>2 DEF SetRequest, Settled, Deciding, TypeOK
      <3>3. CASE ~CreateJoinRequest(q) /\ ~SetRequest(q)
        BY <1>2, <3>3 DEF Continue, ReadTTL, ChooseHost, UpdateRoom, ListRequests,
             ReadRoomState, ExpireRoom, EndRoom, Abandon, requestVars
      <3> QED
        BY <3>1, <3>2, <3>3
    <2>2. \A p \in Handlers \ {q} : call'[p] = call[p]
      BY <1>2 DEF Continue, CreateJoinRequest, ReadTTL, SetRequest, ChooseHost, UpdateRoom,
           ListRequests, ReadRoomState, ExpireRoom, EndRoom, Abandon, TypeOK
    <2>3. call'[q].pc \in {"ttl", "set"} => call[q].pc = "ttl" /\ call'[q].guest = call[q].guest
      BY <1>2 DEF Continue, CreateJoinRequest, ReadTTL, SetRequest, ChooseHost, UpdateRoom,
           ListRequests, ReadRoomState, ExpireRoom, EndRoom, Abandon, TypeOK, Idle
    <2> QED
      BY <2>1, <2>2, <2>3 DEF Settled, Deciding
  <1>3. CASE Deadline \/ UNCHANGED vars
    BY <1>3 DEF Deadline, RoomDeadline, PruneRoom, RequestDeadline, ExpireRequest, ExpireToken,
         vars, requestVars, Settled, Deciding, TypeOK
  <1> QED
    BY <1>1, <1>2, <1>3 DEF Next

\* A request that is decided or gone, with no verdict on its way, changes only by
\* expiring: it takes a race of two decisions to flip a verdict or to revive a request.
THEOREM SettledRequestsStay == Spec => SettledForGood
  <1>1. Init => AskedIsNew
    BY DEF Init, AskedIsNew, Idle
  <1>2. TypeOK /\ AskedIsNew /\ [Next]_vars =>
          [\A g \in members :
             request[g] # "pending" /\ ~Deciding(g) =>
               request'[g] \in {request[g], "none"} /\ ~Deciding(g)']_vars
    <2> SUFFICES ASSUME TypeOK, AskedIsNew, [Next]_vars, NEW g \in members,
                        request[g] # "pending", ~Deciding(g)
                 PROVE  request'[g] \in {request[g], "none"} /\ ~Deciding(g)'
      OBVIOUS
    <2> QED
      BY SettledStep DEF Settled, TypeOK
  <1> QED
    BY <1>1, <1>2, AskedStep, AdmissionTypeCorrect, PTL DEF Spec, SettledForGood

LEMMA ClosedStep ==
  ASSUME TypeOK, [Next]_vars, room.state = "ended", ~Underway
  PROVE  room'.state = "ended" /\ ~Underway' /\ tokens' \subseteq tokens
  <1>1. ASSUME NEW q \in Handlers, Start(q)
        PROVE  room'.state = "ended" /\ ~Underway' /\ tokens' \subseteq tokens
    <2>1. PICK g \in Guests :
            Ask(q, g) \/ \E verdict \in {"approved", "rejected"} : Decide(q, g, verdict)
      BY <1>1 DEF Start, Transfer, Authorize, ReadRoomToEnd, Open
    <2>2. UNCHANGED <<roomVars, tokens>>
      BY <2>1 DEF Ask, Decide
    <2>3. \A p \in Handlers : call'[p] = call[p] \/ call'[p].pc \in {"ask", "ttl"}
      BY <2>1 DEF Ask, Decide, TypeOK
    <2> QED
      BY <2>2, <2>3 DEF Underway, roomVars
  <1>2. ASSUME NEW q \in Handlers, Continue(q)
        PROVE  room'.state = "ended" /\ ~Underway' /\ tokens' \subseteq tokens
    <2>1. CreateJoinRequest(q) \/ ReadTTL(q) \/ SetRequest(q) \/ EndRoom(q) \/ Abandon(q)
      BY <1>2 DEF Continue, Underway, ChooseHost, UpdateRoom, ListRequests, ReadRoomState,
           ExpireRoom
    <2>2. room'.state = "ended" /\ tokens' = tokens
      BY <2>1 DEF CreateJoinRequest, ReadTTL, SetRequest, EndRoom, Abandon, roomVars
    <2>3. \A p \in Handlers : call'[p] = call[p] \/ call'[p].pc \in {"idle", "set"}
      BY <2>1 DEF CreateJoinRequest, ReadTTL, SetRequest, EndRoom, Abandon, TypeOK, Idle
    <2> QED
      BY <2>2, <2>3 DEF Underway
  <1>3. CASE Deadline \/ UNCHANGED vars
    BY <1>3 DEF Deadline, RoomDeadline, PruneRoom, RequestDeadline, ExpireRequest, ExpireToken,
         vars, roomVars, Underway
  <1> QED
    BY <1>1, <1>2, <1>3 DEF Next

\* Once the room has ended and no handler goes by an older reading of it, it stays ended
\* and no token is issued any more.
THEOREM ClosedRoomsStay == Spec => ClosedForGood
  <1>1. TypeOK /\ [Next]_vars =>
          [room.state = "ended" /\ ~Underway =>
             room'.state = "ended" /\ ~Underway' /\ tokens' \subseteq tokens]_vars
    BY ClosedStep
  <1> QED
    BY <1>1, AdmissionTypeCorrect, PTL DEF Spec, ClosedForGood
=============================================================================
