------------------------------ MODULE Broadcast ------------------------------
(***************************************************************************)
(* One hold of the hub's mutex, step by step (realtime/hub.go): a broadcast *)
(* sends an event to the clients of a room one after the other, removes     *)
(* those that do not take it, and broadcasts that they left and who is the  *)
(* stream host now, which may remove more.  Hub takes all this for one step *)
(* of Membership; here is why it may.                                       *)
(*                                                                          *)
(* The recursion of broadcastLocked and removeLocked is a stack of frames,  *)
(* the innermost last.  An old client may have been closed, and its writer  *)
(* drains its buffer at any time, so whether Send finds room is a choice; a *)
(* newcomer has no writer yet.  Operators marked "Slip" are not used by the *)
(* specification: each is its successor with one plausible mistake, which   *)
(* some property must notice.                                               *)
(***************************************************************************)
EXTENDS Naturals, FiniteSets, Sequences

CONSTANTS
  Clients,    \* connections of one room at once; one that is over may be used anew
  People,     \* who connects, in one tab or several: tabs share their identity
  Owner,
  Handlers,   \* transfers of the stream host under way at once
  Buffer,     \* outboundBuffer, 32
  None

ASSUME OwnerAssumption == Owner \in People
ASSUME NoneAssumption == None \notin People \cup Clients
\* Seats are for eight, so that a buffer of 32 is twice what is needed.
ASSUME BufferAssumption ==
  IsFiniteSet(Clients) /\ Buffer \in Nat /\ 2 * Cardinality(Clients) <= Buffer

VARIABLES
  who,          \* identity of each client in rooms[room], None of any other
  alarm,        \* emptyTimers has an entry for the room
  leaving,      \* clients handed to cleanup, their seats not yet given back
  stack,        \* broadcasts in progress; the mutex is free if there is none
  newcomer,     \* the client that is joining
  inbox,        \* what this hold has put into its buffer
  before,       \* members and alarm when the mutex was taken
  seen,         \* whom the events sent to each client say are there
  host,         \* ... and who they say is the stream host
  record,       \* StreamHost of the room's record
  announcing    \* the host a transfer has written and not yet published

hubVars == <<who, alarm>>
holdVars == <<stack, newcomer, inbox, before>>
toldVars == <<seen, host>>
recordVars == <<record, announcing>>
vars == <<hubVars, leaving, holdVars, toldVars, recordVars>>

Nobody == People \cup {None}
members == {c \in Clients : who[c] # None}
\* "of" is the client that joined or left; of None if a handler publishes.
Events == [kind : {"joined", "left", "host", "other"}, about : Nobody, of : Clients \cup {None}]
Frames == [event : Events, todo : SUBSET Clients, gone : SUBSET Clients,
           then : {"return", "announce", "succeed"}]

Unheld == [members |-> {}, alarm |-> FALSE]

TypeOK ==
  /\ who \in [Clients -> Nobody] /\ leaving \subseteq Clients
  /\ alarm \in BOOLEAN
  /\ stack \in Seq(Frames) /\ Len(stack) <= Cardinality(Clients) + 1
  /\ newcomer \in Clients \cup {None}
  /\ inbox \subseteq Clients \X BOOLEAN
  /\ before \in [members : SUBSET Clients, alarm : BOOLEAN]
  /\ seen \in [Clients -> SUBSET People] /\ host \in [Clients -> Nobody]
  /\ record \in People /\ announcing \in [Handlers -> Nobody]

Init ==
  /\ who = [c \in Clients |-> None] /\ leaving = {} /\ alarm = FALSE
  /\ stack = <<>> /\ newcomer = None /\ inbox = {} /\ before = Unheld
  /\ seen = [c \in Clients |-> {}] /\ host = [c \in Clients |-> None]
  /\ record = Owner /\ announcing = [q \in Handlers |-> None]

-----------------------------------------------------------------------------
(* Taking the mutex. *)

Event(kind, about, of) == [kind |-> kind, about |-> about, of |-> of]

\* A broadcast to be made, and the clients removed so far.
Frame(event, to, gone, then) == [event |-> event, todo |-> to, gone |-> gone, then |-> then]

Hold(c) ==
  /\ stack = <<>>
  /\ before' = [members |-> members, alarm |-> alarm]
  /\ newcomer' = c /\ inbox' = {}

Join(c, p) ==
  /\ Hold(c)
  /\ c \notin members \cup leaving
  /\ who' = [who EXCEPT ![c] = p] /\ alarm' = FALSE
  /\ stack' = <<Frame(Event("joined", p, c), members', {},
                      IF p = Owner THEN "announce" ELSE "return")>>
  /\ UNCHANGED <<leaving, toldVars, recordVars>>

\* Slip: the client is still in the map while the others are told that it left.
BroadcastFirst(c, below) ==
  /\ alarm' = (alarm \/ members = {c})
  /\ stack' = Append(below, Frame(Event("left", who[c], c), members, {c},
                                  IF who[c] = Owner THEN "succeed" ELSE "return"))
  /\ UNCHANGED <<who, toldVars>>

\* removeLocked, up to its first broadcast, on top of the broadcasts under way.  What
\* the client was told is forgotten.
RemoveLocked(c, below) ==
  /\ who' = [who EXCEPT ![c] = None]
  /\ seen' = [seen EXCEPT ![c] = {}] /\ host' = [host EXCEPT ![c] = None]
  /\ alarm' = (alarm \/ members' = {})
  /\ stack' = Append(below, Frame(Event("left", who[c], c), members', {c},
                                  IF who[c] = Owner THEN "succeed" ELSE "return"))

\* The watch expires or the handler leaves.
Remove(c) ==
  /\ Hold(None)
  /\ c \in members
  /\ RemoveLocked(c, <<>>)
  /\ UNCHANGED <<leaving, recordVars>>

PublishEvent(event) ==
  /\ Hold(None)
  /\ stack' = <<Frame(event, members, {}, "return")>>
  /\ UNCHANGED <<hubVars, leaving, toldVars>>

\* Handlers publish join requests, decisions and the end of the room.
Publish == PublishEvent(Event("other", None, None)) /\ UNCHANGED recordVars

-----------------------------------------------------------------------------
(* Under the mutex. *)

Depth == Len(stack)
Top == stack[Depth]

\* The clients the innermost loop has still to come to: those removed meanwhile are
\* not met, in whatever order a map is ranged over.
Ahead == Top.todo \cap members

Sent(c) == [stack EXCEPT ![Depth].todo = @ \ {c}]

\* Slip: a newcomer's buffer holds less than is sent.
AnyFull(c) == TRUE

\* An old client's buffer may be full, or the client closed.
Full(c) == c = newcomer => Cardinality(inbox) >= Buffer

Evict(c) ==
  /\ Depth > 0 /\ c \in Ahead
  /\ Full(c)
  /\ RemoveLocked(c, Sent(c))
  /\ UNCHANGED <<leaving, newcomer, inbox, before, recordVars>>

Deliver(c) ==
  /\ Depth > 0 /\ c \in Ahead
  /\ c = newcomer => Cardinality(inbox) < Buffer
  /\ stack' = Sent(c)
  /\ LET e == Top.event
     IN  /\ inbox' = IF c = newcomer THEN inbox \cup {<<e.of, e.kind = "host">>} ELSE inbox
         /\ seen' = [seen EXCEPT ![c] = CASE e.kind = "joined" -> @ \cup {e.about}
                                          [] e.kind = "left" -> @ \ {e.about}
                                          [] OTHER -> @]
         /\ host' = IF e.kind = "host" THEN [host EXCEPT ![c] = e.about] ELSE host
  /\ UNCHANGED <<hubVars, leaving, newcomer, before, recordVars>>

\* After an owner has joined it is the host; after one has left, anybody is.
Hosts ==
  CASE Top.then = "announce" -> {Owner}
    [] Top.then = "succeed" -> {who[d] : d \in members}
    [] Top.then = "return" -> {}

\* Slip: the loop over the candidates goes on.
AnnounceForEver(p) ==
  /\ Depth > 0 /\ Ahead = {} /\ p \in Hosts
  /\ stack' = [stack EXCEPT ![Depth] =
       Frame(Event("host", p, Top.event.of), members, Top.gone, Top.then)]
  /\ UNCHANGED <<hubVars, leaving, newcomer, inbox, before, toldVars, recordVars>>

AnnounceHost(p) ==
  /\ Depth > 0 /\ Ahead = {} /\ p \in Hosts
  /\ stack' = [stack EXCEPT ![Depth] =
       Frame(Event("host", p, Top.event.of), members, Top.gone, "return")]
  /\ UNCHANGED <<hubVars, leaving, newcomer, inbox, before, toldVars, recordVars>>

Below == SubSeq(stack, 1, Depth - 1)

\* Slip: what a nested removal returns is dropped.
ReturnNothing ==
  /\ Depth > 1 /\ Ahead = {} /\ Hosts = {}
  /\ stack' = Below
  /\ UNCHANGED <<hubVars, leaving, newcomer, inbox, before, toldVars, recordVars>>

\* A nested call returns what it removed to the broadcast it interrupted.
Return ==
  /\ Depth > 1 /\ Ahead = {} /\ Hosts = {}
  /\ stack' = [Below EXCEPT ![Depth - 1].gone = @ \cup Top.gone]
  /\ UNCHANGED <<hubVars, leaving, newcomer, inbox, before, toldVars, recordVars>>

\* The mutex is released, and whoever was removed is handed to cleanup.
Release ==
  /\ Depth = 1 /\ Ahead = {} /\ Hosts = {}
  /\ leaving' = leaving \cup Top.gone
  /\ stack' = <<>> /\ newcomer' = None /\ inbox' = {} /\ before' = Unheld
  /\ UNCHANGED <<hubVars, toldVars, recordVars>>

-----------------------------------------------------------------------------
(* Without the mutex. *)

Cleanup(c) ==
  /\ c \in leaving
  /\ leaving' = leaving \ {c}
  /\ UNCHANGED <<hubVars, holdVars, toldVars, recordVars>>

\* TransferStreamHost writes the record, and the handler publishes; one that was not
\* told of its success stays where it is.
Transfer(q, p) ==
  /\ announcing[q] = None
  /\ record' = p
  /\ announcing' = [announcing EXCEPT ![q] = p]
  /\ UNCHANGED <<hubVars, leaving, holdVars, toldVars>>

Announce(q) ==
  /\ announcing[q] # None
  /\ PublishEvent(Event("host", announcing[q], None))
  /\ announcing' = [announcing EXCEPT ![q] = None]
  /\ UNCHANGED record

-----------------------------------------------------------------------------
Locked ==
  \/ \E c \in Clients : Evict(c) \/ Deliver(c)
  \/ \E p \in People : AnnounceHost(p)
  \/ Return \/ Release

Next ==
  \/ \E c \in Clients, p \in People : Join(c, p)
  \/ \E c \in Clients : Remove(c) \/ Cleanup(c)
  \/ Publish \/ Locked
  \/ \E q \in Handlers : Announce(q) \/ \E p \in People : Transfer(q, p)

Spec == Init /\ [][Next]_vars

\* Whoever has the mutex goes on: Send does not block.
FairSpec == Spec /\ WF_vars(Locked)

-----------------------------------------------------------------------------
(* Properties. *)

\* When the mutex is free, everybody a client was told of, and not told that they left,
\* has a connection: evictions that interrupt a broadcast never let somebody's leaving
\* be overtaken by their joining.
NoGhosts ==
  stack = <<>> => \A c \in members : seen[c] \subseteq {who[d] : d \in members}

\* A hold of the mutex, seen from outside, is one step of Membership: nobody removed in
\* a nested call is forgotten by cleanup, the last to go sets the alarm, and a newcomer
\* survives its own join.
Committed == INSTANCE Membership WITH
  members <- IF stack = <<>> THEN members ELSE before.members,
  alarm <- IF stack = <<>> THEN alarm ELSE before.alarm
HoldsSpec == Committed!Spec

\* The recursion ends, and the mutex is released.
HoldEnds == stack # <<>> ~> stack = <<>>

Advances ==
  \/ members' \subseteq members /\ members' # members
  \/ /\ members' = members
     /\ \/ Depth' < Depth
        \/ /\ Depth' = Depth
           /\ \/ Top.then # "return" /\ Top'.then = "return"
              \/ /\ Top'.then = Top.then
                 /\ Top'.todo \subseteq Top.todo /\ Top'.todo # Top.todo

\* Why it ends: every change a hold makes to its broadcasts removes a client, or ends a
\* broadcast, or settles who is the host, or has one client less to send to, and gives up
\* nothing of what comes earlier in this list.  So evictions that broadcast and evict again
\* are no endless loop, whatever buffers are full.
HoldAdvances == [][stack # <<>> /\ stack' # stack => Advances]_vars

\* proj_docs/BACKEND_FINAL_PLAN.md:7 "Redis remains authoritative for ephemeral room,
\* queue, reservation, presence, and stream-host state."  When the hub is at rest and every
\* transfer was published, the host a client was told last is the one in the record.
HostAgrees ==
  stack = <<>> /\ (\A q \in Handlers : announcing[q] = None) =>
    \A c \in members : host[c] \in {None, record}
=============================================================================
