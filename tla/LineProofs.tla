------------------------------ MODULE LineProofs ------------------------------
(***************************************************************************)
(* The queue is a line, there is one first in it for the scripts to         *)
(* promote, and whatever the scripts and pipelines do to it is a step of    *)
(* WaitingLine.                                                             *)
(***************************************************************************)
EXTENDS QueueProofs, FiniteSetTheorems, WellFoundedInduction

\* QueueOrdered without its first conjunct, which is about the hashes.
Ordered ==
  /\ \A s \in Sessions : ahead[s] \subseteq Placed \ {s} /\ (s \notin Placed => ahead[s] = {})
  /\ \A s, t \in Placed : s # t => (s \in ahead[t] <=> t \notin ahead[s])
  /\ \A t \in Placed : \A s \in ahead[t] : ahead[s] \subseteq ahead[t]

\* Whoever read the clock in an earlier millisecond is ahead of those of the present one.
InstantLast ==
  /\ instant \subseteq Placed
  /\ \A t \in instant : Placed \ instant \subseteq ahead[t]

\* A session without a hash has no heartbeat, so that one that joins is not stale.
StaleKnown == \A s \in stale : status[s] # "none"

\* The inductive invariant: ReservationInv is what keeps the prunings off the queue and off
\* those about to enter it, InstantLast what makes a lot among the last a place for all.
LineInv == ReservationInv /\ QueueOrdered /\ InstantLast /\ StaleKnown /\ IsFiniteSet(queue)

waiters == {s \in queue : status[s] = "waiting" /\ s \notin stale}
holders == {s \in Sessions : status[s] = "reserved"}

-----------------------------------------------------------------------------
(* The order. *)

\* The pruning of lapsed reservations finds nobody in the queue or about to enter it.
LEMMA EvictedUnplaced ==
  ASSUME ReservationInv
  PROVE  Evicted \cap queue = {} /\ Evicted \cap joining = {} /\ Live = waiters
  <1>1. \A s \in Evicted : s \notin queue /\ s \notin joining
    BY NoneAssumption DEF ReservationInv, StoreConsistent, JoiningUnknown, TypeOK, Evicted
  <1> QED
    BY <1>1 DEF Live, waiters

LEMMA ForgetOrdered ==
  ASSUME TypeOK, Ordered, InstantLast, NEW gone, Forget(gone), Placed' = Placed \ gone
  PROVE  Ordered' /\ InstantLast'
  <1>1. \A s \in Sessions : ahead'[s] = IF s \in gone THEN {} ELSE ahead[s] \ gone
    BY DEF Forget
  <1>2. Placed \subseteq Sessions /\ instant' = instant \ gone /\ Placed' = Placed \ gone
    BY DEF TypeOK, Placed, Forget
  <1>3. Ordered'
    <2>1. \A s \in Sessions : /\ ahead'[s] \subseteq Placed' \ {s}
                              /\ s \notin Placed' => ahead'[s] = {}
      <3>1. TAKE s \in Sessions
      <3>2. ahead[s] \subseteq Placed \ {s} /\ (s \notin Placed => ahead[s] = {})
        BY DEF Ordered
      <3> QED
        BY <1>1, <1>2, <3>2
    <2>2. \A s, t \in Placed' : s # t => (s \in ahead'[t] <=> t \notin ahead'[s])
      <3>1. TAKE s, t \in Placed'
      <3>2. s \in Placed /\ t \in Placed /\ s \notin gone /\ t \notin gone
        BY <1>2
      <3>3. s # t => (s \in ahead[t] <=> t \notin ahead[s])
        BY <3>2 DEF Ordered
      <3> QED
        BY <1>1, <1>2, <3>2, <3>3
    <2>3. \A t \in Placed' : \A s \in ahead'[t] : ahead'[s] \subseteq ahead'[t]
      <3>1. SUFFICES ASSUME NEW t \in Placed', NEW s \in ahead'[t]
                     PROVE  ahead'[s] \subseteq ahead'[t]
        OBVIOUS
      <3>2. t \in Placed /\ t \in Sessions /\ t \notin gone /\ s \in ahead[t] /\ s \notin gone
        BY <1>1, <1>2, <3>1
      <3>3. s \in Sessions /\ ahead[s] \subseteq ahead[t]
        BY <1>2, <3>2 DEF Ordered
      <3> QED
        BY <1>1, <3>2, <3>3
    <2> QED
      BY <2>1, <2>2, <2>3 DEF Ordered
  <1>4. InstantLast'
    BY <1>1, <1>2 DEF InstantLast
  <1> QED
    BY <1>3, <1>4

\* Nobody who is about to enter is struck off with those in the queue.
LEMMA DequeueOrdered ==
  ASSUME TypeOK, Ordered, InstantLast, NEW gone, gone \cap joining = {}, Dequeue(gone)
  PROVE  Ordered' /\ InstantLast'
  BY ForgetOrdered DEF Dequeue, Placed

\* Whoever reads the clock comes after all but some of the last millisecond's.
LEMMA JoinOrdered ==
  ASSUME TypeOK, Ordered, InstantLast, NEW s \in Sessions, Join(s)
  PROVE  Ordered' /\ InstantLast'
  <1>1. PICK after \in SUBSET instant :
          /\ \A t \in after : instant \ after \subseteq ahead[t]
          /\ ahead' = [t \in Sessions |-> IF t = s THEN Placed \ after
                         ELSE IF t \in after THEN ahead[t] \cup {s} ELSE ahead[t]]
    BY DEF Join
  <1>2. /\ s \notin Placed /\ Placed' = Placed \cup {s} /\ instant' = instant \cup {s}
        /\ Placed \subseteq Sessions
    BY DEF Join, FreshSession, Placed, TypeOK
  <1>3. \A t \in after : t \in Placed /\ Placed \ after \subseteq ahead[t]
    BY <1>1 DEF InstantLast
  <1>4. \A t \in Placed \ after : ahead[t] \cap after = {}
    BY <1>3 DEF Ordered
  <1>5. \A t \in Placed' \ {s} : ahead'[t] = IF t \in after THEN ahead[t] \cup {s} ELSE ahead[t]
    BY <1>1, <1>2
  <1>6. ahead'[s] = Placed \ after
    BY <1>1
  <1>7. \A t \in Sessions : /\ ahead'[t] \subseteq Placed' \ {t}
                            /\ t \notin Placed' => ahead'[t] = {}
    BY <1>1, <1>2, <1>3 DEF Ordered
  <1>8. \A t, x \in Placed' : t # x => (t \in ahead'[x] <=> x \notin ahead'[t])
    <2>1. \A x \in Placed : s \in ahead'[x] <=> x \notin ahead'[s]
      <3>1. \A x \in Placed : s \notin ahead[x]
        BY <1>2 DEF Ordered
      <3> QED
        BY <1>2, <1>5, <1>6, <3>1
    <2>2. \A t, x \in Placed : t # x => (t \in ahead'[x] <=> x \notin ahead'[t])
      <3>1. TAKE t, x \in Placed
      <3>2. t # x => (t \in ahead[x] <=> x \notin ahead[t])
        BY DEF Ordered
      <3> QED
        BY <1>2, <1>5, <3>2
    <2> QED
      BY <1>2, <2>1, <2>2
  <1>9. ASSUME NEW t \in Placed', NEW x \in ahead'[t] PROVE ahead'[x] \subseteq ahead'[t]
    <2>1. CASE t = s
      <3>1. x \in Placed \ after /\ x # s
        BY <1>2, <1>6, <1>9, <2>1
      <3>2. ahead'[x] = ahead[x] /\ ahead[x] \subseteq Placed
        BY <1>2, <1>5, <3>1 DEF Ordered
      <3> QED
        BY <1>4, <1>6, <2>1, <3>1, <3>2
    <2>2. CASE t \in after
      <3>1. t # s /\ ahead'[t] = ahead[t] \cup {s}
        BY <1>2, <1>3, <1>5, <2>2
      <3>2. CASE x = s
        BY <1>3, <1>6, <2>2, <3>1, <3>2
      <3>3. CASE x # s
        <4>1. x \in ahead[t] /\ x \in Placed /\ t \in Placed
          BY <1>2, <1>3, <1>9, <2>2, <3>1, <3>3 DEF Ordered
        <4>2. ahead[x] \subseteq ahead[t]
          BY <4>1 DEF Ordered
        <4> QED
          BY <1>2, <1>5, <3>1, <3>3, <4>1, <4>2
      <3> QED
        BY <3>2, <3>3
    <2>3. CASE t # s /\ t \notin after
      <3>1. t \in Placed /\ ahead'[t] = ahead[t] /\ x \in ahead[t]
        BY <1>2, <1>5, <1>9, <2>3
      <3>2. x \in Placed /\ x \notin after /\ x # s
        BY <1>2, <1>4, <2>3, <3>1 DEF Ordered
      <3> QED
        BY <1>2, <1>5, <3>1, <3>2 DEF Ordered
    <2> QED
      BY <2>1, <2>2, <2>3
  <1>10. InstantLast'
    <2>1. ASSUME NEW t \in instant PROVE Placed' \ instant' \subseteq ahead'[t]
      BY <1>2, <1>5, <2>1 DEF InstantLast
    <2>2. Placed' \ instant' \subseteq ahead'[s]
      BY <1>2, <1>6
    <2> QED
      BY <1>2, <2>1, <2>2 DEF InstantLast
  <1>11. Ordered'
    BY <1>7, <1>8, <1>9 DEF Ordered
  <1> QED
    BY <1>10, <1>11

\* Who is struck off the queue loses the hash as well, or is granted a slot.
LEMMA PruneLine ==
  ASSUME LineInv, NEW gone, gone \cap joining = {}, DropSessions(gone), Dequeue(gone)
  PROVE  QueueOrdered' /\ InstantLast' /\ StaleKnown' /\ IsFiniteSet(queue')
  <1>1. Ordered' /\ InstantLast'
    BY DequeueOrdered DEF LineInv, ReservationInv, QueueOrdered, Ordered
  <1>2. \A s \in Sessions : status'[s] = "waiting" => s \in queue'
    BY DEF LineInv, QueueOrdered, DropSessions, Dequeue
  <1>3. StaleKnown'
    BY DEF LineInv, ReservationInv, TypeOK, StaleKnown, DropSessions
  <1>4. IsFiniteSet(queue')
    BY FS_Subset DEF LineInv, Dequeue
  <1> QED
    BY <1>1, <1>2, <1>3, <1>4 DEF QueueOrdered, Ordered

LEMMA PromotionLine ==
  ASSUME LineInv, NEW open, Promotion(open)
  PROVE  QueueOrdered' /\ InstantLast' /\ StaleKnown' /\ IsFiniteSet(queue')
  <1>1. PICK w \in Winners(open) :
          IF w = None THEN PruneAndPromote(open, None, None)
          ELSE \E v \in Reservations : PruneAndPromote(open, w, v)
    BY DEF Promotion
  <1>2. (Evicted \cup Popped(open, w)) \cap joining = {}
    BY PoppedQueued, EvictedUnplaced DEF LineInv, ReservationInv, JoiningUnknown
  <1>3. CASE w = None
    BY <1>1, <1>2, <1>3, PruneLine DEF PruneAndPromote
  <1>4. CASE w # None
    <2> DEFINE gone == Evicted \cup Popped(open, w)
    <2>1. w \in queue /\ SlotFree(open)
      BY <1>4 DEF Winners, Live
    <2>2. w \in gone
      BY <1>4, <2>1 DEF Popped
    <2>3. /\ Dequeue(gone) /\ gone \cap joining = {}
          /\ status' = [s \in Sessions |-> IF s = w THEN "reserved"
                          ELSE IF s \in gone \ {w} THEN "none" ELSE status[s]]
          /\ stale' = stale \ (gone \ {w})
      BY <1>1, <1>2, <1>4 DEF PruneAndPromote
    <2> HIDE DEF gone
    <2>4. Ordered' /\ InstantLast'
      BY <2>3, DequeueOrdered DEF LineInv, ReservationInv, QueueOrdered, Ordered
    <2>5. \A s \in Sessions : status'[s] = "waiting" => s \in queue'
      BY <2>2, <2>3 DEF LineInv, QueueOrdered, Dequeue
    <2>6. StaleKnown'
      BY <2>3 DEF LineInv, ReservationInv, TypeOK, StaleKnown
    <2>7. IsFiniteSet(queue')
      BY <2>3, FS_Subset DEF LineInv, Dequeue
    <2> QED
      BY <2>4, <2>5, <2>6, <2>7 DEF QueueOrdered, Ordered
  <1> QED
    BY <1>3, <1>4

LEMMA LineInit == Init => LineInv
  BY ReservationInit, FS_EmptySet DEF Init, LineInv, QueueOrdered, Placed, InstantLast, StaleKnown

LEMMA LineInvStep == LineInv /\ [Next]_vars => LineInv'
  <1> SUFFICES ASSUME LineInv, [Next]_vars
               PROVE  QueueOrdered' /\ InstantLast' /\ StaleKnown' /\ IsFiniteSet(queue')
    BY ReservationStep DEF LineInv
  <1> DEFINE Goal == QueueOrdered' /\ InstantLast' /\ StaleKnown' /\ IsFiniteSet(queue')
  <1>1. ASSUME UNCHANGED sessionVars PROVE Goal
    BY <1>1 DEF sessionVars, lineVars, LineInv, QueueOrdered, Placed, InstantLast, StaleKnown
  <1>2. ASSUME NEW s \in Sessions, Join(s) PROVE Goal
    <2>1. Ordered' /\ InstantLast'
      BY <1>2, JoinOrdered DEF LineInv, ReservationInv, QueueOrdered, Ordered
    <2> QED
      BY <1>2, <2>1 DEF Join, LineInv, QueueOrdered, Ordered, StaleKnown
  <1>3. ASSUME NEW s \in Sessions, NEW r \in Rooms, ClaimRoom(s, r) PROVE Goal
    <2>1. (Evicted \cup {s}) \cap joining = {}
      BY <1>3, EvictedUnplaced
         DEF ClaimRoom, Claimable, LineInv, ReservationInv, JoiningUnknown
    <2> QED
      BY <1>3, <2>1, PruneLine DEF ClaimRoom, PruneSessions
  <1>4. ASSUME RefuseClaim PROVE Goal
    BY <1>4, PruneLine, EvictedUnplaced DEF RefuseClaim, PruneSessions, LineInv
  <1>5. ASSUME NEW r \in Rooms, CreateRoom(r) PROVE Goal
    BY <1>5, PromotionLine DEF CreateRoom
  <1>6. ASSUME NEW q \in Requests, PromoteNext(q) PROVE Goal
    BY <1>6, PromotionLine DEF PromoteNext
  <1>7. ASSUME NEW q \in Requests, EndRoom(q) PROVE Goal
    BY <1>7, PromotionLine DEF EndRoom
  <1>8. ASSUME NEW q \in Requests, RemoveSession(q) PROVE Goal
    <2>1. {call[q].session} \cap joining = {}
      BY <1>8 DEF RemoveSession, LineInv, ReservationInv, CallConsistent
    <2> QED
      BY <1>8, <2>1, PruneLine DEF RemoveSession
  <1>9. ASSUME NEW q \in Requests, Beat(q) PROVE Goal
    <2>1. call[q].session \in Sessions
      BY <1>9, CallTypes DEF Beat, LineInv, ReservationInv, TypeOK
    <2> QED
      BY <1>9, <2>1 DEF Beat, LineInv, ReservationInv, TypeOK, QueueOrdered, Placed, InstantLast,
           StaleKnown, lineVars
  <1>10. ASSUME NEW s \in Sessions, HeartbeatDeadline(s) PROVE Goal
    BY <1>10 DEF HeartbeatDeadline, LineInv, QueueOrdered, Placed, InstantLast, StaleKnown, lineVars
  <1>11. ASSUME NEW s \in Sessions, ExpireSessionKey(s) PROVE Goal
    BY <1>11 DEF ExpireSessionKey, DropSessions, LineInv, ReservationInv, TypeOK, QueueOrdered,
                 Placed, InstantLast, StaleKnown, lineVars
  <1>12. ASSUME NEW s \in Sessions, Enqueue(s) PROVE Goal
    <2>1. s \in joining /\ Placed' = Placed /\ UNCHANGED <<ahead, instant, stale>>
      BY <1>12 DEF Enqueue, Placed
    <2>2. \A t \in Sessions : status'[t] = "waiting" => t \in queue'
      BY <1>12 DEF Enqueue, LineInv, ReservationInv, TypeOK, QueueOrdered
    <2>3. StaleKnown'
      BY <1>12 DEF Enqueue, LineInv, ReservationInv, TypeOK, StaleKnown
    <2>4. IsFiniteSet(queue')
      BY <1>12, FS_AddElement DEF Enqueue, LineInv
    <2> QED
      BY <2>1, <2>2, <2>3, <2>4 DEF LineInv, QueueOrdered, InstantLast
  <1>13. ASSUME NEW s \in Sessions, JoinFails(s) PROVE Goal
    <2>1. Placed' = Placed \ {s} /\ Forget({s}) /\ UNCHANGED <<status, queue, stale>>
      BY <1>13 DEF JoinFails, Placed, LineInv, ReservationInv, JoiningUnknown
    <2>2. Ordered' /\ InstantLast'
      BY <2>1, ForgetOrdered DEF LineInv, ReservationInv, QueueOrdered, Ordered
    <2> QED
      BY <2>1, <2>2 DEF LineInv, QueueOrdered, Ordered, StaleKnown
  <1>14. ASSUME ClockTicks PROVE Goal
    BY <1>14 DEF ClockTicks, LineInv, QueueOrdered, Placed, InstantLast, StaleKnown
  <1> QED
    BY <1>1, <1>2, <1>3, <1>4, <1>5, <1>6, <1>7, <1>8, <1>9, <1>10, <1>11,
       <1>12, <1>13, <1>14
       DEF Next, QueueStep, RoomStep, Progress, Deadline, ReadStatus, CheckStatus,
           ReadRoomToEnd, ReadRoomToTransfer, UpdateRoom, Abandon, RemoveFails, RoomDeadline,
           ReservationDeadline, ExpireReservationKey, vars

LEMMA LineInvariant == Spec => []LineInv
  BY LineInit, LineInvStep, PTL DEF Spec

\* queue/service.go:63, 113-117, rooms/redis_store.go:55: with any number of sessions the queue
\* stays a line, whoever was taken out of its middle or put into it, and every session that reads
\* "waiting" is in it.
THEOREM QueueIsALine == Spec => []QueueOrdered
  <1>1. LineInv => QueueOrdered
    BY DEF LineInv
  <1> QED
    BY <1>1, LineInvariant, PTL

-----------------------------------------------------------------------------
(* The first. *)

LEMMA FirstExists ==
  ASSUME TypeOK, Ordered, IsFiniteSet(queue), NEW some, some \subseteq queue, some # {}
  PROVE  \E w \in some : /\ ahead[w] \cap some = {}
                         /\ \A x \in some : ahead[x] \cap some = {} => x = w
  <1> DEFINE earlier == {ahead[w] \cap some : w \in some}
             Less == StrictSubsetOrdering(queue)
  <1>1. \A w \in some : w \in Sessions /\ w \in Placed /\ w \notin ahead[w]
    BY DEF TypeOK, Ordered, Placed
  <1>2. earlier \subseteq FiniteSubsetsOf(queue) /\ earlier # {}
    <2>1. ASSUME NEW w \in some PROVE ahead[w] \cap some \in FiniteSubsetsOf(queue)
      BY <1>1, FS_Subset DEF FiniteSubsetsOf
    <2> QED
      BY <2>1
  <1>3. IsWellFoundedOn(Less, FiniteSubsetsOf(queue))
    BY FS_StrictSubsetOrderingWellFounded
  <1>4. PICK e \in earlier : \A d \in earlier : <<d, e>> \notin Less
    <2> HIDE DEF earlier, Less
    <2> QED
      BY <1>2, <1>3, WFMin
  <1>5. PICK w \in some : e = ahead[w] \cap some
    OBVIOUS
  <1>6. ASSUME NEW x \in ahead[w] \cap some PROVE FALSE
    <2> DEFINE d == ahead[x] \cap some
    <2>1. ahead[x] \subseteq ahead[w] /\ x \notin ahead[x]
      BY <1>1, <1>6 DEF Ordered
    <2>2. d \in earlier /\ d \subseteq queue /\ e \subseteq queue /\ d \subseteq e /\ d # e
      BY <1>5, <1>6, <2>1
    <2>3. <<d, e>> \in Less
      <3> HIDE DEF d
      <3> QED
        BY <2>2 DEF StrictSubsetOrdering
    <2> QED
      BY <1>4, <2>2, <2>3
  <1>7. ASSUME NEW x \in some, ahead[x] \cap some = {}, x # w PROVE FALSE
    <2>1. w \in ahead[x] \/ x \in ahead[w]
      BY <1>1, <1>7 DEF Ordered
    <2> QED
      BY <1>6, <1>7, <2>1
  <1> QED
    BY <1>6, <1>7

\* queue/service.go:63-79: whatever the state of the queue, the loop over ZPOPMIN comes to one
\* end: with a free slot and somebody fit there is exactly one winner.
THEOREM OneWinner ==
  Spec => [](\A open \in SUBSET Rooms : \E w \in Winners(open) : Winners(open) = {w})
  <1>1. LineInv => \A open \in SUBSET Rooms : \E w \in Winners(open) : Winners(open) = {w}
    <2> SUFFICES ASSUME LineInv, NEW open \in SUBSET Rooms
                 PROVE  \E w \in Winners(open) : Winners(open) = {w}
      OBVIOUS
    <2>1. CASE SlotFree(open) /\ Live # {}
      <3>1. Live \subseteq queue
        BY DEF Live
      <3>2. PICK w \in Live : /\ ahead[w] \cap Live = {}
                              /\ \A x \in Live : ahead[x] \cap Live = {} => x = w
        BY <2>1, <3>1, FirstExists DEF LineInv, ReservationInv, QueueOrdered, Ordered
      <3> QED
        BY <2>1, <3>2 DEF Winners
    <2>2. CASE ~(SlotFree(open) /\ Live # {})
      BY <2>2 DEF Winners
    <2> QED
      BY <2>1, <2>2
  <1> QED
    BY <1>1, LineInvariant, PTL

-----------------------------------------------------------------------------
(* The steps of the line. *)

\* Striking off some that have no place in the order does not change it.
LEMMA DequeueLeaves ==
  ASSUME LineInv, NEW gone, NEW dead, gone \cap Placed = {}, Dequeue(gone \cup dead)
  PROVE  Line!Leave(dead)
  <1>1. \A s \in Sessions : /\ ahead[s] \cap gone = {}
                            /\ s \in gone => ahead[s] = {}
    BY DEF LineInv, QueueOrdered, Placed
  <1>2. queue' = queue \ dead /\ joining' = joining
    BY DEF Dequeue, Placed
  <1>3. ahead' = [s \in Sessions |-> IF s \in dead THEN {} ELSE ahead[s] \ dead]
    BY <1>1 DEF Dequeue, Forget
  <1>4. instant' = instant \ dead
    BY DEF Dequeue, Forget, LineInv, InstantLast, Placed
  <1> QED
    BY <1>2, <1>3, <1>4 DEF Line!Leave, Line!Void

LEMMA PruneSweeps ==
  ASSUME LineInv, NEW gone, NEW dead, gone \cap Placed = {},
         dead \subseteq queue, dead \cap waiters = {},
         DropSessions(gone \cup dead), Dequeue(gone \cup dead)
  PROVE  Line!Next
  <1>1. Line!Leave(dead)
    BY DequeueLeaves
  <1>2. waiters' = waiters
    BY DEF DropSessions, Dequeue, Placed, waiters, LineInv, ReservationInv, TypeOK
  <1>3. PICK kept \in SUBSET holders : kept = holders'
    BY DEF DropSessions, holders
  <1>4. Line!Sweep(dead, kept)
    BY <1>1, <1>2, <1>3 DEF Line!Sweep, waiters, holders
  <1> QED
    BY <1>4 DEF Line!Next, holders

LEMMA PromotionServes ==
  ASSUME LineInv, NEW open, Promotion(open)
  PROVE  Line!Next
  <1>1. PICK w \in Winners(open) :
          IF w = None THEN PruneAndPromote(open, None, None)
          ELSE \E v \in Reservations : PruneAndPromote(open, w, v)
    BY DEF Promotion
  <1>2. Evicted \cap Placed = {} /\ Evicted \cap queue = {} /\ Live = waiters
    BY EvictedUnplaced DEF LineInv, Placed
  <1>3. \A s \in queue : s # None
    BY NoneAssumption DEF LineInv, ReservationInv, TypeOK
  <1>4. CASE w = None
    <2>1. Popped(open, w) \subseteq queue /\ Popped(open, w) \cap waiters = {}
      BY <1>2, <1>3, <1>4 DEF Popped, Winners, waiters
    <2> QED
      BY <1>1, <1>2, <1>4, <2>1, PruneSweeps DEF PruneAndPromote
  <1>5. CASE w # None
    <2> DEFINE gone == {w} \cup (ahead[w] \cap queue)
    <2>1. w \in waiters /\ ahead[w] \cap waiters = {} /\ Popped(open, w) = gone
      BY <1>2, <1>5 DEF Winners, Popped
    <2>2. w \in Sessions /\ w \in queue /\ w \notin ahead[w]
      BY <2>1 DEF waiters, LineInv, ReservationInv, TypeOK, QueueOrdered
    <2>3. /\ Dequeue(Evicted \cup gone)
          /\ status' = [s \in Sessions |-> IF s = w THEN "reserved"
                          ELSE IF s \in (Evicted \cup gone) \ {w} THEN "none" ELSE status[s]]
          /\ stale' = stale \ ((Evicted \cup gone) \ {w})
      BY <1>1, <1>5, <2>1 DEF PruneAndPromote
    <2>4. Line!Leave(gone)
      BY <1>2, <2>3, DequeueLeaves
    <2>5. waiters' = waiters \ {w}
      BY <1>2, <2>1, <2>2, <2>3 DEF waiters, Dequeue, LineInv, ReservationInv, TypeOK
    <2>6. PICK kept \in SUBSET holders : holders' = kept \cup {w}
      <3>1. holders' \ {w} \in SUBSET holders /\ w \in holders'
        BY <2>2, <2>3 DEF holders
      <3>2. holders' = (holders' \ {w}) \cup {w}
        BY <3>1
      <3> QED
        BY <3>1, <3>2
    <2>7. Line!Serve(w, kept)
      BY <2>1, <2>4, <2>5, <2>6 DEF Line!Serve, waiters, holders
    <2> QED
      BY <2>2, <2>7 DEF Line!Next, holders
  <1> QED
    BY <1>4, <1>5

LEMMA LineStep == LineInv /\ [Next]_vars => [Line!Next]_(Line!lineVars)
  <1> SUFFICES ASSUME LineInv, [Next]_vars
               PROVE  [Line!Next]_(Line!lineVars)
    OBVIOUS
  <1>1. ASSUME UNCHANGED sessionVars PROVE UNCHANGED Line!lineVars
    BY <1>1 DEF sessionVars, lineVars, Line!lineVars
  <1>2. ASSUME NEW s \in Sessions, Join(s) PROVE Line!Next
    <2>1. s \notin Placed /\ s \notin holders /\ UNCHANGED <<queue, status, stale>>
      BY <1>2 DEF Join, FreshSession, holders
    <2>2. Line!Draw(s)
      BY <1>2, <2>1 DEF Join, Placed, Line!Draw, holders
    <2> QED
      BY <2>2 DEF Line!Next
  <1>3. ASSUME NEW s \in Sessions, NEW r \in Rooms, ClaimRoom(s, r) PROVE Line!Next
    <2>1. s \notin Placed
      BY <1>3 DEF ClaimRoom, Claimable, LineInv, ReservationInv, StoreConsistent,
           JoiningUnknown, Placed
    <2>2. (Evicted \cup {s}) \cap Placed = {}
      BY <2>1, EvictedUnplaced DEF LineInv, Placed
    <2>3. Evicted \cup {s} = (Evicted \cup {s}) \cup {}
      OBVIOUS
    <2> QED
      BY <1>3, <2>2, <2>3, PruneSweeps DEF ClaimRoom, PruneSessions
  <1>4. ASSUME RefuseClaim PROVE Line!Next
    BY <1>4, PruneSweeps, EvictedUnplaced DEF RefuseClaim, PruneSessions, LineInv, Placed
  <1>5. ASSUME NEW r \in Rooms, CreateRoom(r) PROVE Line!Next
    BY <1>5, PromotionServes DEF CreateRoom
  <1>6. ASSUME NEW q \in Requests, PromoteNext(q) \/ EndRoom(q) PROVE Line!Next
    BY <1>6, PromotionServes DEF PromoteNext, EndRoom
  <1>7. ASSUME NEW q \in Requests, RemoveSession(q) PROVE Line!Next
    <2>1. PICK s \in Sessions : s = call[q].session
      BY <1>7, CallTypes DEF RemoveSession, LineInv, ReservationInv, TypeOK
    <2>2. DropSessions({s}) /\ Dequeue({s})
      BY <1>7, <2>1 DEF RemoveSession
    <2>3. Line!Leave({s})
      BY <2>2 DEF Line!Leave, Line!Void, Dequeue, Forget
    <2>4. waiters' = waiters \ {s} /\ holders' = holders \ {s}
      BY <2>2 DEF DropSessions, Dequeue, waiters, holders, LineInv, ReservationInv, TypeOK
    <2>5. Line!Depart(s)
      BY <2>3, <2>4 DEF Line!Depart, waiters, holders
    <2> QED
      BY <2>5 DEF Line!Next
  <1>8. ASSUME NEW s \in Sessions, HeartbeatDeadline(s) PROVE Line!Next
    <2>1. /\ waiters' = waiters \ {s} /\ holders' = holders
          /\ UNCHANGED <<queue, joining, ahead, instant>>
      BY <1>8 DEF HeartbeatDeadline, waiters, holders, lineVars
    <2>2. Line!Fade(s)
      BY <2>1 DEF Line!Fade, waiters, holders
    <2> QED
      BY <2>2 DEF Line!Next
  <1>9. ASSUME NEW s \in Sessions, ExpireSessionKey(s) PROVE Line!Next
    <2>1. /\ waiters' = waiters \ {s} /\ holders' = holders \ {s}
          /\ UNCHANGED <<queue, joining, ahead, instant>>
      BY <1>9 DEF ExpireSessionKey, DropSessions, waiters, holders, LineInv, ReservationInv, TypeOK,
           lineVars
    <2>2. Line!Fade(s)
      BY <2>1 DEF Line!Fade, waiters, holders
    <2> QED
      BY <2>2 DEF Line!Next
  <1>10. ASSUME NEW q \in Requests, Beat(q) PROVE [Line!Next]_(Line!lineVars)
    <2>1. PICK s \in Sessions : s = call[q].session
      BY <1>10, CallTypes DEF Beat, LineInv, ReservationInv, TypeOK
    <2>2. /\ status' = [status EXCEPT ![s] = IF @ = "none" THEN "ghost" ELSE @]
          /\ stale' = stale \ {s} /\ UNCHANGED <<queue, joining, ahead, instant>>
      BY <1>10, <2>1 DEF Beat, lineVars
    <2>3. holders' = holders
      BY <2>1, <2>2 DEF holders, LineInv, ReservationInv, TypeOK
    <2>4. CASE s \in queue /\ status[s] = "waiting"
      <3>1. waiters' = waiters \cup {s}
        BY <2>1, <2>2, <2>4 DEF waiters, LineInv, ReservationInv, TypeOK
      <3>2. Line!Revive(s)
        BY <2>2, <2>3, <2>4, <3>1 DEF Line!Revive, waiters, holders
      <3> QED
        BY <3>2 DEF Line!Next
    <2>5. CASE ~(s \in queue /\ status[s] = "waiting")
      <3>1. waiters' = waiters
        BY <2>1, <2>2, <2>5 DEF waiters, LineInv, ReservationInv, TypeOK
      <3> QED
        BY <2>2, <2>3, <3>1 DEF Line!lineVars, waiters, holders
    <2> QED
      BY <2>4, <2>5
  <1>11. ASSUME NEW s \in Sessions, Enqueue(s) PROVE Line!Next
    <2>1. s \in joining /\ s \notin queue /\ status[s] = "none" /\ s \notin stale
      BY <1>11 DEF Enqueue, LineInv, ReservationInv, JoiningUnknown, StaleKnown
    <2>2. /\ waiters' = waiters \cup {s} /\ holders' = holders
          /\ queue' = queue \cup {s} /\ joining' = joining \ {s}
          /\ UNCHANGED <<ahead, instant>>
      BY <1>11, <2>1 DEF Enqueue, waiters, holders, LineInv, ReservationInv, TypeOK
    <2>3. Line!Enter(s)
      BY <2>1, <2>2 DEF Line!Enter, waiters, holders
    <2> QED
      BY <2>3 DEF Line!Next
  <1>12. ASSUME NEW s \in Sessions, JoinFails(s) PROVE Line!Next
    <2>1. Line!GiveUp(s)
      BY <1>12 DEF JoinFails, Forget, Line!GiveUp, Line!Void
    <2> QED
      BY <2>1 DEF Line!Next
  <1>13. ASSUME ClockTicks PROVE Line!Next
    <2>1. Line!Tick
      BY <1>13 DEF ClockTicks, Line!Tick
    <2> QED
      BY <2>1 DEF Line!Next
  <1> QED
    BY <1>1, <1>2, <1>3, <1>4, <1>5, <1>6, <1>7, <1>8, <1>9, <1>10, <1>11,
       <1>12, <1>13
       DEF Next, QueueStep, RoomStep, Progress, Deadline, ReadStatus, CheckStatus,
           ReadRoomToEnd, ReadRoomToTransfer, UpdateRoom, Abandon, RemoveFails, RoomDeadline,
           ReservationDeadline, ExpireReservationKey, vars

\* queue/service.go, rooms/redis_store.go: four scripts, two pipelines, the clock that joins read
\* before theirs and the expiry of keys are together a waiting line: whoever waits and sends
\* heartbeats is passed only by those whose joins read the clock before, or in the same
\* millisecond, and leaves only for a slot or by requests of their own.
THEOREM CapacityImplementsLine == Spec => LineSpec
  <1>1. Init => Line!Init
    BY DEF Init, Line!Init
  <1> QED
    BY <1>1, LineStep, LineInvariant, PTL DEF Spec, LineSpec, Line!Spec
=============================================================================
