-------------------------- MODULE BroadcastProofs --------------------------
(***************************************************************************)
(* Proofs about Broadcast, for any number of clients, people and handlers   *)
(* and any buffer that holds two events per client.                         *)
(***************************************************************************)
EXTENDS Broadcast, FiniteSetTheorems, SequenceTheorems, TLAPS

Levels == 1 .. Len(stack)

Types ==
  /\ who \in [Clients -> Nobody] /\ leaving \subseteq Clients
  /\ alarm \in BOOLEAN
  /\ stack \in Seq(Frames)
  /\ newcomer \in Clients \cup {None}
  /\ inbox \subseteq Clients \X BOOLEAN
  /\ before \in [members : SUBSET Clients, alarm : BOOLEAN]
  /\ seen \in [Clients -> SUBSET People] /\ host \in [Clients -> Nobody]
  /\ record \in People /\ announcing \in [Handlers -> Nobody]

\* A frame is about a client that is out of the map, or about the newcomer, or about
\* nobody if a handler publishes.  What it has still to send to the newcomer is not in
\* the newcomer's buffer yet.
FrameInv(f) ==
  /\ f.event.kind = "host" => f.then = "return"
  /\ f.event.of \in members => f.event.of = newcomer
  /\ newcomer # None => f.event.of # None
  /\ f.event.kind = "joined" =>
       newcomer # None /\ f.event.of = newcomer /\ f.event.about = who[newcomer]
  /\ newcomer \in f.todo => <<f.event.of, f.event.kind = "host">> \notin inbox
  /\ newcomer # None /\ f.then # "return" => <<f.event.of, TRUE>> \notin inbox

StackInv ==
  /\ \A i \in Levels : FrameInv(stack[i])
  /\ \A i \in Levels : i # 1 => stack[i].event.of \in Clients \ {newcomer}
  /\ \A i, j \in Levels : stack[i].event.of = stack[j].event.of => i = j

\* The newcomer survives, and its buffer holds events about itself and the removed.
NewcomerInv ==
  /\ newcomer # None => /\ stack # <<>> /\ newcomer \in members
                        /\ newcomer \notin before.members \cup leaving
  /\ \A o \in Clients, h \in BOOLEAN :
       <<o, h>> \in inbox => newcomer # None /\ (o \in members => o = newcomer)

\* Whoever was told of somebody who is gone is about to be told of that, too.
Pending(c, p) ==
  \E i \in Levels :
    stack[i].event.kind = "left" /\ stack[i].event.about = p /\ c \in stack[i].todo

SeenInv ==
  /\ \A c \in members : \A p \in seen[c] : (\E d \in members : who[d] = p) \/ Pending(c, p)
  /\ \A c \in Clients \ members : seen[c] = {}

\* What a hold has done so far, against what it found.
HoldInv ==
  /\ alarm => members = {}
  /\ stack # <<>> =>
       /\ members \subseteq before.members \cup {newcomer}
       /\ \A c \in Clients : c \in before.members \ members <=>
            \E i \in Levels : c \in stack[i].gone
       /\ newcomer # None => ~alarm
       /\ newcomer = None =>
            (alarm <=> IF members = before.members THEN before.alarm ELSE members = {})
       /\ before.alarm => before.members = {}

Inv == Types /\ StackInv /\ NewcomerInv /\ SeenInv /\ HoldInv
-----------------------------------------------------------------------------
(* The stack. *)

LEMMA TopFacts ==
  ASSUME Types, stack # <<>>
  PROVE  /\ Depth \in Nat \ {0} /\ Depth \in Levels
         /\ Top \in Frames /\ \A i \in Levels : stack[i] \in Frames
         /\ Ahead \subseteq Clients
  <1>1. Len(stack) \in Nat /\ stack \in [Levels -> Frames]
    BY LenProperties DEF Types, Levels
  <1>2. Len(stack) # 0
    BY EmptySeq, LenProperties DEF Types
  <1>3. Len(stack) \in Levels
    BY <1>1, <1>2 DEF Levels
  <1> QED
    BY <1>1, <1>2, <1>3 DEF Depth, Top, Ahead, members

LEMMA SentFacts ==
  ASSUME Types, stack # <<>>, NEW c \in Clients
  PROVE  /\ Sent(c) \in Seq(Frames) /\ Len(Sent(c)) = Depth
         /\ \A i \in Levels : Sent(c)[i] =
              IF i = Depth THEN [Top EXCEPT !.todo = @ \ {c}] ELSE stack[i]
  <1> DEFINE f == [Top EXCEPT !.todo = @ \ {c}]
  <1>1. f \in Frames
    BY TopFacts DEF Frames
  <1>2. Sent(c) = [stack EXCEPT ![Depth] = f]
    BY TopFacts, LenProperties DEF Sent, Top, Types
  <1> QED
    BY <1>1, <1>2, TopFacts, ExceptSeq DEF Types, Levels, Depth

LEMMA PushFacts ==
  ASSUME Types, stack # <<>>, NEW c \in Clients, NEW f \in Frames
  PROVE  LET s == Append(Sent(c), f)
         IN  /\ s \in Seq(Frames) /\ Len(s) = Depth + 1
             /\ 1 .. Len(s) = Levels \cup {Depth + 1}
             /\ s[Depth + 1] = f
             /\ \A i \in Levels : s[i] =
                  IF i = Depth THEN [Top EXCEPT !.todo = @ \ {c}] ELSE stack[i]
  BY SentFacts, TopFacts, AppendProperties DEF Levels, Depth

LEMMA ReplaceFacts ==
  ASSUME Types, stack # <<>>, NEW f \in Frames
  PROVE  LET s == [stack EXCEPT ![Depth] = f]
         IN  /\ s \in Seq(Frames) /\ Len(s) = Depth
             /\ \A i \in Levels : s[i] = IF i = Depth THEN f ELSE stack[i]
  BY TopFacts, ExceptSeq DEF Types, Levels, Depth

LEMMA PopFacts ==
  ASSUME Types, Depth > 1
  PROVE  LET s == [Below EXCEPT ![Depth - 1].gone = @ \cup Top.gone]
         IN  /\ s \in Seq(Frames) /\ Len(s) = Depth - 1
             /\ Levels = (1 .. Len(s)) \cup {Depth} /\ Depth - 1 \in Levels
             /\ \A i \in 1 .. Len(s) : s[i] =
                  IF i = Depth - 1 THEN [stack[i] EXCEPT !.gone = @ \cup Top.gone] ELSE stack[i]
  <1>1. stack # <<>>
    BY EmptySeq DEF Depth
  <1>2. Depth \in Nat /\ Top \in Frames /\ \A i \in 1 .. Depth - 1 : stack[i] \in Frames
    BY <1>1, TopFacts DEF Levels, Depth
  <1>3. /\ Below \in Seq(Frames) /\ Len(Below) = Depth - 1
        /\ \A i \in 1 .. Depth - 1 : Below[i] = stack[i]
    BY <1>2, SubSeqProperties, Z3 DEF Below
  <1> DEFINE f == [stack[Depth - 1] EXCEPT !.gone = @ \cup Top.gone]
  <1>4. f \in Frames
    BY <1>2 DEF Frames
  <1>5. [Below EXCEPT ![Depth - 1].gone = @ \cup Top.gone] = [Below EXCEPT ![Depth - 1] = f]
    <2>1. Below[Depth - 1] = stack[Depth - 1]
      BY <1>2, <1>3
    <2> QED
      BY <2>1, Zenon
  <1>6. Depth - 1 \in 1 .. Len(Below)
    BY <1>2, <1>3
  <1>7. /\ [Below EXCEPT ![Depth - 1] = f] \in Seq(Frames)
        /\ Len([Below EXCEPT ![Depth - 1] = f]) = Len(Below)
        /\ \A j \in 1 .. Len(Below) : [Below EXCEPT ![Depth - 1] = f][j] = IF j = Depth - 1 THEN f ELSE Below[j]
    BY <1>3, <1>4, <1>6, ExceptSeq
  <1>8. Levels = (1 .. Depth - 1) \cup {Depth} /\ Depth - 1 \in Levels
    BY <1>2 DEF Levels, Depth
  <1> DEFINE s == [Below EXCEPT ![Depth - 1] = f]
  <1>9. Len(s) = Depth - 1 /\ s \in Seq(Frames)
    BY <1>3, <1>7
  <1>10. ASSUME NEW i \in 1 .. Depth - 1
         PROVE  s[i] = IF i = Depth - 1 THEN [stack[i] EXCEPT !.gone = @ \cup Top.gone]
                       ELSE stack[i]
    <2>1. s[i] = IF i = Depth - 1 THEN f ELSE Below[i]
      BY <1>3, <1>7
    <2>2. Below[i] = stack[i]
      BY <1>3
    <2> QED
      BY <2>1, <2>2, Zenon
  <1> HIDE DEF s
  <1>11. /\ s \in Seq(Frames) /\ Len(s) = Depth - 1
         /\ Levels = (1 .. Len(s)) \cup {Depth} /\ Depth - 1 \in Levels
         /\ \A i \in 1 .. Len(s) : s[i] =
              IF i = Depth - 1 THEN [stack[i] EXCEPT !.gone = @ \cup Top.gone] ELSE stack[i]
    BY <1>8, <1>9, <1>10
  <1>12. s = [Below EXCEPT ![Depth - 1].gone = @ \cup Top.gone]
    BY <1>5 DEF s
  <1> QED
    BY <1>11, <1>12

-----------------------------------------------------------------------------
(* The newcomer's buffer. *)

LEMMA RoomForNewcomer ==
  ASSUME Inv, stack # <<>>, newcomer \in Ahead
  PROVE  ~(Cardinality(inbox) >= Buffer)
  <1> DEFINE all == Clients \X BOOLEAN
             pair == <<Top.event.of, Top.event.kind = "host">>
  <1>1. Cardinality(BOOLEAN) = 2 /\ IsFiniteSet(BOOLEAN)
    <2>1. BOOLEAN = {TRUE} \cup {FALSE}
      OBVIOUS
    <2>2. IsFiniteSet({TRUE}) /\ Cardinality({TRUE}) = 1
      BY FS_Singleton
    <2>3. FALSE \notin {TRUE}
      OBVIOUS
    <2>4. IsFiniteSet({TRUE} \cup {FALSE}) /\ Cardinality({TRUE} \cup {FALSE}) = 1 + 1
      BY <2>2, <2>3, FS_AddElement
    <2>5. IsFiniteSet(BOOLEAN) /\ Cardinality(BOOLEAN) = 1 + 1
      BY <2>1, <2>4, Zenon
    <2> QED
      BY <2>5
  <1>2. IsFiniteSet(all) /\ Cardinality(all) = Cardinality(Clients) * 2
    BY <1>1, FS_Product, BufferAssumption
  <1>3. /\ inbox \subseteq all
        /\ IsFiniteSet(inbox) /\ Cardinality(inbox) \in Nat
        /\ Cardinality(inbox) <= Cardinality(all)
        /\ Cardinality(all) = Cardinality(inbox) => all = inbox
    BY <1>2, FS_Subset, FS_CardinalityType DEF Inv, Types
  <1>4. Depth \in Levels /\ Top \in Frames /\ FrameInv(Top)
    BY TopFacts DEF Inv, StackInv, Top
  <1>5. newcomer # None /\ newcomer \in Top.todo
    BY NoneAssumption DEF Ahead, members
  <1>6. pair \notin inbox
    BY <1>4, <1>5 DEF FrameInv
  <1>7. pair \in all
    BY <1>4, <1>5 DEF FrameInv, Frames, Events
  <1> QED
    BY <1>2, <1>3, <1>6, <1>7, FS_CardinalityType, BufferAssumption

LEMMA NewcomerStays ==
  ASSUME Inv, NEW c \in Clients, Evict(c)
  PROVE  c # newcomer
  <1>1. stack # <<>>
    BY EmptySeq DEF Evict, Depth
  <1> QED
    BY <1>1, RoomForNewcomer DEF Evict, Full

-----------------------------------------------------------------------------
(* Taking the mutex. *)

LEMMA One ==
  ASSUME NEW f \in Frames
  PROVE  /\ <<f>> \in Seq(Frames) /\ Len(<<f>>) = 1 /\ <<f>>[1] = f
         /\ 1 .. Len(<<f>>) = {1} /\ <<f>> # <<>>
  OBVIOUS

LEMMA NoLevels ==
  ASSUME stack = <<>>
  PROVE  Levels = {}
  BY DEF Levels

LEMMA InitInv == Init => Inv
  <1> SUFFICES ASSUME Init PROVE Inv
    OBVIOUS
  <1>1. members = {} /\ Levels = {}
    BY NoLevels DEF Init, members
  <1> QED
    BY <1>1, OwnerAssumption, NoneAssumption, EmptySeq
       DEF Init, Inv, Types, StackInv, NewcomerInv, SeenInv, HoldInv, Nobody, Unheld, Frames

LEMMA JoinInv ==
  ASSUME Inv, NEW c \in Clients, NEW p \in People, Join(c, p)
  PROVE  Inv'
  <1> DEFINE f == Frame(Event("joined", p, c), members', {},
                        IF p = Owner THEN "announce" ELSE "return")
  <1> USE DEF Join, Hold
  <1>1. stack = <<>> /\ Levels = {} /\ stack' = <<f>>
    BY NoLevels
  <1>2. members' = members \cup {c} /\ c \notin members \cup leaving
    BY NoneAssumption DEF members, Inv, Types
  <1>3. f \in Frames
    BY DEF Frames, Frame, Events, Event, Nobody, members
  <1>4. Levels' = {1} /\ stack'[1] = f /\ stack' # <<>> /\ stack' \in Seq(Frames)
    BY <1>1, <1>3, One DEF Levels
  <1>5. /\ f.event.kind = "joined" /\ f.event.of = c /\ f.event.about = p
        /\ f.todo = members' /\ f.gone = {}
    BY DEF Frame, Event
  <1> HIDE DEF f
  <1>6. who'[c] = p /\ \A d \in members : who'[d] = who[d]
    BY <1>2 DEF Inv, Types
  <1>7. Types'
    BY <1>2, <1>4 DEF Inv, Types, Nobody, toldVars, recordVars, members
  <1>8. StackInv'
    BY <1>4, <1>5, <1>6, <1>2, NoneAssumption DEF StackInv, FrameInv
  <1>9. NewcomerInv'
    BY <1>2, <1>4 DEF NewcomerInv
  <1>10. SeenInv'
    BY <1>1, <1>2, <1>6 DEF SeenInv, Pending, Inv, toldVars
  <1>11. HoldInv'
    BY <1>2, <1>4, <1>5, NoneAssumption DEF HoldInv, Inv
  <1> QED
    BY <1>7, <1>8, <1>9, <1>10, <1>11 DEF Inv

LEMMA RemoveInv ==
  ASSUME Inv, NEW c \in Clients, Remove(c)
  PROVE  Inv'
  <1> DEFINE f == Frame(Event("left", who[c], c), members', {c},
                        IF who[c] = Owner THEN "succeed" ELSE "return")
  <1> USE DEF Remove, Hold
  <1>1. stack = <<>> /\ Levels = {} /\ stack' = <<f>>
    <2>1. Append(<<>>, f) = <<f>>
      OBVIOUS
    <2> QED
      BY <2>1, NoLevels DEF RemoveLocked
  <1>2. members' = members \ {c} /\ c \in members /\ ~alarm
    BY NoneAssumption DEF members, Inv, Types, RemoveLocked, HoldInv
  <1>3. f \in Frames
    BY DEF Frames, Frame, Events, Event, Nobody, members, Inv, Types
  <1>4. Levels' = {1} /\ stack'[1] = f /\ stack' # <<>> /\ stack' \in Seq(Frames)
    BY <1>1, <1>3, One DEF Levels
  <1>5. /\ f.event.kind = "left" /\ f.event.of = c /\ f.event.about = who[c]
        /\ f.todo = members' /\ f.gone = {c}
    BY DEF Frame, Event
  <1> HIDE DEF f
  <1>6. \A d \in members' : who'[d] = who[d] /\ seen'[d] = seen[d]
    BY <1>2 DEF Inv, Types, RemoveLocked, members
  <1>7. \A d \in Clients \ members' : seen'[d] = {}
    BY <1>2 DEF Inv, Types, RemoveLocked, SeenInv
  <1>8. Types'
    BY <1>2, <1>4 DEF Inv, Types, Nobody, recordVars, members, RemoveLocked
  <1>9. StackInv'
    BY <1>4, <1>5, <1>2, NoneAssumption DEF StackInv, FrameInv
  <1>10. NewcomerInv'
    BY NoneAssumption DEF NewcomerInv
  <1>11. SeenInv'
    BY <1>1, <1>2, <1>4, <1>5, <1>6, <1>7 DEF SeenInv, Pending, Inv
  <1>12. HoldInv'
    <2>1. /\ newcomer' = None /\ before'.members = members /\ before'.alarm = alarm
          /\ alarm' <=> members' = {}
      BY <1>2 DEF RemoveLocked
    <2>2. \A d \in Clients : d \in before'.members \ members' <=>
                             \E i \in Levels' : d \in stack'[i].gone
      BY <2>1, <1>2, <1>4, <1>5
    <2>3. before'.members # members' /\ ~before'.alarm
      BY <2>1, <1>2
    <2> QED
      BY <1>2, <2>1, <2>2, <2>3 DEF HoldInv
  <1> QED
    BY <1>8, <1>9, <1>10, <1>11, <1>12 DEF Inv

LEMMA PublishInv ==
  ASSUME Inv, NEW e \in Events, e.kind \in {"host", "other"}, e.of = None,
         PublishEvent(e), record' \in People, announcing' \in [Handlers -> Nobody]
  PROVE  Inv'
  <1> DEFINE f == Frame(e, members, {}, "return")
  <1> USE DEF PublishEvent, Hold
  <1>1. stack = <<>> /\ Levels = {} /\ stack' = <<f>>
    BY NoLevels
  <1>2. members' = members /\ alarm' = alarm
    BY DEF members, hubVars
  <1>3. f \in Frames
    BY DEF Frames, Frame, members
  <1>4. Levels' = {1} /\ stack'[1] = f /\ stack' # <<>> /\ stack' \in Seq(Frames)
    BY <1>1, <1>3, One DEF Levels
  <1>5. f.event = e /\ f.todo = members /\ f.gone = {} /\ f.then = "return"
    BY DEF Frame
  <1> HIDE DEF f
  <1>6. Types'
    BY <1>2, <1>4 DEF Inv, Types, members, hubVars, toldVars
  <1>7. StackInv'
    BY <1>2, <1>4, <1>5, NoneAssumption DEF StackInv, FrameInv, members
  <1>8. NewcomerInv'
    BY NoneAssumption DEF NewcomerInv
  <1>9. SeenInv'
    BY <1>1, <1>2 DEF SeenInv, Pending, Inv, hubVars, toldVars
  <1>10. HoldInv'
    BY <1>2, <1>4, <1>5, NoneAssumption DEF HoldInv, Inv
  <1> QED
    BY <1>6, <1>7, <1>8, <1>9, <1>10 DEF Inv

-----------------------------------------------------------------------------
(* Under the mutex. *)

LEMMA EvictInv ==
  ASSUME Inv, NEW c \in Clients, Evict(c)
  PROVE  Inv'
  <1> DEFINE f == Frame(Event("left", who[c], c), members', {c},
                        IF who[c] = Owner THEN "succeed" ELSE "return")
             g == [Top EXCEPT !.todo = @ \ {c}]
  <1>1. stack # <<>> /\ c \in members /\ c # newcomer
    BY EmptySeq, NewcomerStays DEF Evict, Depth, Ahead
  <1>2. /\ UNCHANGED <<leaving, newcomer, inbox, before, record, announcing>>
        /\ stack' = Append(Sent(c), f)
        /\ who' = [who EXCEPT ![c] = None]
        /\ seen' = [seen EXCEPT ![c] = {}] /\ host' = [host EXCEPT ![c] = None]
        /\ alarm' = (alarm \/ members' = {})
    BY DEF Evict, RemoveLocked, recordVars
  <1>3. members' = members \ {c} /\ ~alarm
    BY <1>1, <1>2, NoneAssumption DEF members, Inv, Types, HoldInv
  <1>4. f \in Frames
    BY DEF Frames, Frame, Events, Event, Nobody, members, Inv, Types
  <1>5. /\ f.event.kind = "left" /\ f.event.of = c /\ f.event.about = who[c]
        /\ f.todo = members' /\ f.gone = {c}
    BY DEF Frame, Event
  <1>6. /\ g.event = Top.event /\ g.todo = Top.todo \ {c} /\ g.gone = Top.gone
        /\ g.then = Top.then
    BY <1>1, TopFacts DEF Frames, Inv
  <1> HIDE DEF f
  <1>7. /\ stack' \in Seq(Frames) /\ Levels' = Levels \cup {Depth + 1}
        /\ stack'[Depth + 1] = f
        /\ \A i \in Levels : stack'[i] = IF i = Depth THEN g ELSE stack[i]
        /\ Depth \in Nat \ {0} /\ Levels = 1 .. Depth
    BY <1>1, <1>2, <1>4, PushFacts, TopFacts DEF Inv, Levels, Depth
  <1> HIDE DEF g
  <1>8. \A i \in Levels : /\ stack'[i].event = stack[i].event
                          /\ stack'[i].todo \in {stack[i].todo, stack[i].todo \ {c}}
                          /\ stack'[i].gone = stack[i].gone
                          /\ stack'[i].then = stack[i].then
    BY <1>6, <1>7 DEF Top
  <1>9. stack' # <<>> /\ Depth + 1 \notin Levels
    BY <1>7, EmptySeq DEF Levels
  <1>10. \A d \in members' : who'[d] = who[d] /\ seen'[d] = seen[d]
    BY <1>2, <1>3 DEF Inv, Types, members
  <1>11. Types'
    BY <1>2, <1>7 DEF Inv, Types, Nobody
  <1>12. \A i \in Levels : stack[i].event.of # c
    BY <1>1 DEF Inv, StackInv, FrameInv
  <1>13. StackInv'
    <2>1. ASSUME NEW i \in Levels PROVE FrameInv(stack[i])'
      <3>1. FrameInv(stack[i])
        BY DEF Inv, StackInv
      <3>2. newcomer # None => newcomer \in members'
        BY <1>1, <1>3 DEF Inv, NewcomerInv
      <3> QED
        BY <1>2, <1>3, <1>8, <1>10, <3>1, <3>2 DEF FrameInv
    <2>2. ASSUME NEW i, i = Depth + 1 PROVE FrameInv(stack[i])'
      <3>1. \A h \in BOOLEAN : <<c, h>> \notin inbox
        BY <1>1 DEF Inv, NewcomerInv
      <3> QED
        BY <1>2, <1>3, <1>5, <1>7, <2>2, <3>1, NoneAssumption DEF FrameInv
    <2>3. \A i \in Levels' : FrameInv(stack[i])'
      BY <1>7, <2>1, <2>2
    <2>4. \A i \in Levels' : i # 1 => stack'[i].event.of \in Clients \ {newcomer'}
      <3>1. \A i \in Levels : i # 1 => stack'[i].event.of \in Clients \ {newcomer'}
        BY <1>2, <1>8 DEF Inv, StackInv
      <3>2. stack'[Depth + 1].event.of \in Clients \ {newcomer'}
        BY <1>1, <1>2, <1>5, <1>7
      <3> QED
        BY <3>1, <3>2, <1>7
    <2>5. \A i, j \in Levels' : stack'[i].event.of = stack'[j].event.of => i = j
      <3>1. \A i \in Levels : stack'[i].event.of = stack[i].event.of
        BY <1>8
      <3>2. stack'[Depth + 1].event.of = c
        BY <1>5, <1>7
      <3>3. \A i \in Levels' : i \in Levels \/ i = Depth + 1
        BY <1>7
      <3>4. \A i, j \in Levels : stack[i].event.of = stack[j].event.of => i = j
        BY DEF Inv, StackInv
      <3> QED
        BY <3>1, <3>2, <3>3, <3>4, <1>12, Zenon
    <2> QED
      BY <2>3, <2>4, <2>5 DEF StackInv
  <1>14. NewcomerInv'
    BY <1>1, <1>2, <1>3, <1>9 DEF Inv, NewcomerInv
  <1>15. SeenInv'
    <2>1. ASSUME NEW d \in members', NEW p \in seen'[d]
          PROVE  (\E x \in members' : who'[x] = p) \/ Pending(d, p)'
      <3>1. p \in seen[d] /\ d \in members /\ d # c
        BY <1>3, <1>10
      <3>2. CASE \E x \in members' : who[x] = p
        BY <3>2, <1>10
      <3>3. CASE who[c] = p
        BY <3>3, <1>5, <1>7 DEF Pending
      <3>4. CASE Pending(d, p)
        BY <3>1, <3>4, <1>7, <1>8 DEF Pending
      <3> QED
        BY <3>1, <3>2, <3>3, <3>4, <1>3 DEF Inv, SeenInv
    <2>2. \A d \in Clients \ members' : seen'[d] = {}
      BY <1>2, <1>3 DEF Inv, Types, SeenInv
    <2> QED
      BY <2>1, <2>2 DEF SeenInv
  <1>16. HoldInv'
    <2>1. \A d \in Clients : d \in before.members \ members <=> \E i \in Levels : d \in stack[i].gone
      BY <1>1 DEF Inv, HoldInv
    <2>2. c \in before.members
      BY <1>1 DEF Inv, HoldInv
    <2>3. \A d \in Clients : d \in before.members \ members' <=> \E i \in Levels' : d \in stack'[i].gone
      BY <2>1, <2>2, <1>3, <1>5, <1>7, <1>8
    <2>4. newcomer # None => newcomer \in members'
      BY <1>1, <1>3 DEF Inv, NewcomerInv
    <2> QED
      BY <1>1, <1>2, <1>3, <2>2, <2>3, <2>4 DEF Inv, HoldInv
  <1> QED
    BY <1>11, <1>13, <1>14, <1>15, <1>16 DEF Inv

LEMMA DeliverInv ==
  ASSUME Inv, NEW c \in Clients, Deliver(c)
  PROVE  Inv'
  <1> DEFINE g == [Top EXCEPT !.todo = @ \ {c}]
             e == Top.event
             pair == <<e.of, e.kind = "host">>
  <1>1. stack # <<>> /\ c \in members /\ c \in Top.todo
    BY EmptySeq DEF Deliver, Depth, Ahead
  <1>2. /\ UNCHANGED <<who, alarm, leaving, newcomer, before, record, announcing>>
        /\ stack' = Sent(c)
        /\ inbox' = IF c = newcomer THEN inbox \cup {pair} ELSE inbox
        /\ seen' = [seen EXCEPT ![c] = CASE e.kind = "joined" -> @ \cup {e.about}
                                         [] e.kind = "left" -> @ \ {e.about}
                                         [] OTHER -> @]
        /\ host' = IF e.kind = "host" THEN [host EXCEPT ![c] = e.about] ELSE host
    BY DEF Deliver, recordVars, hubVars
  <1>3. members' = members
    BY <1>2 DEF members
  <1>4. /\ g.event = e /\ g.todo = Top.todo \ {c} /\ g.gone = Top.gone /\ g.then = Top.then
    BY <1>1, TopFacts DEF Frames, Inv
  <1>5. /\ stack' \in Seq(Frames) /\ Levels' = Levels
        /\ \A i \in Levels : stack'[i] = IF i = Depth THEN g ELSE stack[i]
        /\ Depth \in Levels /\ Top = stack[Depth] /\ Top \in Frames
    BY <1>1, <1>2, SentFacts, TopFacts DEF Inv, Levels, Depth, Top
  <1> HIDE DEF g
  <1>6. \A i \in Levels : /\ stack'[i].event = stack[i].event
                          /\ stack'[i].todo = IF i = Depth THEN stack[i].todo \ {c} ELSE stack[i].todo
                          /\ stack'[i].gone = stack[i].gone
                          /\ stack'[i].then = stack[i].then
    BY <1>4, <1>5
  <1>7. stack' # <<>>
    BY <1>5, EmptySeq DEF Levels
  <1>8. FrameInv(Top) /\ e \in Events
    BY <1>5 DEF Inv, StackInv, Frames
  <1>9. e.kind = "joined" => newcomer \in members /\ e.about = who[newcomer] /\ e.about \in People
    BY <1>8 DEF FrameInv, Inv, NewcomerInv, Types, members, Nobody
  <1>10. c = newcomer => newcomer # None /\ e.of \in Clients /\ (e.of \in members => e.of = newcomer)
    BY <1>1, <1>8, NoneAssumption DEF FrameInv, Events
  <1>11. Types'
    <2>1. inbox' \subseteq Clients \X BOOLEAN
      <3>1. c = newcomer => pair \in Clients \X BOOLEAN
        BY <1>10
      <3> QED
        BY <3>1, <1>2 DEF Inv, Types
    <2>2. seen' \in [Clients -> SUBSET People]
      BY <1>2, <1>9 DEF Inv, Types
    <2>3. host' \in [Clients -> Nobody]
      BY <1>2, <1>8 DEF Inv, Types, Events
    <2> QED
      BY <1>2, <1>5, <2>1, <2>2, <2>3 DEF Inv, Types
  <1>12. StackInv'
    <2>1. ASSUME NEW i \in Levels PROVE FrameInv(stack[i])'
      <3> DEFINE f == stack[i]
      <3>1. FrameInv(f) /\ f \in Frames
        BY TopFacts, <1>1 DEF Inv, StackInv
      <3>2. ASSUME c = newcomer, i # Depth
            PROVE  \A h \in BOOLEAN : <<f.event.of, h>> \notin inbox => <<f.event.of, h>> \notin inbox'
        <4>1. f.event.of # e.of
          BY <3>2, <1>5 DEF Inv, StackInv
        <4> QED
          BY <4>1, <1>2
      <3>3. newcomer \in stack'[i].todo => <<f.event.of, f.event.kind = "host">> \notin inbox'
        BY <1>2, <1>6, <3>1, <3>2 DEF FrameInv
      <3>4. ASSUME newcomer # None, f.then # "return" PROVE <<f.event.of, TRUE>> \notin inbox'
        <4>1. <<f.event.of, TRUE>> \notin inbox
          BY <3>1, <3>4 DEF FrameInv
        <4>2. CASE c = newcomer /\ i = Depth
          <5>1. e.kind # "host"
            BY <4>2, <1>8, <3>4, <1>5 DEF FrameInv
          <5>2. pair # <<f.event.of, TRUE>>
            BY <5>1
          <5> QED
            BY <5>2, <1>2, <4>1
        <4> QED
          BY <4>1, <4>2, <3>2, <1>2
      <3> HIDE DEF f
      <3>5. f = stack[i]
        BY DEF f
      <3> QED
        BY <1>2, <1>3, <1>6, <3>1, <3>3, <3>4, <3>5 DEF FrameInv
    <2>2. \A i \in Levels' : i # 1 => stack'[i].event.of \in Clients \ {newcomer'}
      BY <1>2, <1>5, <1>6 DEF Inv, StackInv
    <2>3. \A i, j \in Levels' : stack'[i].event.of = stack'[j].event.of => i = j
      <3>1. \A i, j \in Levels : stack[i].event.of = stack[j].event.of => i = j
        BY DEF Inv, StackInv
      <3>2. \A i \in Levels : stack'[i].event.of = stack[i].event.of
        BY <1>6
      <3>3. Levels' = Levels
        BY <1>5
      <3> QED
        BY <3>1, <3>2, <3>3
    <2> QED
      BY <1>5, <2>1, <2>2, <2>3 DEF StackInv
  <1>13. NewcomerInv'
    <2>1. newcomer' # None => /\ stack' # <<>> /\ newcomer' \in members'
                              /\ newcomer' \notin before'.members \cup leaving'
      BY <1>2, <1>3, <1>7 DEF Inv, NewcomerInv
    <2>2. ASSUME NEW o \in Clients, NEW h \in BOOLEAN, <<o, h>> \in inbox'
          PROVE  newcomer' # None /\ (o \in members' => o = newcomer')
      <3>1. CASE <<o, h>> \in inbox
        BY <3>1, <1>2, <1>3 DEF Inv, NewcomerInv
      <3>2. CASE <<o, h>> \notin inbox
        BY <3>2, <2>2, <1>2, <1>3, <1>10
      <3> QED
        BY <3>1, <3>2
    <2> QED
      BY <2>1, <2>2 DEF NewcomerInv
  <1>14. SeenInv'
    <2>1. ASSUME NEW d \in members', NEW p \in seen'[d]
          PROVE  (\E x \in members' : who'[x] = p) \/ Pending(d, p)'
      <3>1. CASE d = c /\ e.kind = "joined" /\ p = e.about
        BY <3>1, <1>2, <1>3, <1>9
      <3>2. CASE ~(d = c /\ e.kind = "joined" /\ p = e.about)
        <4>1. /\ p \in seen[d] /\ d \in members
              /\ d = c /\ e.kind = "left" => p # e.about
          BY <3>2, <1>2, <1>3 DEF Inv, Types, members
        <4>2. CASE \E x \in members : who[x] = p
          BY <4>2, <1>2, <1>3
        <4>3. CASE Pending(d, p)
          BY <4>1, <4>3, <1>5, <1>6 DEF Pending
        <4> QED
          BY <4>1, <4>2, <4>3 DEF Inv, SeenInv
      <3> QED
        BY <3>1, <3>2
    <2>2. \A d \in Clients \ members' : seen'[d] = {}
      BY <1>1, <1>2, <1>3 DEF Inv, Types, SeenInv
    <2> QED
      BY <2>1, <2>2 DEF SeenInv
  <1>15. HoldInv'
    <2>1. \A d \in Clients : d \in before'.members \ members' <=>
                             \E i \in Levels' : d \in stack'[i].gone
      BY <1>1, <1>2, <1>3, <1>5, <1>6 DEF Inv, HoldInv
    <2> QED
      BY <1>1, <1>2, <1>3, <2>1 DEF Inv, HoldInv
  <1> QED
    BY <1>11, <1>12, <1>13, <1>14, <1>15 DEF Inv

LEMMA AnnounceHostInv ==
  ASSUME Inv, NEW p \in People, AnnounceHost(p)
  PROVE  Inv'
  <1> DEFINE g == Frame(Event("host", p, Top.event.of), members, Top.gone, "return")
  <1>1. stack # <<>> /\ Ahead = {} /\ p \in Hosts
    BY EmptySeq DEF AnnounceHost, Depth
  <1>2. /\ UNCHANGED <<who, alarm, leaving, newcomer, inbox, before, seen, host, record, announcing>>
        /\ stack' = [stack EXCEPT ![Depth] = g]
    BY DEF AnnounceHost, hubVars, toldVars, recordVars
  <1>3. members' = members
    BY <1>2 DEF members
  <1>4. Depth \in Levels /\ Top = stack[Depth] /\ Top \in Frames /\ FrameInv(Top)
    BY <1>1, TopFacts DEF Inv, StackInv, Top
  <1>5. g \in Frames
    BY <1>4 DEF Frames, Frame, Events, Event, Nobody, members
  <1>6. /\ g.event.kind = "host" /\ g.event.of = Top.event.of
        /\ g.todo = members /\ g.gone = Top.gone /\ g.then = "return"
    BY DEF Frame, Event
  <1> HIDE DEF g
  <1>7. /\ stack' \in Seq(Frames) /\ Levels' = Levels
        /\ \A i \in Levels : stack'[i] = IF i = Depth THEN g ELSE stack[i]
    BY <1>1, <1>2, <1>5, ReplaceFacts DEF Inv, Levels, Depth
  <1>8. stack' # <<>>
    BY <1>4, <1>7, EmptySeq DEF Levels
  <1>9. Top.then # "return"
    BY <1>1 DEF Hosts
  <1>10. \A i \in Levels : stack'[i].event.of = stack[i].event.of /\ stack'[i].gone = stack[i].gone
    BY <1>4, <1>6, <1>7
  <1>11. Types'
    BY <1>2, <1>7 DEF Inv, Types
  <1>12. StackInv'
    <2>1. ASSUME NEW i \in Levels PROVE FrameInv(stack[i])'
      <3>1. CASE i = Depth
        <4>1. /\ stack'[i].event.kind = "host" /\ stack'[i].event.of = Top.event.of
              /\ stack'[i].todo = members /\ stack'[i].then = "return"
          BY <3>1, <1>6, <1>7
        <4>2. newcomer \in members => newcomer # None
          BY NoneAssumption DEF members
        <4>3. newcomer # None => <<Top.event.of, TRUE>> \notin inbox
          BY <1>4, <1>9 DEF FrameInv
        <4>4. /\ Top.event.of \in members => Top.event.of = newcomer
              /\ newcomer # None => Top.event.of # None
          BY <1>4 DEF FrameInv
        <4>5. (stack'[i].event.kind = "host") = TRUE
          BY <4>1
        <4>6. newcomer \in stack'[i].todo =>
                <<stack'[i].event.of, stack'[i].event.kind = "host">> \notin inbox
          <5>1. newcomer # None => <<stack'[i].event.of, TRUE>> \notin inbox
            BY <4>1, <4>3
          <5>2. <<stack'[i].event.of, stack'[i].event.kind = "host">> = <<stack'[i].event.of, TRUE>>
            BY <4>5, Zenon
          <5> QED
            BY <4>1, <4>2, <5>1, <5>2
        <4> QED
          BY <4>1, <4>2, <4>3, <4>4, <4>6, <1>2, <1>3 DEF FrameInv
      <3>2. CASE i # Depth
        <4>1. stack'[i] = stack[i] /\ FrameInv(stack[i])
          BY <3>2, <1>7 DEF Inv, StackInv
        <4> QED
          BY <4>1, <1>2, <1>3 DEF FrameInv
      <3> QED
        BY <3>1, <3>2
    <2>2. \A i \in Levels' : i # 1 => stack'[i].event.of \in Clients \ {newcomer'}
      BY <1>2, <1>7, <1>10 DEF Inv, StackInv
    <2>3. \A i, j \in Levels' : stack'[i].event.of = stack'[j].event.of => i = j
      <3>1. \A i, j \in Levels : stack[i].event.of = stack[j].event.of => i = j
        BY DEF Inv, StackInv
      <3>2. \A i \in Levels : stack'[i].event.of = stack[i].event.of
        BY <1>10
      <3>3. Levels' = Levels
        BY <1>7
      <3> QED
        BY <3>1, <3>2, <3>3
    <2> QED
      BY <1>7, <2>1, <2>2, <2>3 DEF StackInv
  <1>13. NewcomerInv'
    BY <1>2, <1>3, <1>8 DEF Inv, NewcomerInv
  <1>14. \A d \in members, q \in People : Pending(d, q) => Pending(d, q)'
    <2> SUFFICES ASSUME NEW d \in members, NEW q \in People, Pending(d, q) PROVE Pending(d, q)'
      OBVIOUS
    <2>1. PICK i \in Levels :
            stack[i].event.kind = "left" /\ stack[i].event.about = q /\ d \in stack[i].todo
      BY DEF Pending
    <2>2. i # Depth
      BY <2>1, <1>1, <1>4 DEF Ahead
    <2> QED
      BY <2>1, <2>2, <1>7 DEF Pending
  <1>15. SeenInv'
    BY <1>2, <1>3, <1>14 DEF Inv, SeenInv, Types, members
  <1>16. HoldInv'
    <2>1. \A d \in Clients : d \in before'.members \ members' <=>
                             \E i \in Levels' : d \in stack'[i].gone
      BY <1>1, <1>2, <1>3, <1>7, <1>10 DEF Inv, HoldInv
    <2> QED
      BY <1>1, <1>2, <1>3, <2>1 DEF Inv, HoldInv
  <1> QED
    BY <1>11, <1>12, <1>13, <1>15, <1>16 DEF Inv

LEMMA ReturnInv ==
  ASSUME Inv, Return
  PROVE  Inv'
  <1>1. stack # <<>> /\ Depth > 1 /\ Ahead = {}
    BY EmptySeq DEF Return, Depth
  <1>2. /\ UNCHANGED <<who, alarm, leaving, newcomer, inbox, before, seen, host, record, announcing>>
        /\ stack' = [Below EXCEPT ![Depth - 1].gone = @ \cup Top.gone]
    BY DEF Return, hubVars, toldVars, recordVars
  <1>3. members' = members
    BY <1>2 DEF members
  <1>4. Depth \in Levels /\ Depth \in Nat /\ Top = stack[Depth] /\ \A i \in Levels : stack[i] \in Frames
    BY <1>1, TopFacts DEF Inv, Top
  <1>5. /\ stack' \in Seq(Frames) /\ Levels = Levels' \cup {Depth}
        /\ Depth \notin Levels' /\ Depth - 1 \in Levels'
        /\ \A i \in Levels' : stack'[i] =
             IF i = Depth - 1 THEN [stack[i] EXCEPT !.gone = @ \cup Top.gone] ELSE stack[i]
    BY <1>1, <1>2, <1>4, PopFacts DEF Inv, Levels
  <1>6. \A i \in Levels' : /\ i \in Levels /\ i # Depth
                           /\ stack'[i].event = stack[i].event /\ stack'[i].todo = stack[i].todo
                           /\ stack'[i].then = stack[i].then
                           /\ stack'[i].gone = IF i = Depth - 1 THEN stack[i].gone \cup Top.gone
                                               ELSE stack[i].gone
    BY <1>4, <1>5 DEF Frames
  <1>7. stack' # <<>>
    BY <1>5, EmptySeq DEF Levels
  <1>8. Types'
    BY <1>2, <1>5 DEF Inv, Types
  <1>9. StackInv'
    <2>1. ASSUME NEW i \in Levels' PROVE FrameInv(stack[i])'
      <3>1. FrameInv(stack[i])
        BY <1>6 DEF Inv, StackInv
      <3>2. /\ stack'[i].event = stack[i].event /\ stack'[i].todo = stack[i].todo
            /\ stack'[i].then = stack[i].then
        BY <1>6
      <3> QED
        BY <3>1, <3>2, <1>2, <1>3 DEF FrameInv
    <2>2. \A i \in Levels' : i # 1 => stack'[i].event.of \in Clients \ {newcomer'}
      BY <1>2, <1>6 DEF Inv, StackInv
    <2>3. \A i, j \in Levels' : stack'[i].event.of = stack'[j].event.of => i = j
      <3>1. \A i, j \in Levels : stack[i].event.of = stack[j].event.of => i = j
        BY DEF Inv, StackInv
      <3>2. \A i \in Levels' : i \in Levels /\ stack'[i].event.of = stack[i].event.of
        BY <1>6
      <3> QED
        BY <3>1, <3>2
    <2> QED
      BY <2>1, <2>2, <2>3 DEF StackInv
  <1>10. NewcomerInv'
    BY <1>2, <1>3, <1>7 DEF Inv, NewcomerInv
  <1>11. \A d \in members, q \in People : Pending(d, q) => Pending(d, q)'
    <2> SUFFICES ASSUME NEW d \in members, NEW q \in People, Pending(d, q) PROVE Pending(d, q)'
      OBVIOUS
    <2>1. PICK i \in Levels :
            stack[i].event.kind = "left" /\ stack[i].event.about = q /\ d \in stack[i].todo
      BY DEF Pending
    <2>2. i # Depth
      BY <2>1, <1>1, <1>4 DEF Ahead
    <2>3. i \in Levels'
      BY <2>2, <1>5
    <2> QED
      BY <2>1, <2>3, <1>6 DEF Pending
  <1>12. SeenInv'
    BY <1>2, <1>3, <1>11 DEF Inv, SeenInv, Types, members
  <1>13. HoldInv'
    <2>1. \A d \in Clients : (\E i \in Levels : d \in stack[i].gone) <=>
                             (\E i \in Levels' : d \in stack'[i].gone)
      BY <1>4, <1>5, <1>6
    <2>2. \A d \in Clients : d \in before'.members \ members' <=>
                             \E i \in Levels' : d \in stack'[i].gone
      BY <1>1, <1>2, <1>3, <2>1 DEF Inv, HoldInv
    <2> QED
      BY <1>1, <1>2, <1>3, <2>2 DEF Inv, HoldInv
  <1> QED
    BY <1>8, <1>9, <1>10, <1>12, <1>13 DEF Inv

LEMMA ReleaseInv ==
  ASSUME Inv, Release
  PROVE  Inv'
  <1> USE DEF Release
  <1>1. stack # <<>> /\ Depth = 1 /\ Ahead = {} /\ Top \in Frames /\ Top = stack[Depth] /\ Levels = {1}
    <2>1. stack # <<>> /\ Depth = 1 /\ Ahead = {}
      BY EmptySeq DEF Depth
    <2>2. Levels = {1}
      BY <2>1 DEF Levels, Depth
    <2>3. Top \in Frames /\ Top = stack[Depth]
      BY <2>1, TopFacts DEF Inv, Top
    <2> QED
      BY <2>1, <2>2, <2>3
  <1>2. Levels' = {} /\ members' = members /\ \A c \in members : \A p : ~Pending(c, p)
    BY <1>1 DEF Levels, hubVars, members, Pending, Ahead
  <1>3. Types'
    BY <1>1, EmptySeq DEF Inv, Types, Unheld, hubVars, toldVars, recordVars, Frames
  <1>4. StackInv' /\ NewcomerInv'
    BY <1>2 DEF StackInv, NewcomerInv
  <1>5. SeenInv'
    BY <1>2 DEF Inv, SeenInv, hubVars, toldVars
  <1>6. HoldInv'
    BY <1>2 DEF Inv, HoldInv, hubVars
  <1> QED
    BY <1>3, <1>4, <1>5, <1>6 DEF Inv

-----------------------------------------------------------------------------
(* Every step. *)

LEMMA StutterInv ==
  ASSUME Inv, UNCHANGED <<hubVars, holdVars, toldVars>>, leaving' \subseteq leaving,
         record' \in People, announcing' \in [Handlers -> Nobody]
  PROVE  Inv'
  <1> USE DEF hubVars, holdVars, toldVars
  <1>1. members' = members /\ Levels' = Levels
    BY DEF members, Levels
  <1>2. Types'
    BY DEF Inv, Types
  <1>3. \A i \in Levels : FrameInv(stack[i])'
    BY <1>1 DEF Inv, StackInv, FrameInv
  <1>4. StackInv'
    BY <1>1, <1>3 DEF Inv, StackInv
  <1>5. NewcomerInv'
    BY <1>1 DEF Inv, NewcomerInv
  <1>6. \A c, p : Pending(c, p)' <=> Pending(c, p)
    BY <1>1 DEF Pending
  <1>7. SeenInv'
    BY <1>1, <1>6 DEF Inv, SeenInv
  <1>8. HoldInv'
    BY <1>1 DEF Inv, HoldInv
  <1> QED
    BY <1>2, <1>4, <1>5, <1>7, <1>8 DEF Inv

LEMMA StepInv == Inv /\ [Next]_vars => Inv'
  <1> SUFFICES ASSUME Inv, [Next]_vars PROVE Inv'
    OBVIOUS
  <1>1. record \in People /\ announcing \in [Handlers -> Nobody]
    BY DEF Inv, Types
  <1>2. ASSUME NEW c \in Clients, NEW p \in People, Join(c, p) PROVE Inv'
    BY <1>2, JoinInv
  <1>3. ASSUME NEW c \in Clients, Remove(c) PROVE Inv'
    BY <1>3, RemoveInv
  <1>4. ASSUME NEW c \in Clients, Cleanup(c) PROVE Inv'
    BY <1>1, <1>4, StutterInv DEF Cleanup, recordVars
  <1>5. CASE Publish
    <2> DEFINE e == Event("other", None, None)
    <2>1. e \in Events /\ e.kind = "other" /\ e.of = None
      BY DEF Event, Events, Nobody
    <2> HIDE DEF e
    <2>2. PublishEvent(e) /\ UNCHANGED <<record, announcing>>
      BY <1>5 DEF Publish, recordVars, e
    <2> QED
      BY <1>1, <2>1, <2>2, PublishInv
  <1>6. CASE Locked
    BY <1>6, EvictInv, DeliverInv, AnnounceHostInv, ReturnInv, ReleaseInv DEF Locked
  <1>7. ASSUME NEW q \in Handlers, Announce(q) PROVE Inv'
    <2> DEFINE e == Event("host", announcing[q], None)
    <2>1. e \in Events /\ e.kind = "host" /\ e.of = None
      BY <1>1 DEF Event, Events
    <2> HIDE DEF e
    <2>2. PublishEvent(e) /\ record' = record /\ announcing' = [announcing EXCEPT ![q] = None]
      BY <1>7 DEF Announce, e
    <2>3. announcing' \in [Handlers -> Nobody]
      BY <1>1, <2>2 DEF Nobody
    <2> QED
      BY <1>1, <2>1, <2>2, <2>3, PublishInv
  <1>8. ASSUME NEW q \in Handlers, NEW p \in People, Transfer(q, p) PROVE Inv'
    BY <1>1, <1>8, StutterInv DEF Transfer, Nobody
  <1>9. CASE UNCHANGED vars
    BY <1>1, <1>9, StutterInv DEF vars, recordVars
  <1> QED
    BY <1>2, <1>3, <1>4, <1>5, <1>6, <1>7, <1>8, <1>9 DEF Next

LEMMA Invariance == Spec => []Inv
  BY InitInv, StepInv, PTL DEF Spec

-----------------------------------------------------------------------------
(* Theorems. *)

\* Frames are about different clients, so that there is one for each at most, and one for
\* a handler.
LEMMA StackBound ==
  ASSUME Inv
  PROVE  Len(stack) <= Cardinality(Clients) + 1
  <1> DEFINE all == Clients \cup {None}
             f == [i \in Levels |-> stack[i].event.of]
  <1>1. Len(stack) \in Nat /\ \A i \in Levels : stack[i] \in Frames
    BY LenProperties DEF Inv, Types, Levels
  <1>2. f \in Injection(Levels, all)
    <2>1. f \in [Levels -> all]
      BY <1>1 DEF Frames, Events
    <2>2. \A i, j \in Levels : f[i] = f[j] => i = j
      BY DEF Inv, StackInv
    <2> QED
      BY <2>1, <2>2 DEF Injection, IsInjective
  <1>3. IsFiniteSet(all) /\ Cardinality(all) = Cardinality(Clients) + 1
    BY FS_AddElement, NoneAssumption, BufferAssumption
  <1>4. Cardinality(Levels) = Len(stack)
    <2>1. Cardinality(1 .. Len(stack)) = IF 1 > Len(stack) THEN 0 ELSE Len(stack) - 1 + 1
      BY <1>1, FS_Interval
    <2> QED
      BY <1>1, <2>1 DEF Levels
  <1> HIDE DEF f, all
  <1>5. Cardinality(Levels) <= Cardinality(all)
    BY <1>2, <1>3, FS_Injection
  <1> QED
    BY <1>3, <1>4, <1>5

\* realtime/hub.go:264: whatever nests in a broadcast, the state keeps its types, and the
\* recursion is no deeper than the room has clients, and one.
THEOREM BroadcastTypeCorrect == Spec => []TypeOK
  <1>1. Inv => TypeOK
    BY StackBound DEF Inv, Types, TypeOK
  <1> QED
    BY <1>1, Invariance, PTL

\* realtime/hub.go:268: evictions that interrupt a broadcast leave nobody with a ghost: when
\* the mutex is free, whoever was announced and not bidden farewell is connected.
THEOREM NobodySeesGhosts == Spec => []NoGhosts
  <1>1. Inv => NoGhosts
    <2> SUFFICES ASSUME Inv, stack = <<>>, NEW c \in members, NEW p \in seen[c]
                 PROVE  p \in {who[d] : d \in members}
      BY DEF NoGhosts
    <2>1. ~Pending(c, p)
      BY NoLevels DEF Pending
    <2> QED
      BY <2>1 DEF Inv, SeenInv
  <1> QED
    BY <1>1, Invariance, PTL

LEMMA CommittedStep == Inv /\ [Next]_vars => [Committed!Next]_(Committed!memberVars)
  <1> SUFFICES ASSUME Inv, [Next]_vars PROVE [Committed!Next]_(Committed!memberVars)
    OBVIOUS
  <1> DEFINE m == IF stack = <<>> THEN members ELSE before.members
             a == IF stack = <<>> THEN alarm ELSE before.alarm
  <1>1. ASSUME m' = m, a' = a, leaving' = leaving PROVE UNCHANGED Committed!memberVars
    BY <1>1 DEF Committed!memberVars
  <1>2. ASSUME NEW c, Hold(c), stack' # <<>>, leaving' = leaving
        PROVE  [Committed!Next]_(Committed!memberVars)
    BY <1>1, <1>2 DEF Hold
  <1>3. ASSUME NEW c \in Clients, NEW p \in People, Join(c, p)
        PROVE  [Committed!Next]_(Committed!memberVars)
    BY <1>2, <1>3 DEF Join
  <1>4. ASSUME NEW c \in Clients, Remove(c) PROVE [Committed!Next]_(Committed!memberVars)
    <2>1. stack' # <<>>
      BY <1>4 DEF Remove, RemoveLocked
    <2> QED
      BY <1>2, <1>4, <2>1 DEF Remove
  <1>5. ASSUME NEW e, PublishEvent(e) PROVE [Committed!Next]_(Committed!memberVars)
    BY <1>2, <1>5 DEF PublishEvent
  <1>6. CASE Locked /\ ~Release
    <2>1. stack # <<>> /\ UNCHANGED <<leaving, before>>
      BY <1>6, EmptySeq DEF Locked, Evict, Deliver, AnnounceHost, Return, Depth
    <2>2. Len(stack') > 0
      <3>1. Depth \in Nat \ {0} /\ Types
        BY <2>1, TopFacts DEF Inv
      <3>2. ASSUME NEW c \in Clients, Deliver(c) PROVE Len(stack') = Depth
        BY <2>1, <3>1, <3>2, SentFacts DEF Deliver
      <3>3. ASSUME NEW c \in Clients, Evict(c) PROVE Len(stack') = Depth + 1
        <4> DEFINE f == Frame(Event("left", who[c], c), members', {c},
                              IF who[c] = Owner THEN "succeed" ELSE "return")
        <4>1. stack' = Append(Sent(c), f)
          BY <3>3 DEF Evict, RemoveLocked
        <4>2. f \in Frames
          BY DEF Frames, Frame, Events, Event, Nobody, members, Inv, Types
        <4> HIDE DEF f
        <4> QED
          BY <2>1, <3>1, <4>1, <4>2, PushFacts
      <3>4. ASSUME NEW p \in People, AnnounceHost(p) PROVE Len(stack') = Depth
        <4> DEFINE f == Frame(Event("host", p, Top.event.of), members, Top.gone, "return")
        <4>1. stack' = [stack EXCEPT ![Depth] = f]
          BY <3>4 DEF AnnounceHost
        <4>2. f \in Frames
          BY <2>1, <3>1, TopFacts DEF Frames, Frame, Events, Event, Nobody, members
        <4> HIDE DEF f
        <4> QED
          BY <2>1, <3>1, <4>1, <4>2, ReplaceFacts
      <3>5. ASSUME Return PROVE Len(stack') = Depth - 1 /\ Depth > 1
        BY <3>1, <3>5, PopFacts DEF Return
      <3> QED
        BY <1>6, <3>1, <3>2, <3>3, <3>4, <3>5 DEF Locked
    <2>3. stack' # <<>>
      BY <2>2, EmptySeq
    <2> QED
      BY <1>1, <2>1, <2>3
  <1>7. CASE Release
    <2>1. /\ stack # <<>> /\ stack' = <<>> /\ leaving' = leaving \cup Top.gone
          /\ members' = members /\ alarm' = alarm /\ Levels = {1} /\ Top = stack[1] /\ Top \in Frames
      <3>1. stack # <<>> /\ Depth = 1
        BY <1>7, EmptySeq DEF Release, Depth
      <3> QED
        BY <1>7, <3>1, TopFacts DEF Release, Depth, Levels, Top, members, hubVars, Inv
    <2> DEFINE gone == Top.gone
    <2>2. gone = before.members \ members
      BY <2>1 DEF Inv, HoldInv, Frames, Types
    <2>3. m = before.members /\ a = before.alarm /\ m' = members /\ a' = alarm
      BY <2>1
    <2>4. CASE newcomer # None
      <3>1. newcomer \in Clients /\ newcomer \in members /\ newcomer \notin before.members \cup leaving
        BY <2>4 DEF Inv, NewcomerInv, Types
      <3>2. members = (before.members \ gone) \cup {newcomer} /\ ~alarm
        BY <2>1, <2>2, <2>4, <3>1 DEF Inv, HoldInv
      <3>3. alarm = FALSE
        BY <3>2 DEF Inv, Types
      <3>4. gone \in SUBSET m
        BY <2>2, <2>3
      <3> HIDE DEF m, a, gone
      <3>5. Committed!Enter(newcomer, gone)
        BY <2>1, <2>3, <3>1, <3>2, <3>3 DEF Committed!Enter, m, a, gone
      <3> QED
        BY <3>1, <3>4, <3>5 DEF Committed!Next, m
    <2>5. CASE newcomer = None
      <3>1. members = before.members \ gone
        BY <2>1, <2>2, <2>5, NoneAssumption DEF Inv, HoldInv, Types, members
      <3>2. alarm <=> IF members = before.members THEN before.alarm ELSE members = {}
        BY <2>1, <2>5 DEF Inv, HoldInv
      <3>3. alarm \in BOOLEAN /\ before.alarm \in BOOLEAN
        BY DEF Inv, Types
      <3>4. CASE gone = {}
        <4>1. members = before.members /\ leaving' = leaving /\ alarm = before.alarm
          BY <2>1, <3>1, <3>2, <3>3, <3>4
        <4> QED
          BY <1>1, <2>3, <4>1
      <3>5. CASE gone # {}
        <4>1. members # before.members /\ alarm = (members = {})
          BY <2>2, <3>1, <3>2, <3>3, <3>5
        <4>2. gone \in SUBSET m
          BY <2>2, <2>3
        <4> HIDE DEF m, a, gone
        <4>3. Committed!Exit(gone)
          BY <2>1, <2>3, <3>1, <4>1 DEF Committed!Exit, m, a, gone
        <4> QED
          BY <3>5, <4>2, <4>3 DEF Committed!Next, m
      <3> QED
        BY <3>4, <3>5
    <2> QED
      BY <2>4, <2>5
  <1>8. ASSUME NEW c \in Clients, Cleanup(c) PROVE [Committed!Next]_(Committed!memberVars)
    <2>1. UNCHANGED <<stack, members, alarm, before>> /\ leaving' = leaving \ {c}
      BY <1>8 DEF Cleanup, hubVars, holdVars, members
    <2>2. Committed!Return(c)
      BY <2>1 DEF Committed!Return
    <2> QED
      BY <2>2 DEF Committed!Next
  <1>9. ASSUME UNCHANGED <<hubVars, leaving, holdVars>> PROVE UNCHANGED Committed!memberVars
    BY <1>9 DEF Committed!memberVars, hubVars, holdVars, members
  <1>10. ASSUME NEW q \in Handlers, Announce(q) PROVE [Committed!Next]_(Committed!memberVars)
    BY <1>5, <1>10 DEF Announce
  <1>11. ASSUME NEW q \in Handlers, NEW p \in People, Transfer(q, p)
         PROVE  UNCHANGED Committed!memberVars
    BY <1>9, <1>11 DEF Transfer
  <1>12. CASE UNCHANGED vars
    BY <1>9, <1>12 DEF vars
  <1> HIDE DEF m, a
  <1> QED
    BY <1>3, <1>4, <1>5, <1>6, <1>7, <1>8, <1>10, <1>11, <1>12 DEF Next, Publish

\* realtime/hub.go:214-272: a hold of the mutex, however its broadcasts nest, is one step of
\* Membership: the removed are handed to cleanup, the newcomer is not among them, and the
\* alarm is set by the last to leave.
THEOREM HoldsAreSteps == Spec => HoldsSpec
  <1>1. Init => Committed!Init
    <2> SUFFICES ASSUME Init PROVE Committed!Init
      OBVIOUS
    <2>1. members = {}
      BY DEF Init, members
    <2> QED
      BY <2>1 DEF Init, Committed!Init
  <1> QED
    BY <1>1, CommittedStep, Invariance, PTL DEF Spec, HoldsSpec, Committed!Spec

LEMMA AdvanceStep == Inv /\ [Next]_vars /\ stack # <<>> /\ stack' # stack => Advances
  <1> SUFFICES ASSUME Inv, [Next]_vars, stack # <<>>, stack' # stack
               PROVE  Advances
    OBVIOUS
  <1>1. /\ Types /\ Depth \in Nat \ {0} /\ Depth \in Levels /\ Top \in Frames
    BY TopFacts DEF Inv
  <1>2. ASSUME NEW c \in Clients, Evict(c) PROVE Advances
    <2>1. c \in members /\ who' = [who EXCEPT ![c] = None]
      BY <1>2 DEF Evict, RemoveLocked, Ahead
    <2>2. members' = members \ {c}
      BY <1>1, <2>1, NoneAssumption DEF members, Types
    <2> QED
      BY <2>1, <2>2 DEF Advances
  <1>3. ASSUME NEW c \in Clients, Deliver(c) PROVE Advances
    <2>1. c \in Top.todo /\ stack' = Sent(c) /\ members' = members
      BY <1>3 DEF Deliver, Ahead, hubVars, members
    <2>2. Depth' = Depth /\ Top' = [Top EXCEPT !.todo = @ \ {c}]
      BY <1>1, <2>1, SentFacts DEF Depth, Top
    <2>3. Top'.then = Top.then /\ Top'.todo = Top.todo \ {c}
      BY <1>1, <2>2 DEF Frames
    <2> QED
      BY <2>1, <2>2, <2>3 DEF Advances
  <1>4. ASSUME NEW p \in People, AnnounceHost(p) PROVE Advances
    <2> DEFINE f == Frame(Event("host", p, Top.event.of), members, Top.gone, "return")
    <2>1. stack' = [stack EXCEPT ![Depth] = f] /\ members' = members /\ p \in Hosts
      BY <1>4 DEF AnnounceHost, hubVars, members
    <2>2. f \in Frames
      BY <1>1 DEF Frames, Frame, Events, Event, Nobody, members
    <2>3. Depth' = Depth /\ Top' = f
      BY <1>1, <2>1, <2>2, ReplaceFacts DEF Depth, Top
    <2>4. Top.then # "return" /\ f.then = "return"
      BY <2>1 DEF Hosts, Frame
    <2> QED
      BY <2>1, <2>3, <2>4 DEF Advances
  <1>5. CASE Return
    <2>1. /\ Depth > 1 /\ members' = members
          /\ stack' = [Below EXCEPT ![Depth - 1].gone = @ \cup Top.gone]
      BY <1>5 DEF Return, hubVars, members
    <2>2. Depth' = Depth - 1
      BY <1>1, <2>1, PopFacts DEF Depth
    <2> QED
      BY <1>1, <2>1, <2>2 DEF Advances
  <1>6. CASE Release
    <2>1. stack' = <<>> /\ members' = members
      BY <1>6 DEF Release, hubVars, members
    <2>2. Depth' = 0
      BY <2>1 DEF Depth
    <2> QED
      BY <1>1, <2>1, <2>2 DEF Advances
  <1>7. \/ \E c \in Clients : Evict(c) \/ Deliver(c)
        \/ \E p \in People : AnnounceHost(p)
        \/ Return \/ Release
    BY DEF Next, Locked, Join, Remove, Publish, PublishEvent, Hold, Cleanup, Announce, Transfer,
           holdVars, vars
  <1> QED
    BY <1>2, <1>3, <1>4, <1>5, <1>6, <1>7

\* realtime/hub.go:264-272: broadcastLocked and removeLocked call each other no more often than
\* there are clients to remove: with any number of clients, every step of a hold makes a measure
\* smaller that cannot for ever.  What is left of HoldEnds is that the goroutine goes on.
THEOREM RecursionEnds == Spec => HoldAdvances
  BY AdvanceStep, Invariance, PTL DEF Spec, HoldAdvances
=============================================================================
