------------------------------ MODULE SlotPool ------------------------------
(***************************************************************************)
(* What Ruse promises about room slots, with no queue, keys or clocks: a    *)
(* slot is held by an open room or promised by a grant.  In one step any    *)
(* rooms may close and any grants lapse, and then a slot that is free is    *)
(* promised or taken, or a grant is redeemed for a room.  A room opens once *)
(* in its life.                                                             *)
(***************************************************************************)
EXTENDS Naturals, FiniteSets

CONSTANTS Rooms, Reservations, Capacity

VARIABLES open, opened, granted

poolVars == <<open, opened, granted>>

Init == open = {} /\ opened = {} /\ granted = {}

Taken(rooms, grants) == Cardinality(rooms) + Cardinality(grants)

\* In each action rooms and grants are what is left of the old ones.
Release(rooms, grants) ==
  open' = rooms /\ granted' = grants /\ opened' = opened

Grant(rooms, grants, v) ==
  /\ v \notin granted /\ Taken(rooms, grants) < Capacity
  /\ open' = rooms /\ granted' = grants \cup {v} /\ opened' = opened

Open(rooms, grants, r) ==
  /\ r \notin opened /\ Taken(rooms, grants) < Capacity
  /\ open' = rooms \cup {r} /\ granted' = grants /\ opened' = opened \cup {r}

GrantAndOpen(rooms, grants, v, r) ==
  /\ v \notin granted /\ r \notin opened /\ Taken(rooms, grants) + 1 < Capacity
  /\ open' = rooms \cup {r} /\ granted' = grants \cup {v} /\ opened' = opened \cup {r}

Redeem(rooms, grants, v, r) ==
  /\ v \in grants /\ r \notin opened
  /\ open' = rooms \cup {r} /\ granted' = grants \ {v} /\ opened' = opened \cup {r}

Next ==
  \E rooms \in SUBSET open, grants \in SUBSET granted :
    \/ Release(rooms, grants)
    \/ \E v \in Reservations : Grant(rooms, grants, v)
    \/ \E r \in Rooms : Open(rooms, grants, r)
    \/ \E v \in Reservations, r \in Rooms :
         GrantAndOpen(rooms, grants, v, r) \/ Redeem(rooms, grants, v, r)

Spec == Init /\ [][Next]_poolVars
=============================================================================
