----------------------------- MODULE WaitingLine -----------------------------
(***************************************************************************)
(* What Ruse promises to those who wait for a slot, with no slots, keys,    *)
(* heartbeats or handlers.  Whoever wants to wait draws a number and walks  *)
(* to the line.  Numbers drawn in one instant are in any order, and a later *)
(* instant's numbers are higher.  The one with the lowest number of those   *)
(* that have arrived and show signs of life is served next; whoever arrives *)
(* late still has the number drawn.  Nobody who shows signs of life is      *)
(* dropped from the line, or loses their place to a later instant's number. *)
(***************************************************************************)
CONSTANT Sessions

VARIABLES
  line,     \* who stands in the line
  coming,   \* who has a number and has not arrived
  before,   \* before[s] have lower numbers than s
  recent,   \* who drew in the present instant
  alive,    \* those in the line that show signs of life
  served    \* those that were called and have not given their turn back

lineVars == <<line, coming, before, recent, alive, served>>

Init ==
  /\ line = {} /\ coming = {} /\ recent = {} /\ alive = {} /\ served = {}
  /\ before = [s \in Sessions |-> {}]

\* The numbers of those who are gone are void, and the others keep their order.
Void(gone) ==
  /\ before' = [s \in Sessions |-> IF s \in gone THEN {} ELSE before[s] \ gone]
  /\ recent' = recent \ gone

Leave(gone) == line' = line \ gone /\ Void(gone) /\ UNCHANGED coming

Draw(s) ==
  /\ s \notin line \cup coming \cup served
  /\ coming' = coming \cup {s} /\ recent' = recent \cup {s}
  /\ \E after \in SUBSET recent :
       /\ \A t \in after : recent \ after \subseteq before[t]
       /\ before' = [t \in Sessions |-> IF t = s THEN (line \cup coming) \ after
                                         ELSE IF t \in after THEN before[t] \cup {s} ELSE before[t]]
  /\ UNCHANGED <<line, alive, served>>

Enter(s) ==
  /\ s \in coming
  /\ coming' = coming \ {s} /\ line' = line \cup {s} /\ alive' = alive \cup {s}
  /\ UNCHANGED <<before, recent, served>>

GiveUp(s) ==
  /\ s \in coming
  /\ coming' = coming \ {s} /\ Void({s})
  /\ UNCHANGED <<line, alive, served>>

Tick == recent' = {} /\ UNCHANGED <<line, coming, before, alive, served>>

\* The first that is alive is called, and the dead before it are struck off.
Serve(s, kept) ==
  /\ s \in alive /\ before[s] \cap alive = {}
  /\ Leave({s} \cup (before[s] \cap line))
  /\ alive' = alive \ {s}
  /\ served' = kept \cup {s}

\* The dead may be struck off at any time, and turns not taken may lapse.
Sweep(dead, kept) ==
  /\ dead \cap alive = {}
  /\ Leave(dead)
  /\ served' = kept
  /\ UNCHANGED alive

\* Somebody goes, from the line or after being called.
Depart(s) ==
  /\ Leave({s})
  /\ alive' = alive \ {s} /\ served' \in {served, served \ {s}}

\* Somebody falls silent, in the line or after being called; or is heard of again.
Fade(s) ==
  /\ alive' = alive \ {s} /\ served' \in {served, served \ {s}}
  /\ UNCHANGED <<line, coming, before, recent>>

Revive(s) ==
  /\ s \in line
  /\ alive' = alive \cup {s}
  /\ UNCHANGED <<line, coming, before, recent, served>>

Next ==
  \/ \E s \in Sessions : Draw(s) \/ Enter(s) \/ GiveUp(s) \/ Depart(s) \/ Fade(s) \/ Revive(s)
  \/ \E kept \in SUBSET served :
       \/ \E s \in line : Serve(s, kept)
       \/ \E dead \in SUBSET line : Sweep(dead, kept)
  \/ Tick

Spec == Init /\ [][Next]_lineVars
=============================================================================
