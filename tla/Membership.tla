----------------------------- MODULE Membership -----------------------------
(***************************************************************************)
(* What one hold of the hub's mutex promises about a room's clients,        *)
(* however many evictions nest in it.  A client enters or some leave, all   *)
(* at once; a newcomer does not leave by its own entry; whoever leaves has  *)
(* its seat given back by somebody; and the alarm, the room's entry among   *)
(* the empty-room timers, is set when the last client leaves and only then. *)
(***************************************************************************)
CONSTANT Clients

VARIABLES
  members,   \* clients the hub has registered
  leaving,   \* clients out of the map whose seats somebody is about to give back
  alarm      \* the room has an empty-room timer

memberVars == <<members, leaving, alarm>>

Init == members = {} /\ leaving = {} /\ alarm = FALSE

Enter(c, gone) ==
  /\ c \notin members \cup leaving
  /\ members' = (members \ gone) \cup {c}
  /\ leaving' = leaving \cup gone
  /\ alarm' = FALSE

Exit(gone) ==
  /\ members' = members \ gone
  /\ leaving' = leaving \cup gone
  /\ alarm' = (members \ gone = {})

Return(c) ==
  /\ leaving' = leaving \ {c}
  /\ UNCHANGED <<members, alarm>>

\* The timer's callback has looked.
Quiet ==
  /\ members = {} \/ ~alarm
  /\ alarm' = FALSE
  /\ UNCHANGED <<members, leaving>>

\* A restart of the server.
Forget == members' = {} /\ leaving' = {} /\ alarm' = FALSE

Next ==
  \/ \E gone \in SUBSET members :
       (gone # {} /\ Exit(gone)) \/ \E c \in Clients : Enter(c, gone)
  \/ \E c \in Clients : Return(c)
  \/ Quiet \/ Forget

Spec == Init /\ [][Next]_memberVars
=============================================================================
