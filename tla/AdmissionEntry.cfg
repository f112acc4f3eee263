SPECIFICATION Spec
CONSTANTS
  Guests = {g1}
  Owner = Owner
  Handlers = {q1,q2,q3}
SYMMETRY Symmetry
INVARIANTS TypeOK OnlyApprovedEnter OnlyHostsPublish
PROPERTIES SettledForGood 
CHECK_DEADLOCK FALSE
