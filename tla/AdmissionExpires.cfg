SPECIFICATION Spec
CONSTANTS
  Guests = {g1}
  Owner = Owner
  Handlers = {q1}
PROPERTY ApprovalLasts
CHECK_DEADLOCK FALSE
