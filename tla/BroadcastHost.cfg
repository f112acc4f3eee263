SPECIFICATION Spec
CONSTANTS
  Clients = {c1,c2,c3}
  People = {owner,g1}
  Owner = owner
  Handlers = {q1}
  Buffer = 6
  None = None
INVARIANT HostAgrees
SYMMETRY Symmetry
