\* Two owners edit each other at the same time.
CONSTANTS
  Users = {u1, u2}
  Founder = u1
  Requests = {r1, r2}
  Invitations = {i1}
  MaxMembers = 2
  MaxJoins = 1
  Rejoining = {}
SPECIFICATION Spec
SYMMETRY Symmetry
CHECK_DEADLOCK FALSE
INVARIANTS OwnerRemains
