\* The pending invitations of a plan that is nearly full.
CONSTANTS
  Users = {u1, u2, u3}
  Founder = u1
  Requests = {r1}
  Invitations = {i1, i2}
  MaxMembers = 2
  MaxJoins = 1
  Rejoining = {}
SPECIFICATION Spec
SYMMETRY Symmetry
CHECK_DEADLOCK FALSE
INVARIANTS MembersWithinPlan
