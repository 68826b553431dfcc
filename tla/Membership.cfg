\* Two requests in flight, of whatever kind.
CONSTANTS
  Users = {u1, u2}
  Founder = u1
  Requests = {r1, r2}
  Invitations = {i1, i2}
  MaxMembers = 2
  MaxJoins = 2
  Rejoining = {u2}
SPECIFICATION Spec
SYMMETRY Symmetry
CHECK_DEADLOCK FALSE
INVARIANTS TypeOK OnePending AcceptedHasJoined
PROPERTIES LastOwnerGuarded InvitationsAreFinal OwnershipIsConferred
