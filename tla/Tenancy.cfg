\* Three statements under way at once in one organization of three users.
CONSTANTS
  Orgs = {o1}
  Users = {u1, u2, u3}
  Calls = {c1, c2, c3}
SYMMETRY MCSymmetry
SPECIFICATION Spec
INVARIANTS NoOrphans OwnerlessNeedsOverlap
PROPERTIES RevokedStaysRevoked
