\* Two operations at once on up to three keys, two instants.
CONSTANTS
  Keys = {k1, k2, k3}
  Callers = {c1, c2}
  Graces = {0, 1}
  Expiries = {1, 2}
  NoKey = NoKey
  Horizon = 1
SYMMETRY MCSymmetry
SPECIFICATION KeysSpec
INVARIANTS RefusalIsFinal NoOutage OneSuccessor
