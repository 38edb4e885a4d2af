SPECIFICATION Behaviours
CONSTANTS
  Peers = {a, b}
  Sharing = {a, b}
  Ceremonies = {x1, x2}
  Rotations = {r1}
  NoToken = NoToken
  MaxCode = 1
SYMMETRY SlotSymmetry
INVARIANTS
  OneCodeOnePairing
  Agreement
PROPERTIES
  OnlyPairingAdmits
CHECK_DEADLOCK FALSE
