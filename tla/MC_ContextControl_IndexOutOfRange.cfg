\* Three remote CStates, two local ones, five window pointers, two remote
\* tabs at most and two local tabs; two close requests may be pending.
CONSTANTS
  RemoteStates = {r1, r2, r3}
  LocalStates = {l1, l2}
  Pages = {g1, g2, g3, g4, g5}
  NoPage = NoPage
  NoState = NoState
  TabLimit = 2
  MaxLocal = 2
  MaxQueue = 2
SYMMETRY Symm
SPECIFICATION Spec
INVARIANT ControlsIndexInRange
