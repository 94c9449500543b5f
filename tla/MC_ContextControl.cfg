\* Three remote CStates, two local ones, four window pointers, two remote
\* tabs at most and two local tabs; one close request pending at a time,
\* so that the nested event loop of a busy tab's prompt handles the
\* engine's notifications and a second launch's CreateRemoteTab.
CONSTANTS
  RemoteStates = {r1, r2, r3}
  LocalStates = {l1, l2}
  Pages = {g1, g2, g3, g4}
  NoPage = NoPage
  NoState = NoState
  TabLimit = 2
  MaxLocal = 2
  MaxQueue = 1
SYMMETRY Symm
SPECIFICATION Spec
INVARIANT TypeOK
