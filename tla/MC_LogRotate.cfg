\* Three processes share one log file; two log calls each and a limit of one
\* line make every process rotate, and three rotations race.  Opens and
\* writes may fail.
CONSTANTS
  Procs = {p1, p2, p3}
  NoProc = NoProc
  MaxSize = 1
  MaxLines = 2
  MaxInodes = 6
  OpenResults = {TRUE, FALSE}
  WriteResults = {TRUE, FALSE}
SPECIFICATION Spec
INVARIANT TypeOK
INVARIANT RenameHoldsLock
INVARIANT RotatedLogWasFull
PROPERTY LogReturns
