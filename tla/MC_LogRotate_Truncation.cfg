\* Two processes; the first rotates while the second opens the log file
\* between the rename and the creation of the new file.
CONSTANTS
  Procs = {p1, p2}
  NoProc = NoProc
  MaxSize = 1
  MaxLines = 3
  MaxInodes = 4
  OpenResults = {TRUE}
  WriteResults = {TRUE}
SPECIFICATION Spec
INVARIANT NoLineTruncated
