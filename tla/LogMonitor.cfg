CONSTANTS
  MaxDeploys = 2
  MaxStarts = 2
  MaxLines = 3
  MaxRenames = 1
  None = None
SPECIFICATION FairSpec
INVARIANT TypeOK
INVARIANT NoLineTwice
PROPERTY StopEnds
\* Everything may come to rest after the last deployment.
CHECK_DEADLOCK FALSE
