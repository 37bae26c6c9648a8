SPECIFICATION Spec
CONSTANTS
  b1 = b1
  b2 = b2
  b3 = b3
  r1 = r1
  Branch = {b1, b2, b3}
  NoBranch = NoBranch
  Caller <- MCCaller
  Resource = {r1}
  Names <- MCSharedNames
  LevelsToShow = 30
  MaxShown = 1
INVARIANTS RootPlotted
CHECK_DEADLOCK FALSE
