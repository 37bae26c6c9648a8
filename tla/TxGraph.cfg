SPECIFICATION FairSpec
CONSTANTS
  b1 = b1
  b2 = b2
  b3 = b3
  r1 = r1
  Branch = {b1, b2, b3}
  NoBranch = NoBranch
  Caller <- MCCaller
  Resource = {r1}
  Names <- MCSharedNames
  LevelsToShow = 3
  MaxShown = 1
INVARIANTS TypeOK AskedShown ParticipantsPlotted PictureTrue
PROPERTIES LabelsSettle
CHECK_DEADLOCK FALSE
