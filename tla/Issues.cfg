SPECIFICATION Spec
CONSTANTS
  Tx = {t1}
  RM = {m1, m2}
  NoRM = NoRM
  Session = {s1, s2}
  NoSession = NoSession
  Ref = {o1, o2, o3, o4}
  NoRef = NoRef
  MIN_NUMBER = 0
  THRESHOLD = 5
  Batch = 100
  MaxBatches = 1
INVARIANTS TypeOK ShownParsed ShownCurrent
SYMMETRY MCSymmetry
CHECK_DEADLOCK FALSE
