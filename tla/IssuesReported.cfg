SPECIFICATION Spec
CONSTANTS
  Tx = {t1, t2}
  RM = {m1, m2}
  NoRM = NoRM
  Session = {s1}
  NoSession = NoSession
  Ref = {o1, o2}
  NoRef = NoRef
  MIN_NUMBER = 1
  THRESHOLD = 5
  Batch = 90
  MaxBatches = 2
PROPERTIES ThresholdReported
CHECK_DEADLOCK FALSE
