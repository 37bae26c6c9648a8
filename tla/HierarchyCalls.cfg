CONSTANTS
  p = p  s1 = s1  s2 = s2  s3 = s3
  t1 = t1  t2 = t2
  r1 = r1  r2 = r2  r3 = r3
  a = a  b = b
  Node <- CallNodes
  TxUid = {t1, t2}
  Request = {r1, r2, r3}
  Thread = {a, b}
  NoTxUid = NoTxUid
  NoRequest = NoRequest
  NoRecord = NoRecord
  NoRow = NoRow
  Log <- CallLog
  Lossy = {}
  MaxFailures = 0
  MaxRestarts = 0
SPECIFICATION FairSpec
INVARIANT TypeOK
INVARIANT NoOrphanRecord
PROPERTY HierarchyEstablished
PROPERTY RendezvousSpec
\* The logs are finite: the monitors stop at their ends.
CHECK_DEADLOCK FALSE
