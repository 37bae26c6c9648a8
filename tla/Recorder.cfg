CONSTANTS
  TxUid = {t1}
  RM = {rm1, rm2}
  RmUid = {x1}
  NoRmUid = NoRmUid
  Server = Server
  MaxEvents = 6
SPECIFICATION Spec
INVARIANT TypeOK
INVARIANT StatusTold
\* The room for events is bounded.
CHECK_DEADLOCK FALSE
