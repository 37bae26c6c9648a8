CONSTANTS
  TxUid = {t1}
  RM = {rm1, rm2}
  Services = {"JTS"}
  NoRmUid = NoRmUid
  Server = Server
  MaxEvents = 20
  EndLogged = {TRUE}
  MaxUnread = 4
  MaxRestarts <- MCRestarts
  MaxReplays <- MCReplays
SPECIFICATION Spec
INVARIANT RollbackCaused
\* The server may stop after its last transaction.
CHECK_DEADLOCK FALSE
