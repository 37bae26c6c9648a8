CONSTANTS
  TxUid = {t1}
  RM = {rm1, rm2}
  Services = {"JTA", "JTS"}
  NoRmUid = NoRmUid
  Server = Server
  MaxEvents = 20
  EndLogged = {TRUE, FALSE}
  MaxUnread = 4
  MaxRestarts <- MCRestarts
  MaxReplays <- MCReplays
SPECIFICATION FairSpec
INVARIANT TypeOK
INVARIANT NoFalseBlame
INVARIANT VotesExplained
INVARIANT StatusCurrent
INVARIANT EndTimed
PROPERTY VerdictSpec
PROPERTY BallotSpec
PROPERTY EndShown
\* The server may stop after its last transaction.
CHECK_DEADLOCK FALSE
