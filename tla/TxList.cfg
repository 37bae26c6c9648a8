SPECIFICATION FairSpec
CONSTANTS
  Tx = {t1}
  Window = {w1}
  Connection = {c1, c2}
  MaxChoices = 2
INVARIANTS TypeOK TablesWereTrue
PROPERTIES PageSettles
