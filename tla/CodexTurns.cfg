CONSTANTS
  t1 = t1
  t2 = t2
  t3 = t3
  Turn <- Turns
  Client <- Clients
  NoClient = 0
  Workers = 3
  Spare = 1
SPECIFICATION FairSpec
INVARIANTS NoClientLeaks NoOrphanTurn AnswerIsKept
PROPERTIES AbortedTurnReturns
