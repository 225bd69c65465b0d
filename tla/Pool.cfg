SPECIFICATION FairConnectionSpec
CONSTANTS
  Tasks = {t1, t2}
  Edges = {e1}
  MaxTotal = 2
  MaxPerEdge = 1
  MaxConnIds = 3
  MaxSemaphores = 2
CHECK_DEADLOCK FALSE
PROPERTY WaitingAcquireIsServed
