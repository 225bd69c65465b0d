SPECIFICATION CowSpec
CONSTANTS
  CowThreads = {t1, t2}
  Contents = {a, b}
  Inline = {a}
  CleanupBatch = 1
  MaxBlockIds = 2
  MaxPending = 2
  MaxHeld = 2
CHECK_DEADLOCK FALSE
INVARIANT BlockIdsUnique
