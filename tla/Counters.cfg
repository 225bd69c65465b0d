SPECIFICATION CounterSpec
CONSTANTS
  Counting = {1, 2}
  MaxCounts = 2
  MaxTotal = 3
  MaxCounterRestarts = 1
CHECK_DEADLOCK FALSE
INVARIANT PNTotalIsCounted
