SPECIFICATION FairSpec
CONSTANTS
  a = a
  b = b
  Tasks <- TwoTasks
  Limit = 1
  Budgets <- FewerCalls
INVARIANTS SlotsAccounted RunsAreWatched
PROPERTIES QueueMoves RowsSettle
CHECK_DEADLOCK FALSE
