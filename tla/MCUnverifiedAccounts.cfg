SPECIFICATION ReaperSpec
CONSTANTS
  N = 2
  Replicas = {r1, r2}
  BatchSize = 1
PROPERTIES OnlyAbandonedDeleted AbandonedAreDeleted
CHECK_DEADLOCK FALSE
