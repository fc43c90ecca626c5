CONSTANTS
  MaxRetries = 2
  PollLimit = 2
  Nil = Nil
SPECIFICATION AdapterSpec
INVARIANTS RowsFollowJobs DeliveredIsResult
PROPERTIES PaidOnce
CHECK_DEADLOCK FALSE
