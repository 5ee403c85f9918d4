SPECIFICATION PageSpec
CONSTANTS
  Executions = {e1}
  Workers = {w1}
  Dispatchers = {d1}
  NodeCount = 1
  MaxRetry = 1
  MaxFaults = 1
  MaxPublishAttempts = 2
PROPERTY CreatedSettles
CHECK_DEADLOCK FALSE
