SPECIFICATION PageSpec
CONSTANTS
  Executions = {e1}
  Workers = {w1, w2}
  Dispatchers = {d1}
  NodeCount = 1
  MaxRetry = 1
  MaxFaults = 1
  MaxPublishAttempts = 2

INVARIANTS TypeOK NeverStranded CompletedHasHistory DeadLetterMeansEnded NoRerunWithoutRedelivery MisconfiguredNotRetried ShownEndIsFinal
PROPERTIES ImplementsLifecycle Settles EndReachesTimeline
CHECK_DEADLOCK FALSE
