SPECIFICATION FairSpec
CONSTANTS
  Limit <- LimitOne
  DayHours = 4
  OpenHour = 1
  CloseHour = 4
  PreKeys = {"welcome"}
  WelcomeKey = "welcome"
  PostKeys <- NoPostKeys
  Offset <- MCOffset
  StartsAt = 4
  EndsAt = 0
  Registrations <- JustRegistered
  Msgs = {m1, m2}
  MaxAttempts = 2
  MaxTime = 1
  Passes = {p1, p2}
  BatchSize = 1
  Lease = 1
  BackoffUnit = 1
  BackoffCap = 2
  Provider = "resend"
  MaxCrashes = 1
  Clients = {}
  Ops = {}
  Replies = {}

PROPERTY ActionsSettle
CHECK_DEADLOCK FALSE
