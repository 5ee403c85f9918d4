SPECIFICATION Spec
CONSTANTS
  Limit <- LimitOne
  DayHours = 4
  OpenHour = 0
  CloseHour = 4
  PreKeys = {"welcome"}
  WelcomeKey = "welcome"
  PostKeys <- MCPostKeys
  Offset <- MCOffset
  StartsAt = 4
  EndsAt = 0
  Registrations <- JustRegistered
  Msgs = {m1}
  MaxAttempts = 2
  MaxTime = 1
  Passes = {p1}
  BatchSize = 2
  Lease = 1
  BackoffUnit = 1
  BackoffCap = 2
  Provider = "resend"
  MaxCrashes = 0
  Clients = {c1}
  Ops = {"status", "inbound", "public", "webhook", "delete"}
  Replies <- SomeReplies

PROPERTIES  StopHolds
CHECK_DEADLOCK FALSE
