SPECIFICATION FairSpec
CONSTANTS
  MaxPublishAttempts = 2
  Workers = {w1, w2}
  Profiles <- TwoProfiles
  MaxRetry = 1
  MaxFaults = 2
INVARIANTS TypeOK CommandAccountedFor  DeletedDataOnlyByRace QualificationMonotone
PROPERTIES ResultStays EnrichmentSettles
CHECK_DEADLOCK FALSE
