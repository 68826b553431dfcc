\* Liveness across crashes, failed calls, lost leases and pauses.
CONSTANTS
  Workers = {w1, w2}
  Websites = {s1}
  Incidents = {i1}
  NoIncident = NoIncident
  NoWebsite = NoWebsite
  FailureThresholds = {1}
  RecoveryThresholds = {2}
  MaxStreak = 2
  Disturbances = {"crash", "overlap", "pause"}
SPECIFICATION FairSpec
CHECK_DEADLOCK TRUE
PROPERTIES NeverStranded NamedOutageEnds
