\* A resume under a running check.
CONSTANTS
  Workers = {w1}
  Websites = {s1}
  Incidents = {i1}
  NoIncident = NoIncident
  NoWebsite = NoWebsite
  FailureThresholds = {2}
  RecoveryThresholds = {1}
  MaxStreak = 2
  Disturbances = {"pause"}
SPECIFICATION Spec
CHECK_DEADLOCK TRUE
PROPERTY StreakGrowsByOne
