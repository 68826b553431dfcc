\* A website is deleted under a running check.
CONSTANTS
  Workers = {w1}
  Websites = {s1}
  Incidents = {i1, i2}
  NoIncident = NoIncident
  NoWebsite = NoWebsite
  FailureThresholds = {1}
  RecoveryThresholds = {1}
  MaxStreak = 1
  Disturbances = {"delete"}
SPECIFICATION Spec
CHECK_DEADLOCK FALSE
INVARIANT NothingLeftBehind
