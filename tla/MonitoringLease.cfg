\* Leases that outlast checks, across crashes, failed calls and edits.
CONSTANTS
  Workers = {w1, w2}
  Websites = {s1}
  Incidents = {i1, i2}
  NoIncident = NoIncident
  NoWebsite = NoWebsite
  FailureThresholds = {1, 3}
  RecoveryThresholds = {1}
  MaxStreak = 3
  Disturbances = {"crash", "writeError", "thresholds", "delete"}
SPECIFICATION Spec
SYMMETRY Symmetry
CHECK_DEADLOCK FALSE
INVARIANT LeaseExclusion
PROPERTY StreakGrowsByOne
