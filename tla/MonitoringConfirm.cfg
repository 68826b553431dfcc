\* Confirmation and recovery under every API edit, where no call fails.
CONSTANTS
  Workers = {w1}
  Websites = {s1}
  Incidents = {i1, i2}
  NoIncident = NoIncident
  NoWebsite = NoWebsite
  FailureThresholds = {1, 2}
  RecoveryThresholds = {1, 2}
  MaxStreak = 2
  Disturbances = {"pause", "urlEdit", "thresholds", "delete"}
SPECIFICATION Spec
SYMMETRY Symmetry
CHECK_DEADLOCK FALSE
INVARIANTS OutageConfirmed RecoveryConfirmed MirrorAgrees DownWhileOpen AnnouncementsComplete FailedChecksCover
