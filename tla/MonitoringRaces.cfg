\* Two pipelines that lose their leases to one another, while the API pauses
\* and deletes the website they check.
CONSTANTS
  Workers = {w1, w2}
  Websites = {s1}
  Incidents = {i1, i2}
  NoIncident = NoIncident
  NoWebsite = NoWebsite
  FailureThresholds = {1}
  RecoveryThresholds = {1}
  MaxStreak = 2
  Disturbances = {"overlap", "pause", "delete"}
SPECIFICATION Spec
SYMMETRY Symmetry
CHECK_DEADLOCK FALSE
INVARIANTS TypeOK OneOpenIncident SoleAnnouncer AnnouncedOnce StatusMatchesCounters
PROPERTIES HistoryKept ImplementsLog
