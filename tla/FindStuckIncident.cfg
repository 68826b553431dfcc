\* A worker dies between the incident it opened and the website document, and
\* the website recovers.
CONSTANTS
  Workers = {w1}
  Websites = {s1}
  Incidents = {i1}
  NoIncident = NoIncident
  NoWebsite = NoWebsite
  FailureThresholds = {1}
  RecoveryThresholds = {1}
  MaxStreak = 1
  Disturbances = {"crash"}
SPECIFICATION FairSpec
CHECK_DEADLOCK TRUE
PROPERTY OutageEnds
