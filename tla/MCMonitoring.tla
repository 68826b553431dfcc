---------------------------- MODULE MCMonitoring -----------------------------
(* Monitoring for TLC: the symmetry of the safety runs.                    *)
EXTENDS MonitoringProperties, TLC

Symmetry ==
  Permutations(Workers) \cup Permutations(Websites) \cup Permutations(Incidents)
=============================================================================
