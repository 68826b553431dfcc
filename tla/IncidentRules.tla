---------------------------- MODULE IncidentRules ----------------------------
(***************************************************************************)
(* The pure decision logic of incident confirmation and display status:    *)
(* src/apps/worker/src/monitoring/incident-rules.ts.  No state.            *)
(*                                                                         *)
(* A check outcome is abstracted to what the rules tell apart: "up" (fast  *)
(* enough), "slow" (up, but at or over DEGRADED_RESPONSE_TIME_MS) and      *)
(* "down" (down, timeout or error).                                        *)
(***************************************************************************)
EXTENDS Naturals

CheckOutcomes == {"up", "slow", "down"}
Transitions == {"open", "resolve", "ongoing", "none"}
WebsiteStatuses == {"operational", "degraded", "down", "paused", "unknown"}

IsSuccessfulCheck(outcome) == outcome # "down"

\* Mutants of DeriveCounters: an interrupted streak that is not reset.
FailuresSurviveSuccess(previous, checkSucceeded) ==
  IF checkSucceeded
  THEN [failures |-> previous.failures, successes |-> previous.successes + 1]
  ELSE [failures |-> previous.failures + 1, successes |-> 0]

SuccessesSurviveFailure(previous, checkSucceeded) ==
  IF checkSucceeded
  THEN [failures |-> 0, successes |-> previous.successes + 1]
  ELSE [failures |-> previous.failures + 1, successes |-> previous.successes]

(* Rolls one outcome into the running streaks; `previous` is any record    *)
(* with the two counters.                                                  *)
DeriveCounters(previous, checkSucceeded) ==
  IF checkSucceeded
  THEN [failures |-> 0, successes |-> previous.successes + 1]
  ELSE [failures |-> previous.failures + 1, successes |-> 0]

\* Mutant of DecideIncidentTransition: an incident waits for failures to end.
ResolvesOnFailures(counters, failureThreshold, recoveryThreshold, hasOpen) ==
  IF hasOpen
  THEN IF counters.failures >= recoveryThreshold THEN "resolve" ELSE "ongoing"
  ELSE IF counters.failures >= failureThreshold THEN "open" ELSE "none"

(* What this check does to the website's incident.                         *)
DecideIncidentTransition(counters, failureThreshold, recoveryThreshold, hasOpen) ==
  IF hasOpen
  THEN IF counters.successes >= recoveryThreshold THEN "resolve" ELSE "ongoing"
  ELSE IF counters.failures >= failureThreshold THEN "open" ELSE "none"

\* Mutants of DeriveDisplayStatus: the check outcome is shown as it is; the
\* latest check wins over the open incident.
RawStatus(outcome, hasOpenAfter) == IF hasOpenAfter THEN "down" ELSE outcome

StatusOfLatestCheck(outcome, hasOpenAfter) ==
  CASE outcome = "up" -> "operational"
    [] outcome = "slow" -> "degraded"
    [] outcome = "down" -> IF hasOpenAfter THEN "down" ELSE "degraded"

(* The open incident decides; only without one does the latest check.      *)
DeriveDisplayStatus(outcome, hasOpenAfter) ==
  CASE hasOpenAfter -> "down"
    [] ~hasOpenAfter /\ outcome = "up" -> "operational"
    [] ~hasOpenAfter /\ outcome # "up" -> "degraded"
=============================================================================
