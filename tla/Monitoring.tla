----------------------------- MODULE Monitoring ------------------------------
(***************************************************************************)
(* The monitoring pipeline: every database call a worker makes for one     *)
(* claimed website, from the claim to the release, interleaved with the    *)
(* pipelines of the other workers and with the API's edits of the same     *)
(* website documents.                                                      *)
(*                                                                         *)
(* Sources: apps/worker/src/monitoring/{scheduler,check-runner,            *)
(* result-processor,incident-service,notification-service}.ts,             *)
(* apps/api/src/websites/website.{service,repository}.ts and the indexes   *)
(* of packages/database/src/models/{website,incident}.ts.                  *)
(*                                                                         *)
(* Each action is one call to the database, which is the unit MongoDB      *)
(* makes atomic, together with the synchronous code after it.  Time is     *)
(* abstracted: `due` says nextCheckAt <= now, and a lease is "free", "held"*)
(* or "expired" (leaseExpiresAt <= now).                                   *)
(***************************************************************************)
EXTENDS IncidentRules, FiniteSets

CONSTANTS
  Workers,             \* worker processes
  Websites,            \* website ids
  Incidents,           \* incident ids: the bound on incidents ever created
  NoIncident,          \* the null incident reference
  NoWebsite,           \* the site of an incident not yet created
  FailureThresholds,   \* the failureThreshold values a website may have
  RecoveryThresholds,  \* the recoveryThreshold values a website may have
  MaxStreak,           \* streaks of this length or more are not told apart
  Disturbances         \* what may go wrong or be edited in this instance

AllDisturbances ==
  {"crash", "writeError", "overlap", "pause", "urlEdit", "thresholds", "delete"}

ASSUME MonitoringAssumption ==
  /\ NoIncident \notin Incidents
  /\ NoWebsite \notin Websites
  /\ FailureThresholds # {} /\ RecoveryThresholds # {}
  /\ MaxStreak \in Nat
  /\ FailureThresholds \subseteq 1..MaxStreak
  /\ RecoveryThresholds \subseteq 1..MaxStreak
  /\ Disturbances \subseteq AllDisturbances

VARIABLES
  website,   \* the websites collection
  checks,    \* per website, the final run of its check documents
  incident,  \* the incidents collection
  mail,      \* per incident, how many times each announcement was sent
  pc,        \* pc[p][w]: where worker p's pipeline for website w is
  ctx,       \* ctx[p][w]: what that pipeline holds in memory
  edit,      \* what a URL edit in flight has read of monitoringEnabled
  purge      \* how far the deletion of a website's children has come

vars == <<website, checks, incident, mail, pc, ctx, edit, purge>>

-----------------------------------------------------------------------------
(* Types.                                                                  *)

Streak == 0..MaxStreak
IncidentRef == Incidents \cup {NoIncident}
PipelineStates ==
  {"idle", "checking", "opening", "adopting", "resolving", "closing",
   "counting", "saving", "notifying", "sending", "releasing"}
Announcements == {"down", "recovered"}

WebsiteDoc ==
  [life : {"absent", "live", "deleted"}, enabled : BOOLEAN,
   status : WebsiteStatuses, failures : Streak, successes : Streak,
   current : IncidentRef, lease : {"free", "held", "expired"}, due : BOOLEAN,
   failureThreshold : FailureThresholds, recoveryThreshold : RecoveryThresholds]

IncidentDoc ==
  [status : {"unused", "open", "resolved", "deleted"}, site : Websites \cup {NoWebsite},
   failedChecks : Streak, downNotified : BOOLEAN, recoveryNotified : BOOLEAN]

Context ==
  [failures : Streak, successes : Streak, current : IncidentRef,
   failureThreshold : FailureThresholds, recoveryThreshold : RecoveryThresholds,
   outcome : CheckOutcomes, notice : Announcements \cup {"none"},
   subject : IncidentRef]

TypeOK ==
  /\ website \in [Websites -> WebsiteDoc]
  /\ checks \in [Websites -> [ok : BOOLEAN, run : Streak]]
  /\ incident \in [Incidents -> IncidentDoc]
  /\ mail \in [Incidents -> [Announcements -> Nat]]
  /\ pc \in [Workers -> [Websites -> PipelineStates]]
  /\ ctx \in [Workers -> [Websites -> Context]]
  /\ edit \in [Websites -> {"none", "sawEnabled", "sawPaused"}]
  /\ purge \in [Websites -> {"none", "incidents", "checks", "done"}]

-----------------------------------------------------------------------------
(* Helpers.                                                                *)

Live(w) == website[w].life = "live"
At(p, w, l) == pc[p][w] = l
Goto(p, w, l) == pc' = [pc EXCEPT ![p][w] = l]
Hold(p, w, c) == ctx' = [ctx EXCEPT ![p][w] = c]
Store(w, d) == website' = [website EXCEPT ![w] = d]
Record(i, d) == incident' = [incident EXCEPT ![i] = d]
OpenOn(w) == {i \in Incidents : incident[i].status = "open" /\ incident[i].site = w}
Unused == {i \in Incidents : incident[i].status = "unused"}
Capped(n) == IF n < MaxStreak THEN n ELSE MaxStreak
CappedCounters(c) ==
  [failures |-> Capped(c.failures), successes |-> Capped(c.successes)]

(* No pipeline of any worker is inside website w.                          *)
Quiet(w) == \A p \in Workers : At(p, w, "idle")

(* The memory of a pipeline that holds nothing; its threshold fields are   *)
(* any legal value, they are never read before a claim overwrites them.    *)
EmptyContext ==
  [failures |-> 0, successes |-> 0, current |-> NoIncident,
   failureThreshold |-> CHOOSE f \in FailureThresholds : TRUE,
   recoveryThreshold |-> CHOOSE r \in RecoveryThresholds : TRUE,
   outcome |-> "up", notice |-> "none", subject |-> NoIncident]

(* toClaimedWebsite: the fields the whole check then works from.           *)
Snapshot(w) ==
  [EmptyContext EXCEPT
     !.failures = website[w].failures, !.successes = website[w].successes,
     !.current = website[w].current,
     !.failureThreshold = website[w].failureThreshold,
     !.recoveryThreshold = website[w].recoveryThreshold]

Init ==
  /\ website = [w \in Websites |->
       [life |-> "absent", enabled |-> FALSE, status |-> "unknown",
        failures |-> 0, successes |-> 0, current |-> NoIncident,
        lease |-> "free", due |-> FALSE,
        failureThreshold |-> EmptyContext.failureThreshold,
        recoveryThreshold |-> EmptyContext.recoveryThreshold]]
  /\ checks = [w \in Websites |-> [ok |-> TRUE, run |-> 0]]
  /\ incident = [i \in Incidents |->
       [status |-> "unused", site |-> NoWebsite, failedChecks |-> 0,
        downNotified |-> FALSE, recoveryNotified |-> FALSE]]
  /\ mail = [i \in Incidents |-> [a \in Announcements |-> 0]]
  /\ pc = [p \in Workers |-> [w \in Websites |-> "idle"]]
  /\ ctx = [p \in Workers |-> [w \in Websites |-> EmptyContext]]
  /\ edit = [w \in Websites |-> "none"]
  /\ purge = [w \in Websites |-> "none"]

-----------------------------------------------------------------------------
(* The scheduler (scheduler.ts).                                           *)

\* Mutants of Claimable: the lease ignored, and an expired lease refused.
ClaimableLeased(w) == Live(w) /\ website[w].enabled /\ website[w].due
ClaimableUnleased(w) ==
  Live(w) /\ website[w].enabled /\ website[w].due /\ website[w].lease = "free"

(* The filter of claimOne.  That the oldest due website is taken first is  *)
(* left open: any claimable one may be.                                    *)
Claimable(w) ==
  Live(w) /\ website[w].enabled /\ website[w].due /\ website[w].lease # "held"

(* claimOne: one atomic findOneAndUpdate.                                  *)
Claim(p, w) ==
  /\ At(p, w, "idle")
  /\ Claimable(w)
  /\ Store(w, [website[w] EXCEPT !.lease = "held"])
  /\ Hold(p, w, Snapshot(w))
  /\ Goto(p, w, "checking")
  /\ UNCHANGED <<checks, incident, mail, edit, purge>>

(* The lease's end is reached.  leaseDurationMs is computed to outlast any *)
(* check; only with "overlap" may it end under a running pipeline.         *)
ExpireLease(w) ==
  /\ website[w].lease = "held"
  /\ "overlap" \in Disturbances \/ Quiet(w)
  /\ Store(w, [website[w] EXCEPT !.lease = "expired"])
  /\ UNCHANGED <<checks, incident, mail, pc, ctx, edit, purge>>

(* nextCheckAt is reached.                                                 *)
BecomeDue(w) ==
  /\ Live(w) /\ ~website[w].due
  /\ Store(w, [website[w] EXCEPT !.due = TRUE])
  /\ UNCHANGED <<checks, incident, mail, pc, ctx, edit, purge>>

(* releaseAndReschedule: by _id alone, whoever holds the lease by now; on  *)
(* a website deleted meanwhile it matches nothing.                         *)
Release(p, w) ==
  /\ At(p, w, "releasing")
  /\ IF Live(w)
     THEN Store(w, [website[w] EXCEPT !.lease = "free", !.due = FALSE])
     ELSE UNCHANGED website
  /\ Hold(p, w, EmptyContext)
  /\ Goto(p, w, "idle")
  /\ UNCHANGED <<checks, incident, mail, edit, purge>>

(* The release write fails: logged, and the lease is left to expire.       *)
ReleaseFails(p, w) ==
  /\ "writeError" \in Disturbances
  /\ At(p, w, "releasing")
  /\ Hold(p, w, EmptyContext)
  /\ Goto(p, w, "idle")
  /\ UNCHANGED <<website, checks, incident, mail, edit, purge>>

-----------------------------------------------------------------------------
(* Processing the result (result-processor.ts, incident-service.ts).       *)

(* The final run of a website's check documents after one more of them.    *)
ExtendRun(c, ok) == [ok |-> ok, run |-> IF c.ok = ok THEN Capped(c.run + 1) ELSE 1]

\* Mutant of AfterDecision: an ongoing incident is never written to.
OngoingWritesNothing(transition, checkSucceeded) ==
  CASE transition \in {"none", "ongoing"} -> "saving"
    [] transition = "open" -> "opening"
    [] transition = "resolve" -> "resolving"

(* Where the decision sends the pipeline.  An ongoing incident is written  *)
(* to only by a failing check.  (The missing-id branch of the code cannot  *)
(* be taken: hasOpenIncident is currentIncidentId # null.)                 *)
AfterDecision(transition, checkSucceeded) ==
  CASE transition = "none" -> "saving"
    [] transition = "open" -> "opening"
    [] transition = "resolve" -> "resolving"
    [] transition = "ongoing" -> IF checkSucceeded THEN "saving" ELSE "counting"

(* The check has run, its document is inserted, and the transition is      *)
(* decided from the counters of the claim, not from the database's.        *)
(* Bound: a check fails only while an incident id is left for each site.   *)
RecordCheck(p, w, outcome) ==
  LET ok == IsSuccessfulCheck(outcome)
      counters == CappedCounters(DeriveCounters(ctx[p][w], ok))
      transition == DecideIncidentTransition(
                      counters, ctx[p][w].failureThreshold,
                      ctx[p][w].recoveryThreshold,
                      ctx[p][w].current # NoIncident)
  IN /\ At(p, w, "checking")
     /\ ok \/ Cardinality(Unused) >= Cardinality(Websites)
     /\ checks' = [checks EXCEPT ![w] = ExtendRun(checks[w], ok)]
     /\ Hold(p, w, [ctx[p][w] EXCEPT !.failures = counters.failures,
                                     !.successes = counters.successes,
                                     !.outcome = outcome])
     /\ Goto(p, w, AfterDecision(transition, ok))
     /\ UNCHANGED <<website, incident, mail, edit, purge>>

\* Mutant of IndexAdmits: the partial unique index is not there.
NoIndex(w) == TRUE

(* incident_one_open_per_website: unique over websiteId where status open. *)
IndexAdmits(w) == OpenOn(w) = {}

(* openIncident, the insert.  Bound: an unused id must be left.            *)
OpenIncident(p, w) ==
  /\ At(p, w, "opening")
  /\ IndexAdmits(w)
  /\ \E i \in Unused :
       /\ Record(i, [incident[i] EXCEPT !.status = "open", !.site = w,
                                        !.failedChecks = ctx[p][w].failures])
       /\ Hold(p, w, [ctx[p][w] EXCEPT !.current = i, !.notice = "down",
                                       !.subject = i])
  /\ Goto(p, w, "saving")
  /\ UNCHANGED <<website, checks, mail, edit, purge>>

(* openIncident, the insert fails with a duplicate key.                    *)
OpenLosesRace(p, w) ==
  /\ At(p, w, "opening")
  /\ ~IndexAdmits(w)
  /\ Goto(p, w, "adopting")
  /\ UNCHANGED <<website, checks, incident, mail, ctx, edit, purge>>

(* openIncident after a lost race: the open incident is read back, which   *)
(* may be gone again, and is not this pipeline's to announce.              *)
AdoptIncident(p, w) ==
  /\ At(p, w, "adopting")
  /\ \E i \in IncidentRef :
       /\ IF OpenOn(w) = {} THEN i = NoIncident ELSE i \in OpenOn(w)
       /\ Hold(p, w, [ctx[p][w] EXCEPT !.current = i])
  /\ Goto(p, w, "saving")
  /\ UNCHANGED <<website, checks, incident, mail, edit, purge>>

(* resolveIncident, the read: only an incident still open goes on.         *)
ReadIncident(p, w) ==
  /\ At(p, w, "resolving")
  /\ IF incident[ctx[p][w].current].status = "open"
     THEN /\ Goto(p, w, "closing")
          /\ UNCHANGED ctx
     ELSE /\ Goto(p, w, "saving")
          /\ Hold(p, w, [ctx[p][w] EXCEPT !.current = NoIncident])
  /\ UNCHANGED <<website, checks, incident, mail, edit, purge>>

\* Mutants of CloseMatches and CountMatches: the filter is the _id alone.
CloseAny(i) == TRUE
CountAny(i) == TRUE

(* The filters of the two conditional updates of an incident.              *)
CloseMatches(i) == incident[i].status = "open"
CountMatches(i) == incident[i].status = "open"

(* resolveIncident, the update: only the pipeline whose update modified    *)
(* the incident announces the recovery.                                    *)
CloseIncident(p, w) ==
  LET i == ctx[p][w].current
      won == CloseMatches(i)
  IN /\ At(p, w, "closing")
     /\ IF won THEN Record(i, [incident[i] EXCEPT !.status = "resolved"])
        ELSE UNCHANGED incident
     /\ Hold(p, w, [ctx[p][w] EXCEPT !.current = NoIncident,
                     !.subject = IF won THEN i ELSE NoIncident,
                     !.notice = IF won THEN "recovered" ELSE "none"])
     /\ Goto(p, w, "saving")
     /\ UNCHANGED <<website, checks, mail, edit, purge>>

(* 'ongoing' with a failing check: $inc on the incident while it is open;  *)
(* the claimed reference is kept even when the update matched nothing.     *)
CountFailure(p, w) ==
  LET i == ctx[p][w].current
  IN /\ At(p, w, "counting")
     /\ IF CountMatches(i)
        THEN Record(i, [incident[i] EXCEPT
                          !.failedChecks = Capped(incident[i].failedChecks + 1)])
        ELSE UNCHANGED incident
     /\ Goto(p, w, "saving")
     /\ UNCHANGED <<website, checks, mail, ctx, edit, purge>>

\* Mutant of Saved: the streaks are added to the stored ones.
SavedIncrementing(d, c) ==
  [d EXCEPT !.status = DeriveDisplayStatus(c.outcome, c.current # NoIncident),
            !.failures = @ + c.failures, !.successes = @ + c.successes,
            !.current = c.current]

(* The $set of processCheckResult: every field from the claim's snapshot.  *)
Saved(d, c) ==
  [d EXCEPT !.status = DeriveDisplayStatus(c.outcome, c.current # NoIncident),
            !.failures = c.failures, !.successes = c.successes,
            !.current = c.current]

(* What remains in memory once the website document is written.            *)
NoticeOnly(c) == [EmptyContext EXCEPT !.notice = c.notice, !.subject = c.subject]

(* processCheckResult, the website write: by _id alone, whatever was       *)
(* written since the claim; then only a fresh transition is notified.      *)
SaveWebsite(p, w) ==
  LET c == ctx[p][w]
  IN /\ At(p, w, "saving")
     /\ IF Live(w) THEN Store(w, Saved(website[w], c)) ELSE UNCHANGED website
     /\ Hold(p, w, NoticeOnly(c))
     /\ Goto(p, w, IF c.notice = "none" THEN "releasing" ELSE "notifying")
     /\ UNCHANGED <<checks, incident, mail, edit, purge>>

-----------------------------------------------------------------------------
(* Notifying (notification-service.ts), down to one dispatch per event;    *)
(* the recipients of a dispatch are the subject of module Notifications.   *)

\* Mutant of Notified: either flag stands for both events.
NotifiedOfEither(i, a) == incident[i].downNotified \/ incident[i].recoveryNotified

Notified(i, a) ==
  IF a = "down" THEN incident[i].downNotified ELSE incident[i].recoveryNotified

WithFlag(d, a) ==
  IF a = "down" THEN [d EXCEPT !.downNotified = TRUE]
  ELSE [d EXCEPT !.recoveryNotified = TRUE]

(* claimDispatch: the flag is set before anything is sent, by whoever      *)
(* finds it null on a document that still exists.                          *)
ClaimDispatch(p, w) ==
  LET i == ctx[p][w].subject
      a == ctx[p][w].notice
      won == incident[i].status # "deleted" /\ ~Notified(i, a)
  IN /\ At(p, w, "notifying")
     /\ IF won THEN Record(i, WithFlag(incident[i], a)) ELSE UNCHANGED incident
     /\ Goto(p, w, IF won THEN "sending" ELSE "releasing")
     /\ UNCHANGED <<website, checks, mail, ctx, edit, purge>>

\* Mutant of SendNotice: a dispatch is repeated until something ends it.
SendAgain(p, w) ==
  LET i == ctx[p][w].subject
      a == ctx[p][w].notice
      found == IF a = "down" THEN incident[i].status # "deleted"
               ELSE incident[i].status = "resolved"
  IN /\ At(p, w, "sending")
     /\ mail' = IF found THEN [mail EXCEPT ![i][a] = @ + 1] ELSE mail
     /\ \E l \in {"sending", "releasing"} : Goto(p, w, l)
     /\ UNCHANGED <<website, checks, incident, ctx, edit, purge>>

(* notifyWebsiteDown and notifyWebsiteRecovered after the claim: the       *)
(* incident is read back and, if it is there, the event is dispatched.     *)
SendNotice(p, w) ==
  LET i == ctx[p][w].subject
      a == ctx[p][w].notice
      found == IF a = "down" THEN incident[i].status # "deleted"
               ELSE incident[i].status = "resolved"
  IN /\ At(p, w, "sending")
     /\ mail' = IF found THEN [mail EXCEPT ![i][a] = @ + 1] ELSE mail
     /\ Goto(p, w, "releasing")
     /\ UNCHANGED <<website, checks, incident, ctx, edit, purge>>

-----------------------------------------------------------------------------
(* What goes wrong in a worker (check-runner.ts, main.ts).                 *)

(* A database call throws: the pipeline is abandoned where it is and the   *)
(* finally block releases.  A reply lost after the write took effect is    *)
(* the action that writes, then this one.                                  *)
AbandonPipeline(p, w) ==
  /\ "writeError" \in Disturbances
  /\ pc[p][w] \notin {"idle", "releasing"}
  /\ Goto(p, w, "releasing")
  /\ UNCHANGED <<website, checks, incident, mail, ctx, edit, purge>>

(* The process ends (crash, or the shutdown watchdog) with every pipeline  *)
(* it was running, and is started again with none.                         *)
Crash(p) ==
  /\ "crash" \in Disturbances
  /\ \E w \in Websites : ~At(p, w, "idle")
  /\ pc' = [pc EXCEPT ![p] = [w \in Websites |-> "idle"]]
  /\ ctx' = [ctx EXCEPT ![p] = [w \in Websites |-> EmptyContext]]
  /\ UNCHANGED <<website, checks, incident, mail, edit, purge>>

-----------------------------------------------------------------------------
(* The API's edits of the same documents (website.service.ts).  None of    *)
(* them looks at the lease or at currentIncidentId.                        *)

(* create: due at once, so the next tick picks it up.                      *)
CreateWebsite(w) ==
  /\ website[w].life = "absent"
  /\ \E f \in FailureThresholds, r \in RecoveryThresholds :
       Store(w, [website[w] EXCEPT
                   !.life = "live", !.enabled = TRUE, !.due = TRUE,
                   !.failureThreshold = f, !.recoveryThreshold = r])
  /\ UNCHANGED <<checks, incident, mail, pc, ctx, edit, purge>>

\* Mutants of Restarted: the streaks survive; the incident is let go of.
RestartedWithStreaks(d, status) == [d EXCEPT !.status = status, !.due = TRUE]
RestartedWithoutIncident(d, status) ==
  [d EXCEPT !.status = status, !.failures = 0, !.successes = 0, !.due = TRUE,
            !.current = NoIncident]

(* The fields by which both edits restart the confirmation.                *)
Restarted(d, status) ==
  [d EXCEPT !.status = status, !.failures = 0, !.successes = 0, !.due = TRUE]

(* setMonitoring: pause or resume.  The document it reads first is only    *)
(* checked to exist, which the update's own filter checks again.           *)
SetMonitoring(w, enabled) ==
  /\ "pause" \in Disturbances
  /\ Live(w)
  /\ Store(w, [Restarted(website[w], IF enabled THEN "unknown" ELSE "paused")
                 EXCEPT !.enabled = enabled])
  /\ UNCHANGED <<checks, incident, mail, pc, ctx, edit, purge>>

(* update to another canonical URL, the read of the existing document.     *)
BeginUrlEdit(w) ==
  /\ "urlEdit" \in Disturbances
  /\ Live(w) /\ edit[w] = "none"
  /\ edit' = [edit EXCEPT
       ![w] = IF website[w].enabled THEN "sawEnabled" ELSE "sawPaused"]
  /\ UNCHANGED <<website, checks, incident, mail, pc, ctx, purge>>

(* update, the write: the status follows the monitoringEnabled that was    *)
(* read, whatever it is by now; on a website deleted since, not found.     *)
CommitUrlEdit(w) ==
  /\ edit[w] # "none"
  /\ edit' = [edit EXCEPT ![w] = "none"]
  /\ IF Live(w)
     THEN Store(w, Restarted(website[w],
                     IF edit[w] = "sawEnabled" THEN "unknown" ELSE "paused"))
     ELSE UNCHANGED website
  /\ UNCHANGED <<checks, incident, mail, pc, ctx, purge>>

(* update, the write refused: the new URL is monitored already.            *)
RefuseUrlEdit(w) ==
  /\ edit[w] # "none"
  /\ edit' = [edit EXCEPT ![w] = "none"]
  /\ UNCHANGED <<website, checks, incident, mail, pc, ctx, purge>>

(* update of the thresholds alone: the streaks are kept.                   *)
EditThresholds(w, f, r) ==
  /\ "thresholds" \in Disturbances
  /\ Live(w)
  /\ <<f, r>> # <<website[w].failureThreshold, website[w].recoveryThreshold>>
  /\ Store(w, [website[w] EXCEPT !.failureThreshold = f,
                                 !.recoveryThreshold = r])
  /\ UNCHANGED <<checks, incident, mail, pc, ctx, edit, purge>>

(* delete, the first of its three calls: the website itself.               *)
DeleteWebsite(w) ==
  /\ "delete" \in Disturbances
  /\ Live(w)
  /\ Store(w, [website[w] EXCEPT !.life = "deleted"])
  /\ purge' = [purge EXCEPT ![w] = "incidents"]
  /\ UNCHANGED <<checks, incident, mail, pc, ctx, edit>>

(* delete, deleteIncidentsFor.                                             *)
PurgeIncidents(w) ==
  /\ purge[w] = "incidents"
  /\ incident' = [i \in Incidents |->
       IF incident[i].site = w THEN [incident[i] EXCEPT !.status = "deleted"]
       ELSE incident[i]]
  /\ purge' = [purge EXCEPT ![w] = "checks"]
  /\ UNCHANGED <<website, checks, mail, pc, ctx, edit>>

(* delete, deleteChecksFor, which the response does not wait for.          *)
PurgeChecks(w) ==
  /\ purge[w] = "checks"
  /\ checks' = [checks EXCEPT ![w] = [ok |-> TRUE, run |-> 0]]
  /\ purge' = [purge EXCEPT ![w] = "done"]
  /\ UNCHANGED <<website, incident, mail, pc, ctx, edit>>

(* delete, a purge that throws or dies with the API process.               *)
PurgeFails(w) ==
  /\ "writeError" \in Disturbances
  /\ purge[w] \in {"incidents", "checks"}
  /\ purge' = [purge EXCEPT ![w] = "done"]
  /\ UNCHANGED <<website, checks, incident, mail, pc, ctx, edit>>

-----------------------------------------------------------------------------
(* Every step a pipeline takes of itself after its claim.                  *)
PipelineStep(p, w) ==
  \/ \E o \in CheckOutcomes : RecordCheck(p, w, o)
  \/ OpenIncident(p, w)
  \/ OpenLosesRace(p, w)
  \/ AdoptIncident(p, w)
  \/ ReadIncident(p, w)
  \/ CloseIncident(p, w)
  \/ CountFailure(p, w)
  \/ SaveWebsite(p, w)
  \/ ClaimDispatch(p, w)
  \/ SendNotice(p, w)
  \/ Release(p, w)

PipelineFault(p, w) == ReleaseFails(p, w) \/ AbandonPipeline(p, w)

ApiStep(w) ==
  \/ CreateWebsite(w)
  \/ \E enabled \in BOOLEAN : SetMonitoring(w, enabled)
  \/ BeginUrlEdit(w)
  \/ CommitUrlEdit(w)
  \/ RefuseUrlEdit(w)
  \/ \E f \in FailureThresholds, r \in RecoveryThresholds :
       EditThresholds(w, f, r)
  \/ DeleteWebsite(w)
  \/ PurgeIncidents(w)
  \/ PurgeChecks(w)
  \/ PurgeFails(w)

Next ==
  \/ \E p \in Workers, w \in Websites :
       Claim(p, w) \/ PipelineStep(p, w) \/ PipelineFault(p, w)
  \/ \E p \in Workers : Crash(p)
  \/ \E w \in Websites : ExpireLease(w) \/ BecomeDue(w) \/ ApiStep(w)

Spec == Init /\ [][Next]_vars

(* Time passes, some worker keeps polling (a crashed one is restarted), and*)
(* a pipeline runs on: every call in it has a timeout, or an outcome.      *)
Fairness ==
  /\ \A w \in Websites :
       /\ WF_vars(BecomeDue(w))
       /\ WF_vars(ExpireLease(w))
       /\ WF_vars(\E p \in Workers : Claim(p, w))
  /\ \A p \in Workers, w \in Websites : WF_vars(PipelineStep(p, w))

FairSpec == Spec /\ Fairness
=============================================================================
