------------------------ MODULE MonitoringProperties -------------------------
(***************************************************************************)
(* What the monitoring pipeline of module Monitoring promises.  Which      *)
(* disturbances a property survives is said at the property and shown by   *)
(* the runs that check it.                                                 *)
(***************************************************************************)
EXTENDS Monitoring

-----------------------------------------------------------------------------
(* Under every disturbance.                                                *)

(* At most one incident of a website is open, however pipelines race, die  *)
(* or lose their lease: the partial unique index, not the lease, is the    *)
(* guarantee (incident-service.ts, models/incident.ts).                    *)
OneOpenIncident ==
  \A i, j \in Incidents :
    /\ incident[i].status = "open" /\ incident[j].status = "open"
    /\ incident[i].site = incident[j].site
    => i = j

(* One pipeline at a time can be about to announce a given event of a      *)
(* given incident: the one whose insert or whose conditional update made   *)
(* it happen.  An adopted or a lost transition announces nothing.          *)
SoleAnnouncer ==
  \A p, q \in Workers, w, v \in Websites :
    /\ ctx[p][w].notice # "none"
    /\ ctx[p][w].notice = ctx[q][v].notice
    /\ ctx[p][w].subject = ctx[q][v].subject
    => <<p, w>> = <<q, v>>

(* Each event of an incident is dispatched at most once, and only after    *)
(* its flag was claimed (notification-service.ts: one email per incident   *)
(* transition, never more).                                                *)
AnnouncedOnce ==
  \A i \in Incidents, a \in Announcements :
    mail[i][a] <= (IF Notified(i, a) THEN 1 ELSE 0)

(* The status and the counters of a website are of the same write: an      *)
(* operational website has no failure streak, and a paused or unknown one  *)
(* has no streak at all (result-processor.ts: a reader never observes a    *)
(* status that contradicts the counters that produced it).                 *)
StatusMatchesCounters ==
  \A w \in Websites :
    /\ website[w].status = "operational" =>
         website[w].failures = 0 /\ website[w].successes > 0
    /\ website[w].status \in {"paused", "unknown"} =>
         website[w].failures = 0 /\ website[w].successes = 0

(* A resolved incident is history: it is never reopened, recounted or      *)
(* moved, and no claimed notification flag is ever cleared.                *)
HistoryKept ==
  [][\A i \in Incidents :
      /\ incident[i].status # "unused" => incident'[i].site = incident[i].site
      /\ incident[i].status = "resolved" =>
           /\ incident'[i].status \in {"resolved", "deleted"}
           /\ incident'[i].failedChecks = incident[i].failedChecks
      /\ incident[i].downNotified => incident'[i].downNotified
      /\ incident[i].recoveryNotified => incident'[i].recoveryNotified]_vars

(* The pipeline implements the abstract log of incidents of IncidentLog.   *)
LogOf(i) ==
  [status |-> incident[i].status, site |-> incident[i].site,
   announced |-> {a \in Announcements : Notified(i, a)}]
Log == INSTANCE IncidentLog WITH log <- [i \in Incidents |-> LogOf(i)]
ImplementsLog == Log!LogSpec

(* No website is stranded: one that is monitored is checked again, whoever *)
(* crashed with its lease in hand (docs/MONITORING.md, the lease expires). *)
NeverStranded ==
  \A w \in Websites :
    (Live(w) /\ website[w].enabled) ~>
      (~Live(w) \/ ~website[w].enabled \/ \E p \in Workers : At(p, w, "checking"))

-----------------------------------------------------------------------------
(* While leases outlast checks (no "overlap").                             *)

(* No two pipelines are inside the same website, through crashes, failed   *)
(* releases and edits (scheduler.ts: two workers can never both win it).   *)
LeaseExclusion ==
  \A p, q \in Workers, w \in Websites :
    ~At(p, w, "idle") /\ ~At(q, w, "idle") => p = q

(* A failure streak grows by one check at a time and otherwise restarts:   *)
(* no write brings back failures from before a reset.                      *)
StreakGrowsByOne ==
  [][\A w \in Websites :
       website'[w].failures <= website[w].failures + 1]_vars

-----------------------------------------------------------------------------
(* While, besides, no call to the database fails and no worker dies.       *)

(* An outage is confirmed only by as many failed checks in a row as the    *)
(* claim's threshold, by the checks collection itself (docs/MONITORING.md: *)
(* never declared down on one failed request).                             *)
OutageConfirmed ==
  \A p \in Workers, w \in Websites :
    At(p, w, "opening") /\ Live(w) =>
      ~checks[w].ok /\ checks[w].run >= ctx[p][w].failureThreshold

(* A recovery is confirmed only by as many successes in a row.             *)
RecoveryConfirmed ==
  \A p \in Workers, w \in Websites :
    At(p, w, "closing") /\ Live(w) =>
      checks[w].ok /\ checks[w].run >= ctx[p][w].recoveryThreshold

(* Between checks the website names exactly its open incident              *)
(* (models/website.ts: mirrors the incident collection).                   *)
MirrorAgrees ==
  \A w \in Websites :
    Live(w) /\ Quiet(w) => OpenOn(w) = {website[w].current} \ {NoIncident}

(* Between checks, a website whose status is a check's reads as down        *)
(* exactly while an incident is open (incident-rules.ts).                  *)
DownWhileOpen ==
  \A w \in Websites :
    Live(w) /\ Quiet(w) /\ website[w].status \notin {"paused", "unknown"}
      => (website[w].status = "down" <=> OpenOn(w) # {})

(* Between checks every outage and every recovery has been announced.      *)
AnnouncementsComplete ==
  \A w \in Websites, i \in Incidents :
    Live(w) /\ Quiet(w) /\ incident[i].site = w =>
      /\ incident[i].status \in {"open", "resolved"} => mail[i]["down"] = 1
      /\ incident[i].status = "resolved" => mail[i]["recovered"] = 1

(* Between checks the open incident has counted at least the current       *)
(* failure streak: $inc never loses a failed check of the outage.          *)
FailedChecksCover ==
  \A w \in Websites :
    Live(w) /\ Quiet(w) =>
      \A i \in OpenOn(w) : incident[i].failedChecks >= website[w].failures

(* Once checks stop failing and nothing disturbs the pipelines any more,   *)
(* no monitored website goes on naming an open incident: the pipelines     *)
(* count up to the recovery threshold, whatever happened before.           *)
Calm ==
  [][~ \/ \E p \in Workers, w \in Websites :
           RecordCheck(p, w, "down") \/ PipelineFault(p, w)
       \/ \E p \in Workers : Crash(p)
       \/ \E w \in Websites :
           \/ ~Quiet(w) /\ ExpireLease(w)
           \/ \E enabled \in BOOLEAN : SetMonitoring(w, enabled)]_vars
NamedOutageEnds ==
  <>Calm => \A w \in Websites, i \in Incidents :
              []<>~(/\ Live(w) /\ website[w].enabled
                    /\ website[w].current = i /\ incident[i].status = "open")

-----------------------------------------------------------------------------
(* What does not hold.                                                     *)

(* Once checks stop failing, no incident stays open (docs/MONITORING.md:   *)
(* as many good checks in a row as the threshold resolve the incident).    *)
OutageEnds ==
  <>[][~ \E p \in Workers, w \in Websites :
           RecordCheck(p, w, "down") \/ \E q \in Workers : Crash(q)]_vars
    => \A i \in Incidents : []<>(incident[i].status # "open")

(* Deletion removes the website and its incidents both                     *)
(* (apps/api/src/monitoring/incident.service.ts).                          *)
NothingLeftBehind ==
  \A w \in Websites :
    purge[w] = "done" /\ Quiet(w) =>
      \A i \in Incidents : incident[i].site = w => incident[i].status = "deleted"
=============================================================================
