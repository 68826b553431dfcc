---------------------------- MODULE IncidentLog ------------------------------
(***************************************************************************)
(* What the incidents collection promises its readers, whatever happens to *)
(* the workers that write it: incidents open one at a time per website,    *)
(* are resolved once and stay resolved, each event is claimed for          *)
(* announcement once, the recovery only of a resolved incident, and        *)
(* nothing but the deletion of its website removes an incident.            *)
(*                                                                         *)
(* The schema and indexes are packages/database/src/models/incident.ts.    *)
(* Module Monitoring implements this specification.                        *)
(***************************************************************************)
EXTENDS Naturals

CONSTANTS Websites, Incidents, NoWebsite

VARIABLE log

Events == {"down", "recovered"}

LogInit ==
  log = [i \in Incidents |->
          [status |-> "unused", site |-> NoWebsite, announced |-> {}]]

OpenEntry(i, w) ==
  /\ log[i].status = "unused"
  /\ \A j \in Incidents : log[j].status = "open" => log[j].site # w
  /\ log' = [log EXCEPT ![i] = [status |-> "open", site |-> w,
                                announced |-> @.announced]]

ResolveEntry(i) ==
  /\ log[i].status = "open"
  /\ log' = [log EXCEPT ![i].status = "resolved"]

AnnounceEntry(i, e) ==
  /\ log[i].status \in (IF e = "down" THEN {"open", "resolved"} ELSE {"resolved"})
  /\ e \notin log[i].announced
  /\ log' = [log EXCEPT ![i].announced = @ \cup {e}]

ForgetSite(w) ==
  log' = [i \in Incidents |->
           IF log[i].site = w THEN [log[i] EXCEPT !.status = "deleted"] ELSE log[i]]

LogNext ==
  \/ \E i \in Incidents, w \in Websites : OpenEntry(i, w)
  \/ \E i \in Incidents : ResolveEntry(i)
  \/ \E i \in Incidents, e \in Events : AnnounceEntry(i, e)
  \/ \E w \in Websites : ForgetSite(w)

LogSpec == LogInit /\ [][LogNext]_log
=============================================================================
