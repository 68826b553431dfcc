------------------------ MODULE MonitoringConfirmation ------------------------
(***************************************************************************)
(* What the monitoring pipeline of module Monitoring promises while leases *)
(* outlast checks, no process dies and no call to the database fails: the  *)
(* website mirrors its open incident, outages and recoveries are confirmed *)
(* by the checks collection, failed checks are counted and every event is  *)
(* announced.  And, where processes may die and calls fail, that a failure *)
(* streak grows by one check at a time.                                    *)
(***************************************************************************)
EXTENDS MonitoringProofs

(* The disturbances under which the promises hold: the API's edits.        *)
Reliable == Disturbances \cap {"crash", "writeError", "overlap"} = {}

-----------------------------------------------------------------------------
(* The inductive invariant, first what holds under every disturbance.      *)

(* References stay inside one website; flags are of events that happened.  *)
References ==
  /\ \A i \in Incidents :
       /\ incident[i].status = "unused" =>
            incident[i].site = NoWebsite /\ ~incident[i].downNotified
       /\ incident[i].status \in {"unused", "open"} => ~incident[i].recoveryNotified
  /\ \A w \in Websites :
       website[w].current \in Incidents => incident[website[w].current].site = w
  /\ \A p \in Workers, w \in Websites :
       /\ ctx[p][w].current \in Incidents => incident[ctx[p][w].current].site = w
       /\ ctx[p][w].subject \in Incidents => incident[ctx[p][w].subject].site = w

(* Only the children of a deleted website are purged.                      *)
PurgedOnly ==
  /\ \A w \in Websites : purge[w] # "none" => website[w].life = "deleted"
  /\ \A i \in Incidents, w \in Websites :
       incident[i].status = "deleted" /\ incident[i].site = w => website[w].life = "deleted"

Undecided == {"checking", "opening", "adopting", "resolving", "closing", "counting"}

(* A pipeline has nothing to announce before it has opened or closed an    *)
(* incident, and then nobody has claimed the flag of its event.            *)
Unclaimed ==
  \A p \in Workers, w \in Websites :
    LET c == ctx[p][w]
    IN  /\ pc[p][w] \in Undecided => c.notice = "none"
        /\ pc[p][w] \in {"saving", "notifying"} /\ c.notice # "none" =>
             ~Notified(c.subject, c.notice)

StatusNames ==
  \A w \in Websites : website[w].status \notin {"paused", "unknown"} =>
    (website[w].status = "down" <=> website[w].current # NoIncident)

-----------------------------------------------------------------------------
(* What holds besides in a website where nothing is disturbed.  Until it   *)
(* has saved, a pipeline's memory names the open incident and holds the    *)
(* streaks; before and after, the website document does.                   *)

Named(r) == {r} \ {NoIncident}
FailRun(w) == IF checks[w].ok THEN 0 ELSE checks[w].run
PassRun(w) == IF checks[w].ok THEN checks[w].run ELSE 0

(* The streaks of a document or a memory are in the checks collection.     *)
Backed(d, w) == d.failures <= FailRun(w) /\ d.successes <= PassRun(w)

(* The open incident has counted n failed checks, or more.                 *)
Covered(w, n) == \A i \in OpenOn(w) : n <= incident[i].failedChecks

Recorded(w) ==
  /\ OpenOn(w) = Named(website[w].current)
  /\ Backed(website[w], w) /\ Covered(w, website[w].failures)

Held == Decided \cup {"checking"}

Phase(l, c, w) ==
  /\ l \in Held => OpenOn(w) = Named(c.current) /\ Backed(c, w)
  /\ l \in {"checking", "saving"} => Covered(w, c.failures)
  /\ l = "opening" => c.current = NoIncident /\ c.failures >= c.failureThreshold
  /\ l # "adopting"
  /\ l \in {"resolving", "closing"} => c.successes >= c.recoveryThreshold
  /\ l = "counting" => \A i \in OpenOn(w) : c.failures <= incident[i].failedChecks + 1
  /\ l \notin Held => Recorded(w)

Announcing == {"saving", "notifying", "sending"}

Owes(p, w, i, a) ==
  pc[p][w] \in Announcing /\ ctx[p][w].notice = a /\ ctx[p][w].subject = i

Happened(i, a) ==
  IF a = "down" THEN incident[i].status \in {"open", "resolved"}
  ELSE incident[i].status = "resolved"

(* Every event of an incident was announced, or a pipeline is about to.    *)
Told(w) ==
  \A i \in Incidents, a \in Announcements :
    incident[i].site = w /\ Happened(i, a) =>
      mail[i][a] = 1 \/ \E p \in Workers : Owes(p, w, i, a)

SiteInv(w) ==
  website[w].life # "deleted" =>
    /\ Quiet(w) => Recorded(w)
    /\ \A p \in Workers : ~At(p, w, "idle") => Phase(pc[p][w], ctx[p][w], w)
    /\ Told(w)

Background == References /\ PurgedOnly /\ Unclaimed /\ StatusNames
ConfirmInv == Background /\ \A w \in Websites : SiteInv(w)

-----------------------------------------------------------------------------
(* What each call does, field by field.                                    *)

LEMMA Lands ==
  ASSUME Typed, NEW p \in Workers, NEW w \in Websites, NEW l, NEW c
  PROVE  /\ Goto(p, w, l) => pc'[p][w] = l
         /\ Hold(p, w, c) => ctx'[p][w] = c
BY DEF Goto, Hold, Typed, TypeOK

LEMMA RecordIs ==
  ASSUME Typed, NEW i \in Incidents, NEW d, Record(i, d)
  PROVE  incident'[i] = d /\ \A j \in Incidents \ {i} : incident'[j] = incident[j]
BY DEF Record, Typed, TypeOK

LEMMA StoreIs ==
  ASSUME Typed, NEW w \in Websites, NEW d, Store(w, d)
  PROVE  website'[w] = d /\ \A v \in Websites \ {w} : website'[v] = website[v]
BY DEF Store, Typed, TypeOK

(* A website document that was written, but for what it says of checks.    *)
SameSite(w) ==
  /\ website'[w].life = website[w].life
  /\ website'[w].current = website[w].current
  /\ SameReading(w)

LEMMA ClaimMove ==
  ASSUME Typed, NEW p \in Workers, NEW w \in Websites, Claim(p, w)
  PROVE  /\ pc[p][w] = "idle" /\ pc'[p][w] = "checking"
         /\ Live(w) /\ website[w].lease # "held" /\ SameSite(w)
         /\ ctx'[p][w].failures = website[w].failures
         /\ ctx'[p][w].successes = website[w].successes
         /\ ctx'[p][w].current = website[w].current
         /\ ctx'[p][w].notice = "none" /\ ctx'[p][w].subject = NoIncident
         /\ UNCHANGED <<checks, incident, mail, purge>>
<1>1. website[w] \in WebsiteDoc /\ EmptyContext \in Context
  BY Parts, EmptyContextType
<1>2. ctx'[p][w] = Snapshot(w) /\ pc'[p][w] = "checking"
  BY Lands DEF Claim
<1>3. /\ Snapshot(w).failures = website[w].failures
      /\ Snapshot(w).successes = website[w].successes
      /\ Snapshot(w).current = website[w].current
      /\ Snapshot(w).notice = "none" /\ Snapshot(w).subject = NoIncident
  BY <1>1 DEF Snapshot, EmptyContext
<1>4. website'[w] = [website[w] EXCEPT !.lease = "held"]
  BY StoreIs DEF Claim
<1>5. SameSite(w)
  BY <1>1, <1>4 DEF SameSite, SameReading, WebsiteDoc
<1> QED BY <1>2, <1>3, <1>5 DEF Claim, Claimable, At

LEMMA CheckMove ==
  ASSUME Typed, NEW p \in Workers, NEW w \in Websites, NEW o \in CheckOutcomes,
         RecordCheck(p, w, o)
  PROVE  LET c == ctx[p][w]
             d == ctx'[p][w]
             l == pc'[p][w]
             ok == o # "down"
         IN  /\ pc[p][w] = "checking"
             /\ l \in {"saving", "opening", "resolving", "counting"}
             /\ d.current = c.current /\ d.notice = c.notice /\ d.subject = c.subject
             /\ d.failureThreshold = c.failureThreshold
             /\ d.recoveryThreshold = c.recoveryThreshold
             /\ ok => d.failures = 0 /\ d.successes = Capped(c.successes + 1)
             /\ ~ok => d.failures = Capped(c.failures + 1) /\ d.successes = 0
             /\ checks'[w] = ExtendRun(checks[w], ok)
             /\ \A v \in Websites \ {w} : checks'[v] = checks[v]
             /\ l = "opening" => c.current = NoIncident /\ d.failures >= c.failureThreshold
             /\ l = "resolving" => c.current # NoIncident /\ d.successes >= c.recoveryThreshold
             /\ l = "counting" => c.current # NoIncident
             /\ l = "saving" => ok \/ c.current = NoIncident
             /\ UNCHANGED <<website, incident, mail, purge>>
<1> DEFINE c == ctx[p][w]
           ok == IsSuccessfulCheck(o)
           counters == CappedCounters(DeriveCounters(c, ok))
           transition == DecideIncidentTransition(counters, c.failureThreshold,
                           c.recoveryThreshold, c.current # NoIncident)
           d == [c EXCEPT !.failures = counters.failures,
                          !.successes = counters.successes, !.outcome = o]
<1>1. c \in Context /\ ok = (o # "down")
  BY Parts DEF IsSuccessfulCheck
<1>2. ctx'[p][w] = d /\ pc'[p][w] = AfterDecision(transition, ok)
  BY Lands DEF RecordCheck
<1>3. /\ d.failures = counters.failures /\ d.successes = counters.successes
      /\ d.current = c.current /\ d.notice = c.notice /\ d.subject = c.subject
      /\ d.failureThreshold = c.failureThreshold
      /\ d.recoveryThreshold = c.recoveryThreshold
  <2> HIDE DEF counters, c
  <2> QED BY <1>1 DEF Context
<1>4. /\ ok => counters.failures = 0 /\ counters.successes = Capped(c.successes + 1)
      /\ ~ok => counters.failures = Capped(c.failures + 1) /\ counters.successes = 0
  <2>1. Capped(0) = 0
    BY StreakBound DEF Capped
  <2> QED BY <2>1 DEF CappedCounters, DeriveCounters
<1>5. /\ transition \in Transitions
      /\ transition = "open" => c.current = NoIncident /\ counters.failures >= c.failureThreshold
      /\ transition = "resolve" =>
           c.current # NoIncident /\ counters.successes >= c.recoveryThreshold
      /\ transition = "ongoing" => c.current # NoIncident
      /\ transition = "none" => c.current = NoIncident
  <2> HIDE DEF counters, c
  <2> QED BY DEF DecideIncidentTransition, Transitions
<1>6. /\ pc'[p][w] \in {"saving", "opening", "resolving", "counting"}
      /\ pc'[p][w] = "opening" => transition = "open"
      /\ pc'[p][w] = "resolving" => transition = "resolve"
      /\ pc'[p][w] = "counting" => transition = "ongoing"
      /\ pc'[p][w] = "saving" => ok \/ transition = "none"
  <2> HIDE DEF transition, ok
  <2> QED BY <1>2, <1>5 DEF AfterDecision, Transitions
<1>7. /\ checks'[w] = ExtendRun(checks[w], ok)
      /\ \A v \in Websites \ {w} : checks'[v] = checks[v]
      /\ pc[p][w] = "checking" /\ UNCHANGED <<website, incident, mail, purge>>
  BY DEF RecordCheck, Typed, TypeOK, At
<1> HIDE DEF counters, transition, d, ok, c
<1>8. ok = (o # "down")
  BY <1>1
<1>9. /\ ctx'[p][w].current = c.current /\ ctx'[p][w].notice = c.notice
      /\ ctx'[p][w].subject = c.subject
      /\ ctx'[p][w].failureThreshold = c.failureThreshold
      /\ ctx'[p][w].recoveryThreshold = c.recoveryThreshold
      /\ ctx'[p][w].failures = counters.failures /\ ctx'[p][w].successes = counters.successes
  BY <1>2, <1>3
<1> QED BY <1>4, <1>5, <1>6, <1>7, <1>8, <1>9 DEF c

(* The fields of a memory that the transition of an incident leaves alone. *)
SameStreaks(p, w) ==
  /\ ctx'[p][w].failures = ctx[p][w].failures
  /\ ctx'[p][w].successes = ctx[p][w].successes
  /\ ctx'[p][w].failureThreshold = ctx[p][w].failureThreshold
  /\ ctx'[p][w].recoveryThreshold = ctx[p][w].recoveryThreshold

SameFlags(i) ==
  /\ incident'[i].downNotified = incident[i].downNotified
  /\ incident'[i].recoveryNotified = incident[i].recoveryNotified

LEMMA OpenMove ==
  ASSUME Typed, NEW p \in Workers, NEW w \in Websites, OpenIncident(p, w)
  PROVE  /\ pc[p][w] = "opening" /\ pc'[p][w] = "saving" /\ SameStreaks(p, w)
         /\ ctx'[p][w].notice = "down" /\ ctx'[p][w].current = ctx'[p][w].subject
         /\ LET i == ctx'[p][w].subject
            IN  /\ i \in Incidents /\ incident[i].status = "unused" /\ OpenOn(w) = {}
                /\ incident'[i].status = "open" /\ incident'[i].site = w
                /\ incident'[i].failedChecks = ctx[p][w].failures /\ SameFlags(i)
                /\ \A j \in Incidents \ {i} : incident'[j] = incident[j]
         /\ UNCHANGED <<website, checks, mail, purge>>
<1>1. PICK i \in Incidents :
        /\ incident[i].status = "unused" /\ OpenOn(w) = {}
        /\ Record(i, [incident[i] EXCEPT !.status = "open", !.site = w,
                                         !.failedChecks = ctx[p][w].failures])
        /\ Hold(p, w, [ctx[p][w] EXCEPT !.current = i, !.notice = "down", !.subject = i])
  BY OpenEffect
<1>2. ctx'[p][w] = [ctx[p][w] EXCEPT !.current = i, !.notice = "down", !.subject = i]
  BY <1>1, Lands
<1>3. /\ SameStreaks(p, w) /\ ctx'[p][w].notice = "down"
      /\ ctx'[p][w].subject = i /\ ctx'[p][w].current = i
  BY <1>2, Parts DEF SameStreaks, Context
<1>4. /\ incident'[i] = [incident[i] EXCEPT !.status = "open", !.site = w,
                                            !.failedChecks = ctx[p][w].failures]
      /\ \A j \in Incidents \ {i} : incident'[j] = incident[j]
  BY <1>1, RecordIs
<1>5. /\ incident'[i].status = "open" /\ incident'[i].site = w
      /\ incident'[i].failedChecks = ctx[p][w].failures /\ SameFlags(i)
  BY <1>4, Parts DEF SameFlags, IncidentDoc
<1>6. pc[p][w] = "opening" /\ pc'[p][w] = "saving"
  BY Lands DEF OpenIncident, At
<1> QED BY <1>1, <1>3, <1>4, <1>5, <1>6 DEF OpenIncident

LEMMA AdoptMove ==
  ASSUME Typed, NEW p \in Workers, NEW w \in Websites, AdoptIncident(p, w)
  PROVE  /\ pc[p][w] = "adopting" /\ pc'[p][w] = "saving" /\ SameStreaks(p, w)
         /\ ctx'[p][w].current \in OpenOn(w) \cup {NoIncident}
         /\ ctx'[p][w].notice = ctx[p][w].notice /\ ctx'[p][w].subject = ctx[p][w].subject
         /\ UNCHANGED <<website, checks, incident, mail, purge>>
<1>1. PICK i \in OpenOn(w) \cup {NoIncident} : Hold(p, w, [ctx[p][w] EXCEPT !.current = i])
  BY DEF AdoptIncident
<1>2. ctx'[p][w] = [ctx[p][w] EXCEPT !.current = i]
  BY <1>1, Lands
<1>3. /\ SameStreaks(p, w) /\ ctx'[p][w].current = i
      /\ ctx'[p][w].notice = ctx[p][w].notice /\ ctx'[p][w].subject = ctx[p][w].subject
  BY <1>2, Parts DEF SameStreaks, Context
<1> QED BY <1>3, Lands DEF AdoptIncident, At

LEMMA ReadMove ==
  ASSUME Typed, NEW p \in Workers, NEW w \in Websites, ReadIncident(p, w)
  PROVE  /\ pc[p][w] = "resolving" /\ SameStreaks(p, w)
         /\ ctx'[p][w].notice = ctx[p][w].notice /\ ctx'[p][w].subject = ctx[p][w].subject
         /\ IF incident[ctx[p][w].current].status = "open"
            THEN pc'[p][w] = "closing" /\ ctx'[p][w].current = ctx[p][w].current
            ELSE pc'[p][w] = "saving" /\ ctx'[p][w].current = NoIncident
         /\ UNCHANGED <<website, checks, incident, mail, purge>>
<1>1. CASE incident[ctx[p][w].current].status = "open"
  BY <1>1, Lands DEF ReadIncident, At, SameStreaks
<1>2. CASE incident[ctx[p][w].current].status # "open"
  <2>1. ctx'[p][w] = [ctx[p][w] EXCEPT !.current = NoIncident]
    BY <1>2, Lands DEF ReadIncident
  <2>2. /\ SameStreaks(p, w) /\ ctx'[p][w].current = NoIncident
        /\ ctx'[p][w].notice = ctx[p][w].notice /\ ctx'[p][w].subject = ctx[p][w].subject
    BY <2>1, Parts DEF SameStreaks, Context
  <2> QED BY <1>2, <2>2, Lands DEF ReadIncident, At
<1> QED BY <1>1, <1>2

LEMMA CloseMove ==
  ASSUME Typed, NEW p \in Workers, NEW w \in Websites, CloseIncident(p, w)
  PROVE  LET i == ctx[p][w].current
         IN  /\ pc[p][w] = "closing" /\ pc'[p][w] = "saving" /\ SameStreaks(p, w)
             /\ i \in Incidents /\ ctx'[p][w].current = NoIncident
             /\ IF incident[i].status = "open"
                THEN /\ ctx'[p][w].notice = "recovered" /\ ctx'[p][w].subject = i
                     /\ incident'[i].status = "resolved" /\ incident'[i].site = incident[i].site
                     /\ SameFlags(i)
                     /\ \A j \in Incidents \ {i} : incident'[j] = incident[j]
                ELSE /\ ctx'[p][w].notice = "none" /\ ctx'[p][w].subject = NoIncident
                     /\ UNCHANGED incident
             /\ UNCHANGED <<website, checks, mail, purge>>
<1> DEFINE i == ctx[p][w].current
           won == incident[i].status = "open"
<1>0. ctx[p][w] \in Context /\ i \in Incidents /\ incident[i] \in IncidentDoc
  BY Parts, CloseEffect
<1>1. ctx'[p][w] = [ctx[p][w] EXCEPT !.current = NoIncident,
                      !.subject = IF won THEN i ELSE NoIncident,
                      !.notice = IF won THEN "recovered" ELSE "none"]
  BY Lands DEF CloseIncident, CloseMatches
<1>2. won => Record(i, [incident[i] EXCEPT !.status = "resolved"])
  BY DEF CloseIncident, CloseMatches
<1>3. ~won => UNCHANGED incident
  BY DEF CloseIncident, CloseMatches
<1>4. /\ pc[p][w] = "closing" /\ pc'[p][w] = "saving" /\ UNCHANGED <<website, checks, mail, purge>>
  BY Lands DEF CloseIncident, At
<1> HIDE DEF won, i
<1>5. /\ SameStreaks(p, w) /\ ctx'[p][w].current = NoIncident
      /\ ctx'[p][w].subject = IF won THEN i ELSE NoIncident
      /\ ctx'[p][w].notice = IF won THEN "recovered" ELSE "none"
  BY <1>0, <1>1 DEF SameStreaks, Context
<1>6. won => /\ incident'[i].status = "resolved" /\ incident'[i].site = incident[i].site
             /\ SameFlags(i)
             /\ \A j \in Incidents \ {i} : incident'[j] = incident[j]
  BY <1>0, <1>2, RecordIs DEF SameFlags, IncidentDoc
<1> QED BY <1>0, <1>3, <1>4, <1>5, <1>6 DEF won, i

LEMMA CountMove ==
  ASSUME Typed, NEW p \in Workers, NEW w \in Websites, CountFailure(p, w)
  PROVE  LET i == ctx[p][w].current
         IN  /\ pc[p][w] = "counting" /\ pc'[p][w] = "saving" /\ ctx' = ctx
             /\ i \in Incidents
             /\ incident'[i].status = incident[i].status
             /\ incident'[i].site = incident[i].site /\ SameFlags(i)
             /\ incident[i].status = "open" =>
                  incident'[i].failedChecks = Capped(incident[i].failedChecks + 1)
             /\ \A j \in Incidents \ {i} : incident'[j] = incident[j]
             /\ UNCHANGED <<website, checks, mail, purge>>
<1> DEFINE i == ctx[p][w].current
<1>0. i \in Incidents /\ incident[i] \in IncidentDoc
  BY Parts, CountEffect
<1>1. IF incident[i].status = "open"
      THEN Record(i, [incident[i] EXCEPT !.failedChecks = Capped(incident[i].failedChecks + 1)])
      ELSE UNCHANGED incident
  BY DEF CountFailure, CountMatches
<1>2. /\ pc[p][w] = "counting" /\ pc'[p][w] = "saving" /\ ctx' = ctx
      /\ UNCHANGED <<website, checks, mail, purge>>
  BY Lands DEF CountFailure, At
<1> HIDE DEF i
<1>3. CASE incident[i].status = "open"
  <2>1. /\ incident'[i] = [incident[i] EXCEPT !.failedChecks = Capped(incident[i].failedChecks + 1)]
        /\ \A j \in Incidents \ {i} : incident'[j] = incident[j]
    BY <1>0, <1>1, <1>3, RecordIs
  <2>2. /\ incident'[i].status = incident[i].status
        /\ incident'[i].site = incident[i].site /\ SameFlags(i)
        /\ incident'[i].failedChecks = Capped(incident[i].failedChecks + 1)
    BY <1>0, <2>1 DEF SameFlags, IncidentDoc
  <2> QED BY <1>0, <1>2, <2>1, <2>2 DEF i
<1>4. CASE incident[i].status # "open"
  BY <1>0, <1>1, <1>2, <1>4 DEF SameFlags, i
<1> QED BY <1>3, <1>4

LEMMA SaveMove ==
  ASSUME Typed, NEW p \in Workers, NEW w \in Websites, SaveWebsite(p, w)
  PROVE  LET c == ctx[p][w]
         IN  /\ pc[p][w] = "saving"
             /\ pc'[p][w] = IF c.notice = "none" THEN "releasing" ELSE "notifying"
             /\ ctx'[p][w].notice = c.notice /\ ctx'[p][w].subject = c.subject
             /\ ctx'[p][w].current = NoIncident
             /\ website'[w].life = website[w].life
             /\ IF Live(w) THEN /\ SavedReading(p, w) /\ website'[w].current = c.current
                ELSE website'[w] = website[w]
             /\ UNCHANGED <<checks, incident, mail, purge>>
<1>1. website[w] \in WebsiteDoc /\ ctx[p][w] \in Context /\ EmptyContext \in Context
  BY Parts, EmptyContextType
<1>2. ctx'[p][w] = NoticeOnly(ctx[p][w])
  BY Lands DEF SaveWebsite
<1>3. /\ ctx'[p][w].notice = ctx[p][w].notice /\ ctx'[p][w].subject = ctx[p][w].subject
      /\ ctx'[p][w].current = NoIncident
  BY <1>2 DEF NoticeOnly, EmptyContext
<1>4. CASE Live(w)
  <2>1. website'[w] = Saved(website[w], ctx[p][w])
    BY <1>4, StoreIs DEF SaveWebsite
  <2>2. /\ website'[w].life = website[w].life /\ website'[w].current = ctx[p][w].current
        /\ website'[w].failures = ctx[p][w].failures
        /\ website'[w].successes = ctx[p][w].successes
        /\ website'[w].status = DeriveDisplayStatus(ctx[p][w].outcome, ctx[p][w].current # NoIncident)
    BY <1>1, <2>1 DEF Saved, WebsiteDoc
  <2> QED BY <1>3, <1>4, <2>2, Lands DEF SaveWebsite, At, SavedReading
<1>5. CASE ~Live(w)
  BY <1>3, <1>5, Lands DEF SaveWebsite, At
<1> QED BY <1>4, <1>5

LEMMA DispatchMove ==
  ASSUME Typed, NEW p \in Workers, NEW w \in Websites, ClaimDispatch(p, w)
  PROVE  LET i == ctx[p][w].subject
             a == ctx[p][w].notice
         IN  /\ pc[p][w] = "notifying" /\ ctx' = ctx
             /\ i \in Incidents /\ a \in Announcements
             /\ IF incident[i].status # "deleted" /\ ~Notified(i, a)
                THEN /\ pc'[p][w] = "sending"
                     /\ incident'[i].downNotified = (a = "down" \/ incident[i].downNotified)
                     /\ incident'[i].recoveryNotified = (a # "down" \/ incident[i].recoveryNotified)
                ELSE pc'[p][w] = "releasing" /\ SameFlags(i)
             /\ incident'[i].status = incident[i].status
             /\ incident'[i].site = incident[i].site
             /\ incident'[i].failedChecks = incident[i].failedChecks
             /\ \A j \in Incidents \ {i} : incident'[j] = incident[j]
             /\ UNCHANGED <<website, checks, mail, purge>>
<1> DEFINE i == ctx[p][w].subject
           a == ctx[p][w].notice
           won == incident[i].status # "deleted" /\ ~Notified(i, a)
<1>0. i \in Incidents /\ a \in Announcements /\ incident[i] \in IncidentDoc
  BY Parts, DispatchEffect
<1>1. /\ IF won THEN Record(i, WithFlag(incident[i], a)) ELSE UNCHANGED incident
      /\ Goto(p, w, IF won THEN "sending" ELSE "releasing")
      /\ pc[p][w] = "notifying" /\ ctx' = ctx /\ UNCHANGED <<website, checks, mail, purge>>
  BY DEF ClaimDispatch, At
<1> HIDE DEF i, a, won
<1>2. CASE won
  <2>1. /\ incident'[i] = WithFlag(incident[i], a)
        /\ \A j \in Incidents \ {i} : incident'[j] = incident[j]
    BY <1>0, <1>1, <1>2, RecordIs
  <2>2. /\ incident'[i].status = incident[i].status
        /\ incident'[i].site = incident[i].site
        /\ incident'[i].failedChecks = incident[i].failedChecks
        /\ incident'[i].downNotified = (a = "down" \/ incident[i].downNotified)
        /\ incident'[i].recoveryNotified = (a # "down" \/ incident[i].recoveryNotified)
    <3>1. CASE a = "down"
      <4>1. incident'[i] = [incident[i] EXCEPT !.downNotified = TRUE]
        BY <2>1, <3>1 DEF WithFlag
      <4> QED BY <1>0, <3>1, <4>1 DEF IncidentDoc
    <3>2. CASE a # "down"
      <4>1. incident'[i] = [incident[i] EXCEPT !.recoveryNotified = TRUE]
        BY <2>1, <3>2 DEF WithFlag
      <4> QED BY <1>0, <3>2, <4>1 DEF IncidentDoc
    <3> QED BY <3>1, <3>2
  <2>3. pc'[p][w] = "sending"
    BY <1>1, <1>2, Lands
  <2> QED BY <1>0, <1>1, <1>2, <2>1, <2>2, <2>3 DEF i, a, won
<1>3. CASE ~won
  <2>1. UNCHANGED incident /\ pc'[p][w] = "releasing"
    BY <1>1, <1>3, Lands
  <2> QED BY <1>0, <1>1, <1>3, <2>1 DEF SameFlags, i, a, won
<1> QED BY <1>2, <1>3

LEMMA SendMove ==
  ASSUME Typed, NEW p \in Workers, NEW w \in Websites, SendNotice(p, w)
  PROVE  LET i == ctx[p][w].subject
             a == ctx[p][w].notice
         IN  /\ pc[p][w] = "sending" /\ pc'[p][w] = "releasing" /\ ctx' = ctx
             /\ i \in Incidents /\ a \in Announcements
             /\ IF IF a = "down" THEN incident[i].status # "deleted"
                         ELSE incident[i].status = "resolved"
                THEN mail'[i][a] = mail[i][a] + 1
                ELSE mail'[i][a] = mail[i][a]
             /\ \A j \in Incidents, b \in Announcements :
                  j # i \/ b # a => mail'[j][b] = mail[j][b]
             /\ UNCHANGED <<website, checks, incident, purge>>
<1> DEFINE i == ctx[p][w].subject
           a == ctx[p][w].notice
           found == IF a = "down" THEN incident[i].status # "deleted"
                    ELSE incident[i].status = "resolved"
<1>0. i \in Incidents /\ a \in Announcements
  BY SendEffect
<1>1. /\ mail' = IF found THEN [mail EXCEPT ![i][a] = @ + 1] ELSE mail
      /\ Goto(p, w, "releasing")
      /\ pc[p][w] = "sending" /\ ctx' = ctx /\ UNCHANGED <<website, checks, incident, purge>>
  BY DEF SendNotice, At
<1>2. mail \in [Incidents -> [Announcements -> Nat]] /\ pc'[p][w] = "releasing"
  BY <1>1, Lands DEF Typed, TypeOK
<1> HIDE DEF i, a, found
<1>3. /\ IF found THEN mail'[i][a] = mail[i][a] + 1 ELSE mail'[i][a] = mail[i][a]
      /\ \A j \in Incidents, b \in Announcements : j # i \/ b # a => mail'[j][b] = mail[j][b]
  BY <1>0, <1>1, <1>2
<1> QED BY <1>0, <1>1, <1>2, <1>3 DEF i, a, found

LEMMA ReleaseMove ==
  ASSUME Typed, NEW p \in Workers, NEW w \in Websites, Release(p, w) \/ ReleaseFails(p, w)
  PROVE  /\ pc[p][w] = "releasing" /\ pc'[p][w] = "idle" /\ ctx'[p][w] = EmptyContext
         /\ SameSite(w)
         /\ UNCHANGED <<checks, incident, mail, purge>>
<1>1. \/ website'[w] = [website[w] EXCEPT !.lease = "free", !.due = FALSE]
      \/ website'[w] = website[w]
  BY StoreIs DEF Release, ReleaseFails
<1>2. SameSite(w)
  BY <1>1, Parts DEF SameSite, SameReading, WebsiteDoc
<1> QED BY <1>2, Lands DEF Release, ReleaseFails, At

(* Time and the API leave the pipelines and the references alone; a        *)
(* website's life only goes on, and only a deletion purges.                *)
Outside(w) == ExpireLease(w) \/ BecomeDue(w) \/ ApiStep(w)

LEMMA OutsideLife ==
  ASSUME Typed, NEW w \in Websites, Outside(w), NEW v \in Websites
  PROVE  /\ website'[v].current = website[v].current
         /\ \/ website'[v].life = website[v].life
            \/ v = w /\ website[v].life = "absent" /\ website'[v].life = "live"
            \/ v = w /\ website'[v].life = "deleted" /\ DeleteWebsite(w)
<1>0. website[w] \in WebsiteDoc
  BY Parts
<1>1. CASE UNCHANGED website
  BY <1>1
<1>2. ASSUME NEW d, Store(w, d), d.current = website[w].current, d.life = website[w].life
      PROVE  website'[v].current = website[v].current /\ website'[v].life = website[v].life
  BY <1>2, StoreIs
<1>3. CASE ExpireLease(w) \/ BecomeDue(w)
  <2>1. ASSUME NEW l
        PROVE  LET d == [website[w] EXCEPT !.lease = l]
                   e == [website[w] EXCEPT !.due = l]
               IN  /\ d.current = website[w].current /\ d.life = website[w].life
                   /\ e.current = website[w].current /\ e.life = website[w].life
    BY <1>0 DEF WebsiteDoc
  <2>2. \/ Store(w, [website[w] EXCEPT !.lease = "expired"])
        \/ Store(w, [website[w] EXCEPT !.due = TRUE])
    BY <1>3 DEF ExpireLease, BecomeDue
  <2> QED BY <1>2, <2>1, <2>2
<1>4. CASE (\E enabled \in BOOLEAN : SetMonitoring(w, enabled)) \/ CommitUrlEdit(w)
  <2>1. ASSUME NEW s, NEW b
        PROVE  LET d == Restarted(website[w], s)
                   e == [Restarted(website[w], s) EXCEPT !.enabled = b]
               IN  /\ d.current = website[w].current /\ d.life = website[w].life
                   /\ e.current = website[w].current /\ e.life = website[w].life
    BY <1>0 DEF Restarted, WebsiteDoc
  <2>2. \/ UNCHANGED website
        \/ \E s, b : \/ Store(w, Restarted(website[w], s))
                     \/ Store(w, [Restarted(website[w], s) EXCEPT !.enabled = b])
    BY <1>4 DEF SetMonitoring, CommitUrlEdit
  <2>3. ASSUME NEW s, NEW b, \/ Store(w, Restarted(website[w], s))
                             \/ Store(w, [Restarted(website[w], s) EXCEPT !.enabled = b])
        PROVE  website'[v].current = website[v].current /\ website'[v].life = website[v].life
    BY <1>2, <2>1, <2>3
  <2> QED BY <1>1, <2>2, <2>3
<1>5. ASSUME NEW f, NEW r, EditThresholds(w, f, r)
      PROVE  website'[v].current = website[v].current /\ website'[v].life = website[v].life
  <2> DEFINE d == [website[w] EXCEPT !.failureThreshold = f, !.recoveryThreshold = r]
  <2>1. Store(w, d)
    BY <1>5 DEF EditThresholds
  <2>2. d.current = website[w].current /\ d.life = website[w].life
    BY <1>0 DEF WebsiteDoc
  <2> HIDE DEF d
  <2> QED BY <1>2, <2>1, <2>2
<1>6. CASE CreateWebsite(w)
  <2>1. PICK f, r : website' = [website EXCEPT ![w] = [website[w] EXCEPT
                      !.life = "live", !.enabled = TRUE, !.due = TRUE,
                      !.failureThreshold = f, !.recoveryThreshold = r]]
    BY <1>6 DEF CreateWebsite, Store
  <2> DEFINE d == [website[w] EXCEPT
                      !.life = "live", !.enabled = TRUE, !.due = TRUE,
                      !.failureThreshold = f, !.recoveryThreshold = r]
  <2>2. d.current = website[w].current /\ d.life = "live"
    BY <1>0 DEF WebsiteDoc
  <2>3. Store(w, d)
    BY <2>1 DEF Store
  <2> HIDE DEF d
  <2> QED BY <1>6, <2>2, <2>3, StoreIs DEF CreateWebsite
<1>7. CASE DeleteWebsite(w)
  <2> DEFINE d == [website[w] EXCEPT !.life = "deleted"]
  <2>1. d.current = website[w].current /\ d.life = "deleted"
    BY <1>0 DEF WebsiteDoc
  <2>2. Store(w, d)
    BY <1>7 DEF DeleteWebsite
  <2> HIDE DEF d
  <2> QED BY <1>7, <2>1, <2>2, StoreIs
<1> QED
  BY <1>1, <1>3, <1>4, <1>5, <1>6, <1>7
  DEF Outside, ApiStep, BeginUrlEdit, RefuseUrlEdit, PurgeIncidents, PurgeChecks, PurgeFails

LEMMA OutsideFrame ==
  ASSUME Typed, NEW w \in Websites, Outside(w)
  PROVE  /\ UNCHANGED <<pc, ctx, mail>>
         /\ \A v \in Websites : SameReading(v) \/ ResetReading(v)
         /\ UNCHANGED incident \/ PurgeIncidents(w)
         /\ UNCHANGED checks \/ PurgeChecks(w)
         /\ \A v \in Websites :
              purge'[v] # "none" => purge[v] # "none" \/ (v = w /\ DeleteWebsite(w))
<1>1. /\ UNCHANGED <<pc, ctx, mail>>
      /\ UNCHANGED incident \/ PurgeIncidents(w)
      /\ UNCHANGED checks \/ PurgeChecks(w)
  BY DEF Outside, ApiStep, ExpireLease, BecomeDue, CreateWebsite, SetMonitoring, BeginUrlEdit,
     CommitUrlEdit, RefuseUrlEdit, EditThresholds, DeleteWebsite, PurgeIncidents, PurgeChecks,
     PurgeFails
<1>2. \A v \in Websites : SameReading(v) \/ ResetReading(v)
  <2>1. CASE UNCHANGED website
    BY <2>1 DEF SameReading
  <2> QED BY <2>1, SchedulerReading, RestartReading
    DEF Outside, ApiStep, BeginUrlEdit, RefuseUrlEdit, PurgeIncidents, PurgeChecks, PurgeFails
<1>3. ASSUME NEW v \in Websites, purge'[v] # "none"
      PROVE  purge[v] # "none" \/ (v = w /\ DeleteWebsite(w))
  <2>1. purge \in [Websites -> {"none", "incidents", "checks", "done"}]
    BY DEF Typed, TypeOK
  <2>2. UNCHANGED purge \/ DeleteWebsite(w) \/ purge[w] # "none"
    BY DEF Outside, ApiStep, ExpireLease, BecomeDue, CreateWebsite, SetMonitoring, BeginUrlEdit,
     CommitUrlEdit, RefuseUrlEdit, EditThresholds, PurgeIncidents, PurgeChecks, PurgeFails
  <2>3. v # w => purge'[v] = purge[v]
    BY <2>1 DEF Outside, ApiStep, ExpireLease, BecomeDue, CreateWebsite, SetMonitoring, BeginUrlEdit,
     CommitUrlEdit, RefuseUrlEdit, EditThresholds, DeleteWebsite, PurgeIncidents, PurgeChecks,
     PurgeFails
  <2> QED BY <1>3, <2>2, <2>3
<1> QED BY <1>1, <1>2, <1>3

LEMMA PurgeEffect ==
  ASSUME Typed, NEW w \in Websites, PurgeIncidents(w)
  PROVE  /\ purge[w] = "incidents"
         /\ \A i \in Incidents :
              IF incident[i].site = w
              THEN /\ incident'[i].status = "deleted" /\ incident'[i].site = w
                   /\ SameFlags(i)
              ELSE incident'[i] = incident[i]
BY Parts DEF PurgeIncidents, IncidentDoc, SameFlags

-----------------------------------------------------------------------------
(* The background invariant, under every disturbance.                      *)

(* A pipeline writes to its own website's document, and its life never.    *)
LEMMA MoveSite ==
  ASSUME Typed, NEW p \in Workers, NEW w \in Websites, PipelineMove(p, w)
  PROVE  /\ \A v \in Websites \ {w} : website'[v] = website[v]
         /\ website'[w].life = website[w].life
         /\ SameSite(w) \/ SaveWebsite(p, w)
         /\ UNCHANGED purge
<1>1. \A v \in Websites \ {w} : website'[v] = website[v]
  BY MoveLease
<1>2. CASE UNCHANGED <<website, purge>>
  BY <1>1, <1>2 DEF SameSite, SameReading
<1>3. CASE Claim(p, w) \/ Release(p, w) \/ ReleaseFails(p, w) \/ SaveWebsite(p, w)
  BY <1>1, <1>3, ClaimMove, ReleaseMove, SaveMove DEF SameSite
<1> QED
  BY <1>2, <1>3
  DEF PipelineMove, PipelineStep, PipelineFault, RecordCheck, OpenIncident, OpenLosesRace,
      AdoptIncident, ReadIncident, CloseIncident, CountFailure, ClaimDispatch, SendNotice,
      AbandonPipeline

LEMMA LifeGoesOn ==
  ASSUME Typed, [Next]_vars, NEW v \in Websites, website[v].life = "deleted"
  PROVE  website'[v].life = "deleted"
<1>1. CASE UNCHANGED website
  BY <1>1
<1>2. ASSUME NEW p \in Workers, NEW w \in Websites, PipelineMove(p, w)
      PROVE  website'[v].life = "deleted"
  BY <1>2, MoveSite
<1>3. ASSUME NEW w \in Websites, Outside(w)
      PROVE  website'[v].life = "deleted"
  BY <1>3, OutsideLife
<1>4. ASSUME NEW p \in Workers, Crash(p) PROVE UNCHANGED website
  BY <1>4, CrashFrame
<1> QED BY <1>1, <1>2, <1>3, <1>4 DEF Next, PipelineMove, Outside, vars

(* An incident that has a website keeps it.                                *)
LEMMA SitesKept ==
  ASSUME Typed, References, [Next]_vars, NEW i \in Incidents, NEW w \in Websites,
         incident[i].site = w
  PROVE  incident'[i].site = w
<1>1. incident[i].status # "unused"
  BY MonitoringAssumption DEF MonitoringAssumption, References
<1> QED BY <1>1, StepForward DEF Forward

(* What a pipeline comes to refer to is its website's.                     *)
Refers(p, w) ==
  /\ ctx'[p][w].current \in Incidents => incident'[ctx'[p][w].current].site = w
  /\ ctx'[p][w].subject \in Incidents => incident'[ctx'[p][w].subject].site = w

LEMMA MoveRefers ==
  ASSUME Typed, References, NEW p \in Workers, NEW w \in Websites, PipelineMove(p, w), [Next]_vars
  PROVE  Refers(p, w)
<1>0. NoIncident \notin Incidents
  BY MonitoringAssumption DEF MonitoringAssumption
<1>1. \A i \in Incidents : incident[i].site = w => incident'[i].site = w
  BY SitesKept
<1>2. ASSUME \/ ctx'[p][w].current \in {ctx[p][w].current, website[w].current, NoIncident}
             \/ ctx'[p][w].current \in OpenOn(w),
             ctx'[p][w].subject \in {ctx[p][w].subject, ctx[p][w].current, NoIncident}
      PROVE  Refers(p, w)
  BY <1>0, <1>1, <1>2 DEF References, Refers, OpenOn
<1>3. CASE Claim(p, w)
  BY <1>2, <1>3, ClaimMove
<1>4. CASE \E o \in CheckOutcomes : RecordCheck(p, w, o)
  BY <1>2, <1>4, CheckMove
<1>5. CASE OpenIncident(p, w)
  BY <1>5, OpenMove DEF Refers
<1>6. CASE AdoptIncident(p, w)
  BY <1>2, <1>6, AdoptMove
<1>7. CASE ReadIncident(p, w)
  BY <1>2, <1>7, ReadMove
<1>8. CASE CloseIncident(p, w)
  BY <1>2, <1>8, CloseMove
<1>9. CASE UNCHANGED ctx
  BY <1>2, <1>9
<1>10. CASE SaveWebsite(p, w)
  BY <1>2, <1>10, SaveMove
<1>11. CASE Release(p, w) \/ ReleaseFails(p, w)
  <2>1. ctx'[p][w].current = NoIncident /\ ctx'[p][w].subject = NoIncident
    <3>1. EmptyContext.current = NoIncident /\ EmptyContext.subject = NoIncident
      BY DEF EmptyContext
    <3> QED BY <1>11, <3>1, ReleaseMove
  <2> QED BY <1>2, <2>1
<1> QED
  BY <1>3, <1>4, <1>5, <1>6, <1>7, <1>8, <1>9, <1>10, <1>11
  DEF PipelineMove, PipelineStep, PipelineFault, OpenLosesRace, CountFailure,
      ClaimDispatch, SendNotice, AbandonPipeline

(* Flags are of events that happened, and keep being so.                   *)
FlagsEarned(i) ==
  /\ incident[i].status = "unused" => incident[i].site = NoWebsite /\ ~incident[i].downNotified
  /\ incident[i].status \in {"unused", "open"} => ~incident[i].recoveryNotified

LEMMA FlagsStep ==
  ASSUME Typed, References, NoticeInv, [Next]_vars, NEW i \in Incidents
  PROVE  FlagsEarned(i)'
<1>0. FlagsEarned(i)
  BY DEF References, FlagsEarned
<1>1. CASE incident'[i] = incident[i]
  BY <1>0, <1>1 DEF FlagsEarned
<1>2. ASSUME NEW p \in Workers, NEW w \in Websites, OpenIncident(p, w)
      PROVE  FlagsEarned(i)'
  BY <1>0, <1>1, <1>2, OpenMove DEF FlagsEarned, SameFlags
<1>3. ASSUME NEW p \in Workers, NEW w \in Websites, CloseIncident(p, w)
      PROVE  FlagsEarned(i)'
  BY <1>0, <1>1, <1>3, CloseMove DEF FlagsEarned, SameFlags
<1>4. ASSUME NEW p \in Workers, NEW w \in Websites, CountFailure(p, w)
      PROVE  FlagsEarned(i)'
  BY <1>0, <1>1, <1>4, CountMove DEF FlagsEarned, SameFlags
<1>5. ASSUME NEW p \in Workers, NEW w \in Websites, ClaimDispatch(p, w)
      PROVE  FlagsEarned(i)'
  <2>1. /\ ctx[p][w].notice \in Announcements
        /\ ctx[p][w].notice = "down" => incident[ctx[p][w].subject].status # "unused"
        /\ ctx[p][w].notice = "recovered" =>
             incident[ctx[p][w].subject].status \in {"resolved", "deleted"}
    BY <1>5, DispatchMove DEF NoticeInv, NoticeSound
  <2>2. CASE i = ctx[p][w].subject
    BY <1>0, <1>5, <2>1, <2>2, DispatchMove DEF FlagsEarned, SameFlags, Announcements
  <2> QED BY <1>1, <1>5, <2>2, DispatchMove
<1>6. ASSUME NEW w \in Websites, PurgeIncidents(w)
      PROVE  FlagsEarned(i)'
  BY <1>0, <1>1, <1>6, PurgeEffect DEF FlagsEarned
<1> QED BY <1>1, <1>2, <1>3, <1>4, <1>5, <1>6, IncidentWriters

LEMMA ReferencesStep ==
  ASSUME Typed, References, NoticeInv, [Next]_vars PROVE References'
<1>0. NoIncident \notin Incidents
  BY MonitoringAssumption DEF MonitoringAssumption
<1>1. \A i \in Incidents : FlagsEarned(i)'
  BY FlagsStep
<1>2. ASSUME NEW v \in Websites, website'[v].current \in Incidents
      PROVE  incident'[website'[v].current].site = v
  <2>1. CASE website'[v].current = website[v].current
    BY <1>2, <2>1, SitesKept DEF References
  <2>2. ASSUME NEW p \in Workers, SaveWebsite(p, v)
        PROVE  incident'[website'[v].current].site = v
    <3>1. website'[v].current \in {website[v].current, ctx[p][v].current}
      BY <2>2, SaveMove
    <3> QED BY <1>2, <3>1, SitesKept DEF References
  <2>3. ASSUME NEW p \in Workers, NEW w \in Websites, PipelineMove(p, w)
        PROVE  incident'[website'[v].current].site = v
    BY <2>1, <2>2, <2>3, MoveSite DEF SameSite
  <2>4. ASSUME NEW w \in Websites, Outside(w) PROVE website'[v].current = website[v].current
    BY <2>4, OutsideLife
  <2>5. CASE UNCHANGED vars
    BY <2>1, <2>5 DEF vars
  <2>6. ASSUME NEW p \in Workers, Crash(p) PROVE website' = website
    BY <2>6, CrashFrame
  <2> QED BY <2>1, <2>3, <2>4, <2>5, <2>6 DEF Next, PipelineMove, Outside
<1>3. ASSUME NEW q \in Workers, NEW v \in Websites PROVE Refers(q, v)
  <2>1. CASE ctx'[q][v] = ctx[q][v]
    BY <2>1, SitesKept DEF References, Refers
  <2>2. CASE ctx'[q][v] = EmptyContext
    BY <1>0, <2>2 DEF EmptyContext, Refers
  <2>3. ASSUME NEW p \in Workers, NEW w \in Websites, PipelineMove(p, w)
        PROVE  Refers(q, v)
    BY <2>1, <2>3, MoveRefers, MoveFrame DEF OthersKept
  <2> QED BY <2>1, <2>2, <2>3, CrashFrame, PipelineWriters
<1> QED BY <1>1, <1>2, <1>3 DEF References, FlagsEarned, Refers

LEMMA PurgedStep ==
  ASSUME Typed, References, PurgedOnly, [Next]_vars PROVE PurgedOnly'
<1>1. ASSUME NEW v \in Websites, purge'[v] # "none" PROVE website'[v].life = "deleted"
  <2>1. CASE purge[v] # "none"
    BY <2>1, LifeGoesOn DEF PurgedOnly
  <2>2. ASSUME NEW w \in Websites, Outside(w)
        PROVE  purge[v] # "none" \/ website'[v].life = "deleted"
    <3>1. CASE v = w /\ DeleteWebsite(w)
      <4>1. Store(w, [website[w] EXCEPT !.life = "deleted"])
        BY <3>1 DEF DeleteWebsite
      <4>2. website'[w] = [website[w] EXCEPT !.life = "deleted"]
        BY <4>1, StoreIs
      <4> QED BY <3>1, <4>2, Parts DEF WebsiteDoc
    <3> QED BY <1>1, <2>2, <3>1, OutsideFrame
  <2>3. ASSUME NEW p \in Workers, Crash(p) PROVE purge' = purge
    BY <2>3 DEF Crash
  <2>4. ASSUME NEW p \in Workers, NEW w \in Websites, PipelineMove(p, w) PROVE purge' = purge
    BY <2>4, MoveSite
  <2> QED BY <1>1, <2>1, <2>2, <2>3, <2>4 DEF Next, PipelineMove, Outside, vars
<1>2. ASSUME NEW i \in Incidents, NEW v \in Websites,
             incident'[i].status = "deleted", incident'[i].site = v
      PROVE  website'[v].life = "deleted"
  <2>1. CASE incident[i].status = "deleted"
    BY <1>2, <2>1, LifeGoesOn, StepForward DEF PurgedOnly, Forward
  <2>2. ASSUME NEW w \in Websites, PurgeIncidents(w), incident[i].status # "deleted"
        PROVE  website'[v].life = "deleted"
    BY <1>2, <2>2, PurgeEffect, LifeGoesOn DEF PurgedOnly
  <2>3. ASSUME NEW p \in Workers, NEW w \in Websites,
               \/ OpenIncident(p, w) \/ CloseIncident(p, w)
               \/ CountFailure(p, w) \/ ClaimDispatch(p, w)
        PROVE  incident[i].status = "deleted"
    BY <1>2, <2>3, OpenMove, CloseMove, CountMove, DispatchMove
  <2> QED BY <1>2, <2>1, <2>2, <2>3, IncidentWriters
<1> QED BY <1>1, <1>2 DEF PurgedOnly

(* Who comes to hold a notice whose flag nobody claimed.                   *)
UnclaimedBy(l, c) ==
  /\ l \in Undecided => c.notice = "none"
  /\ l \in {"saving", "notifying"} /\ c.notice # "none" => ~Notified(c.subject, c.notice)

LEMMA MoveUnclaimed ==
  ASSUME Typed, References, Unclaimed, NEW p \in Workers, NEW w \in Websites,
         PipelineMove(p, w)
  PROVE  UnclaimedBy(pc[p][w], ctx[p][w])'
<1>0. UnclaimedBy(pc[p][w], ctx[p][w])
  BY DEF Unclaimed, UnclaimedBy
<1>1. CASE Claim(p, w)
  BY <1>1, ClaimMove DEF UnclaimedBy
<1>2. ASSUME NEW o \in CheckOutcomes, RecordCheck(p, w, o)
      PROVE  UnclaimedBy(pc[p][w], ctx[p][w])'
  <2>1. pc[p][w] = "checking" /\ ctx'[p][w].notice = ctx[p][w].notice
    BY <1>2, CheckMove
  <2> QED BY <1>0, <2>1 DEF UnclaimedBy, Undecided
<1>3. CASE OpenIncident(p, w)
  <2>1. /\ pc'[p][w] = "saving" /\ ctx'[p][w].notice = "down"
        /\ ctx'[p][w].subject \in Incidents
        /\ incident[ctx'[p][w].subject].status = "unused" /\ SameFlags(ctx'[p][w].subject)
    BY <1>3, OpenMove
  <2>2. ~incident'[ctx'[p][w].subject].downNotified
    BY <2>1 DEF References, SameFlags
  <2> QED BY <2>1, <2>2 DEF UnclaimedBy, Notified, Undecided
<1>4. CASE OpenLosesRace(p, w)
  <2>1. UNCHANGED <<ctx, incident>> /\ pc[p][w] = "opening" /\ pc'[p][w] = "adopting"
    BY <1>4, Lands DEF OpenLosesRace, At
  <2> QED BY <1>0, <2>1 DEF UnclaimedBy, Undecided
<1>5. CASE AdoptIncident(p, w) \/ ReadIncident(p, w)
  <2>1. pc[p][w] \in Undecided /\ ctx'[p][w].notice = ctx[p][w].notice
    BY <1>5, AdoptMove, ReadMove DEF Undecided
  <2> QED BY <1>0, <2>1 DEF UnclaimedBy
<1>6. CASE CloseIncident(p, w)
  <2>1. /\ pc'[p][w] = "saving"
        /\ ctx'[p][w].notice = "none"
           \/ /\ ctx'[p][w].notice = "recovered" /\ ctx'[p][w].subject \in Incidents
              /\ incident[ctx'[p][w].subject].status = "open" /\ SameFlags(ctx'[p][w].subject)
    BY <1>6, CloseMove
  <2>2. CASE ctx'[p][w].notice = "none"
    BY <2>1, <2>2 DEF UnclaimedBy, Undecided
  <2>3. CASE ctx'[p][w].notice # "none"
    <3>1. ~incident'[ctx'[p][w].subject].recoveryNotified
      BY <2>1, <2>3 DEF References, SameFlags
    <3> QED BY <2>1, <2>3, <3>1 DEF UnclaimedBy, Notified, Undecided
  <2> QED BY <2>2, <2>3
<1>7. CASE CountFailure(p, w)
  <2>1. pc[p][w] = "counting" /\ pc'[p][w] = "saving" /\ ctx' = ctx
    BY <1>7, CountMove
  <2> QED BY <1>0, <2>1 DEF UnclaimedBy, Undecided
<1>8. CASE SaveWebsite(p, w)
  <2>1. /\ pc[p][w] = "saving" /\ pc'[p][w] \in {"releasing", "notifying"}
        /\ ctx'[p][w].notice = ctx[p][w].notice /\ ctx'[p][w].subject = ctx[p][w].subject
        /\ incident' = incident
    BY <1>8, SaveMove
  <2> QED BY <1>0, <2>1 DEF UnclaimedBy, Notified, Undecided
<1>9. CASE pc'[p][w] \in {"sending", "releasing", "idle"}
  BY <1>9 DEF UnclaimedBy, Undecided
<1>10. ASSUME \/ ClaimDispatch(p, w) \/ SendNotice(p, w) \/ Release(p, w)
              \/ PipelineFault(p, w)
       PROVE  pc'[p][w] \in {"sending", "releasing", "idle"}
  BY <1>10, Lands DEF ClaimDispatch, SendNotice, Release, PipelineFault, ReleaseFails,
     AbandonPipeline
<1> QED BY <1>1, <1>2, <1>3, <1>4, <1>5, <1>6, <1>7, <1>8, <1>9, <1>10
        DEF PipelineMove, PipelineStep

LEMMA UnclaimedStep ==
  ASSUME Typed, References, NoticeInv, Unclaimed, [Next]_vars PROVE Unclaimed'
<1> SUFFICES ASSUME NEW q \in Workers, NEW v \in Websites
             PROVE  UnclaimedBy(pc[q][v], ctx[q][v])'
  BY DEF Unclaimed, UnclaimedBy
<1>0. /\ UnclaimedBy(pc[q][v], ctx[q][v])
      /\ ctx[q][v].notice # "none" =>
           ctx[q][v].subject \in Incidents /\ ctx[q][v].notice \in Announcements
  BY Parts DEF Unclaimed, UnclaimedBy, Consistent, Context
<1>1. CASE pc'[q][v] = "idle"
  BY <1>1 DEF UnclaimedBy, Undecided
<1>2. CASE pc'[q][v] = pc[q][v] /\ ctx'[q][v] = ctx[q][v] /\ ~PipelineMove(q, v)
  <2> DEFINE i == ctx[q][v].subject
             a == ctx[q][v].notice
  <2>1. ASSUME pc[q][v] \in {"saving", "notifying"}, a # "none", Notified(i, a)'
        PROVE  FALSE
    <3>1. i \in Incidents /\ a \in Announcements /\ ~Notified(i, a)
      BY <1>0, <2>1 DEF UnclaimedBy
    <3>2. ~SameFlags(i)
      BY <1>2, <2>1, <3>1 DEF Notified, SameFlags
    <3>3. ASSUME NEW p \in Workers, NEW w \in Websites,
                 OpenIncident(p, w) \/ CloseIncident(p, w) \/ CountFailure(p, w)
          PROVE  SameFlags(i)
      BY <3>1, <3>3, OpenMove, CloseMove, CountMove DEF SameFlags
    <3>4. ASSUME NEW w \in Websites, PurgeIncidents(w) PROVE SameFlags(i)
      BY <3>1, <3>4, PurgeEffect DEF SameFlags
    <3>5. ASSUME NEW p \in Workers, NEW w \in Websites, ClaimDispatch(p, w)
          PROVE  FALSE
      <4>1. <<p, w>> # <<q, v>>
        BY <1>2, <3>5 DEF PipelineMove, PipelineStep
      <4>2. /\ ctx[p][w].subject \in Incidents /\ ctx[p][w].notice \in Announcements
            /\ ctx[p][w].notice # "none"
        BY <3>5, DispatchMove DEF Announcements
      <4>3. ctx[p][w].subject # i \/ ctx[p][w].notice # a
        BY <4>1, <4>2 DEF NoticeInv, SoleAnnouncer
      <4>4. CASE ctx[p][w].subject # i
        <5>1. incident'[i] = incident[i]
          BY <3>1, <3>5, <4>4, DispatchMove
        <5> QED BY <3>2, <5>1 DEF SameFlags
      <4>5. CASE ctx[p][w].subject = i /\ ctx[p][w].notice # a
        <5>1. \/ SameFlags(i)
              \/ /\ incident'[i].downNotified =
                      (ctx[p][w].notice = "down" \/ incident[i].downNotified)
                 /\ incident'[i].recoveryNotified =
                      (ctx[p][w].notice # "down" \/ incident[i].recoveryNotified)
          BY <3>5, <4>5, DispatchMove
        <5>2. IF a = "down" THEN ~incident'[i].downNotified ELSE ~incident'[i].recoveryNotified
          BY <3>1, <3>2, <4>2, <4>5, <5>1 DEF Notified, Announcements
        <5> QED BY <1>2, <2>1, <5>2 DEF Notified
      <4> QED BY <4>3, <4>4, <4>5
    <3>6. CASE UNCHANGED incident
      BY <3>2, <3>6 DEF SameFlags
    <3> QED BY <3>2, <3>3, <3>4, <3>5, <3>6, IncidentWriters
  <2> QED BY <1>0, <1>2, <2>1 DEF UnclaimedBy, Notified
<1>3. CASE PipelineMove(q, v)
  BY <1>3, MoveUnclaimed
<1>4. CASE \E p \in Workers : Crash(p)
  BY <1>1, <1>2, <1>3, <1>4, CrashFrame
<1>5. CASE \E p \in Workers, w \in Websites : PipelineMove(p, w)
  BY <1>2, <1>3, <1>5, MoveFrame DEF OthersKept
<1>6. CASE UNCHANGED <<pc, ctx>>
  BY <1>2, <1>3, <1>6
<1> QED BY <1>4, <1>5, <1>6, PipelineWriters

LEMMA StatusNamesStep == ASSUME Typed, StatusNames, [Next]_vars PROVE StatusNames'
<1> SUFFICES ASSUME NEW v \in Websites, website'[v].status \notin {"paused", "unknown"}
             PROVE  website'[v].status = "down" <=> website'[v].current # NoIncident
  BY DEF StatusNames
<1>1. CASE SameSite(v)
  BY <1>1 DEF SameSite, SameReading, StatusNames
<1>2. ASSUME NEW p \in Workers, SaveWebsite(p, v)
      PROVE  website'[v].status = "down" <=> website'[v].current # NoIncident
  <2> DEFINE o == ctx[p][v].outcome
             h == ctx[p][v].current # NoIncident
  <2>1. CASE Live(v)
    <3>1. website'[v].status = DeriveDisplayStatus(o, h) /\ (website'[v].current # NoIncident <=> h)
      BY <1>2, <2>1, SaveMove DEF SavedReading
    <3>2. o \in CheckOutcomes /\ h \in BOOLEAN
      BY Parts DEF Context
    <3>3. DeriveDisplayStatus(o, h) = "down" <=> h
      <4> HIDE DEF o, h
      <4> QED BY <3>2 DEF DeriveDisplayStatus, CheckOutcomes
    <3> QED BY <3>1, <3>3
  <2>2. CASE ~Live(v)
    BY <1>1, <1>2, <2>2, SaveMove DEF SameSite, SameReading
  <2> QED BY <2>1, <2>2
<1>3. ASSUME NEW p \in Workers, NEW w \in Websites, PipelineMove(p, w)
      PROVE  website'[v].status = "down" <=> website'[v].current # NoIncident
  BY <1>1, <1>2, <1>3, MoveSite DEF SameSite, SameReading
<1>4. ASSUME NEW w \in Websites, Outside(w)
      PROVE  website'[v].status = "down" <=> website'[v].current # NoIncident
  <2>1. website'[v].current = website[v].current /\ website'[v].status = website[v].status
    BY <1>4, OutsideLife, OutsideFrame DEF SameReading, ResetReading
  <2> QED BY <2>1 DEF StatusNames
<1>5. CASE UNCHANGED website
  BY <1>5 DEF StatusNames
<1>6. ASSUME NEW p \in Workers, Crash(p) PROVE UNCHANGED website
  BY <1>6, CrashFrame
<1> QED BY <1>3, <1>4, <1>5, <1>6 DEF Next, PipelineMove, Outside, vars

LEMMA BackgroundInit == Init => Background
<1> SUFFICES ASSUME Init PROVE Background
  OBVIOUS
<1>0. NoIncident \notin Incidents /\ EmptyContext.current = NoIncident
      /\ EmptyContext.subject = NoIncident
  BY MonitoringAssumption DEF MonitoringAssumption, EmptyContext
<1>1. References
  BY <1>0 DEF Init, References
<1>2. PurgedOnly /\ Unclaimed /\ StatusNames
  BY DEF Init, PurgedOnly, Unclaimed, StatusNames, Undecided
<1> QED BY <1>1, <1>2 DEF Background

LEMMA AlwaysBackground == Spec => []Background
<1>1. Typed /\ NoticeInv /\ Background /\ [Next]_vars => Background'
  BY ReferencesStep, PurgedStep, UnclaimedStep, StatusNamesStep DEF Background
<1> QED BY <1>1, BackgroundInit, AlwaysTyped, AlwaysNotice, PTL DEF Spec

-----------------------------------------------------------------------------
(* The websites a step does not concern.                                   *)

Undisturbed(v) ==
  /\ \A p \in Workers : pc'[p][v] = pc[p][v] /\ ctx'[p][v] = ctx[p][v]
  /\ \A i \in Incidents : incident[i].site = v \/ incident'[i].site = v =>
       incident'[i] = incident[i] /\ mail'[i] = mail[i]
  /\ checks'[v] = checks[v]
  /\ website'[v].current = website[v].current
  /\ website'[v].failures <= website[v].failures
  /\ website'[v].successes <= website[v].successes
  /\ website'[v].life # "deleted" => website[v].life # "deleted"

LEMMA RunsNatural ==
  ASSUME Typed, NEW v \in Websites
  PROVE  /\ FailRun(v) \in Nat /\ PassRun(v) \in Nat
         /\ website[v].failures \in Nat /\ website[v].successes \in Nat
         /\ \A p \in Workers : ctx[p][v].failures \in Nat /\ ctx[p][v].successes \in Nat
         /\ \A i \in Incidents : incident[i].failedChecks \in Nat
BY Parts, StreakBound DEF Typed, TypeOK, Streak, FailRun, PassRun, WebsiteDoc, Context, IncidentDoc

LEMMA UndisturbedKept ==
  ASSUME Typed, Typed', NEW v \in Websites, Undisturbed(v), SiteInv(v) PROVE SiteInv(v)'
<1> SUFFICES ASSUME website'[v].life # "deleted" PROVE SiteInv(v)'
  BY DEF SiteInv
<1>0. /\ Quiet(v) => Recorded(v)
      /\ \A p \in Workers : ~At(p, v, "idle") => Phase(pc[p][v], ctx[p][v], v)
      /\ Told(v)
  BY DEF Undisturbed, SiteInv
<1>1. /\ OpenOn(v)' = OpenOn(v)
      /\ \A i \in OpenOn(v) : i \in Incidents /\ incident'[i] = incident[i]
      /\ FailRun(v)' = FailRun(v) /\ PassRun(v)' = PassRun(v)
  BY DEF Undisturbed, OpenOn, FailRun, PassRun
<1>2. website'[v].failures \in Nat /\ website'[v].successes \in Nat
  BY StreakBound DEF Typed, TypeOK, WebsiteDoc, Streak
<1>3. ASSUME Recorded(v) PROVE Recorded(v)'
  <2>1. OpenOn(v)' = Named(website[v].current)'
    BY <1>1, <1>3 DEF Recorded, Named, Undisturbed
  <2>2. Backed(website[v], v)'
    <3>1. /\ website[v].failures <= FailRun(v) /\ website[v].successes <= PassRun(v)
          /\ website'[v].failures <= website[v].failures
          /\ website'[v].successes <= website[v].successes
          /\ website'[v].failures \in Nat /\ website'[v].successes \in Nat
      BY <1>2, <1>3 DEF Recorded, Backed, Undisturbed
    <3>2. website'[v].failures <= FailRun(v) /\ website'[v].successes <= PassRun(v)
      BY <3>1, RunsNatural
    <3> QED BY <1>1, <3>2 DEF Backed
  <2>3. Covered(v, website[v].failures)'
    <3>1. /\ \A i \in OpenOn(v) : website[v].failures <= incident[i].failedChecks
          /\ website'[v].failures <= website[v].failures /\ website'[v].failures \in Nat
      BY <1>2, <1>3 DEF Recorded, Covered, Undisturbed
    <3>2. \A i \in OpenOn(v) : website'[v].failures <= incident[i].failedChecks
      BY <1>1, <3>1, RunsNatural
    <3> QED BY <1>1, <3>2 DEF Covered
  <2> QED BY <2>1, <2>2, <2>3 DEF Recorded
<1>4. Quiet(v)' => Quiet(v)
  BY DEF Quiet, At, Undisturbed
<1>5. ASSUME NEW p \in Workers, ~At(p, v, "idle")'
      PROVE  Phase(pc[p][v], ctx[p][v], v)'
  <2>1. pc'[p][v] = pc[p][v] /\ ctx'[p][v] = ctx[p][v] /\ Phase(pc[p][v], ctx[p][v], v)
    BY <1>0, <1>5 DEF At, Undisturbed
  <2> QED BY <1>1, <1>3, <2>1 DEF Phase, Backed, Covered
<1>6. Told(v)'
  BY <1>0 DEF Told, Undisturbed, Happened, Owes
<1> QED BY <1>0, <1>3, <1>4, <1>5, <1>6 DEF SiteInv

LEMMA OutsideUndisturbed ==
  ASSUME Typed, PurgedOnly, NEW w \in Websites, Outside(w), NEW v \in Websites,
         website'[v].life # "deleted"
  PROVE  Undisturbed(v)
<1>1. website[v].life # "deleted"
  BY OutsideLife
<1>2. purge[v] = "none"
  BY <1>1 DEF PurgedOnly
<1>3. ASSUME NEW i \in Incidents, incident[i].site = v \/ incident'[i].site = v
      PROVE  incident'[i] = incident[i]
  BY <1>2, <1>3, OutsideFrame, PurgeEffect
<1>4. checks'[v] = checks[v]
  <2>1. CASE PurgeChecks(w)
    BY <1>2, <2>1 DEF PurgeChecks, Typed, TypeOK
  <2> QED BY <2>1, OutsideFrame
<1>5. website'[v].failures <= website[v].failures /\ website'[v].successes <= website[v].successes
  BY OutsideFrame, RunsNatural DEF SameReading, ResetReading
<1> QED BY <1>1, <1>3, <1>4, <1>5, OutsideFrame, OutsideLife DEF Undisturbed

(* A pipeline writes only to incidents and checks of its website.          *)
LEMMA MoveUndisturbs ==
  ASSUME Typed, References, NEW p \in Workers, NEW w \in Websites, PipelineMove(p, w),
         NEW v \in Websites \ {w}
  PROVE  Undisturbed(v)
<1>1. /\ \A q \in Workers : pc'[q][v] = pc[q][v] /\ ctx'[q][v] = ctx[q][v]
      /\ website'[v] = website[v]
  BY MoveFrame, MoveSite DEF OthersKept
<1>2. website'[v].failures <= website[v].failures /\ website'[v].successes <= website[v].successes
  BY <1>1, RunsNatural
<1>3. ASSUME NEW i \in Incidents, incident[i].site = v \/ incident'[i].site = v
      PROVE  incident'[i] = incident[i] /\ mail'[i] = mail[i]
  <2>1. CASE UNCHANGED <<incident, mail>>
    BY <2>1
  <2>2. CASE OpenIncident(p, w)
    <3>1. /\ incident[ctx'[p][w].subject].site = NoWebsite
          /\ incident'[ctx'[p][w].subject].site = w /\ NoWebsite \notin Websites
      BY <2>2, OpenMove, MonitoringAssumption DEF References, MonitoringAssumption
    <3> QED BY <1>3, <2>2, <3>1, OpenMove
  <2>3. CASE CloseIncident(p, w)
    <3>1. incident[ctx[p][w].current].site = w /\ incident'[ctx[p][w].current].site = w
      BY <2>3, CloseMove DEF References
    <3> QED BY <1>3, <2>3, <3>1, CloseMove
  <2>4. CASE CountFailure(p, w)
    <3>1. incident[ctx[p][w].current].site = w /\ incident'[ctx[p][w].current].site = w
      BY <2>4, CountMove DEF References
    <3> QED BY <1>3, <2>4, <3>1, CountMove
  <2>5. CASE ClaimDispatch(p, w)
    <3>1. incident[ctx[p][w].subject].site = w /\ incident'[ctx[p][w].subject].site = w
      BY <2>5, DispatchMove DEF References
    <3> QED BY <1>3, <2>5, <3>1, DispatchMove
  <2>6. CASE SendNotice(p, w)
    <3>1. incident[ctx[p][w].subject].site = w /\ incident' = incident
      BY <2>6, SendMove DEF References
    <3>2. i # ctx[p][w].subject
      BY <1>3, <3>1
    <3>3. mail' = mail \/ mail' = [mail EXCEPT ![ctx[p][w].subject][ctx[p][w].notice] = @ + 1]
      BY <2>6, SendEffect
    <3> QED BY <3>1, <3>2, <3>3 DEF Typed, TypeOK
  <2> QED
    BY <2>1, <2>2, <2>3, <2>4, <2>5, <2>6
    DEF PipelineMove, PipelineStep, PipelineFault, Claim, RecordCheck, OpenLosesRace,
        AdoptIncident, ReadIncident, SaveWebsite, Release, ReleaseFails, AbandonPipeline
<1>4. checks'[v] = checks[v]
  <2>1. UNCHANGED checks \/ \E o \in CheckOutcomes : RecordCheck(p, w, o)
    BY DEF PipelineMove, PipelineStep, PipelineFault, Claim, OpenIncident, OpenLosesRace,
       AdoptIncident, ReadIncident, CloseIncident, CountFailure, SaveWebsite, ClaimDispatch,
       SendNotice, Release, ReleaseFails, AbandonPipeline
  <2> QED BY <2>1, CheckMove
<1> QED BY <1>1, <1>2, <1>3, <1>4 DEF Undisturbed

-----------------------------------------------------------------------------
(* The website a pipeline works on.  The lease keeps the others out of it. *)

Alone(p, w) == \A q \in Workers \ {p} : pc[q][w] = "idle"

LEMMA MoverAlone ==
  ASSUME Typed, LeaseInv, NEW p \in Workers, NEW w \in Websites, PipelineMove(p, w)
  PROVE  Alone(p, w) /\ Alone(p, w)'
<1>1. Alone(p, w)
  <2>1. CASE Live(w) /\ website[w].lease # "held"
    BY <2>1 DEF LeaseInv, Alone, At
  <2>2. CASE pc[p][w] # "idle"
    BY <2>2 DEF LeaseInv, LeaseExclusion, Alone, At
  <2> QED BY <2>1, <2>2, MoveLease
<1> QED BY <1>1, MoveFrame DEF OthersKept, Alone

(* The state in which such a step is taken, in a website not deleted.      *)
Ready(p, w) ==
  /\ Typed /\ Background /\ NoticeInv /\ DispatchInv /\ LeaseInv
  /\ SiteInv(w) /\ website[w].life # "deleted"
  /\ Alone(p, w)

LEMMA ReadyParts ==
  ASSUME NEW p \in Workers, NEW w \in Websites, Ready(p, w)
  PROVE  /\ pc[p][w] = "idle" => Recorded(w)
         /\ pc[p][w] # "idle" => Phase(pc[p][w], ctx[p][w], w) /\ Live(w)
         /\ Told(w)
         /\ \A i \in Incidents, a \in Announcements :
              incident[i].site = w /\ Happened(i, a) => mail[i][a] = 1 \/ Owes(p, w, i, a)
         /\ \A i \in Incidents : incident[i].site = w => incident[i].status # "deleted"
<1>1. pc[p][w] = "idle" => Quiet(w)
  BY DEF Ready, Alone, Quiet, At
<1>2. pc[p][w] # "idle" => website[w].life # "absent"
  BY DEF Ready, LeaseInv, At
<1>3. website[w].life \in {"absent", "live", "deleted"}
  BY Parts DEF Ready, WebsiteDoc
<1>4. \A q \in Workers, i \in Incidents, a \in Announcements : Owes(q, w, i, a) => q = p
  BY DEF Ready, Alone, Owes, Announcing
<1> QED BY <1>1, <1>2, <1>3, <1>4 DEF Ready, SiteInv, At, Live, Told, Background, PurgedOnly

LEMMA SiteFromMover ==
  ASSUME NEW p \in Workers, NEW w \in Websites, Alone(p, w)',
         pc'[p][w] = "idle" => Recorded(w)',
         pc'[p][w] # "idle" => Phase(pc[p][w], ctx[p][w], w)',
         Told(w)'
  PROVE  SiteInv(w)'
BY DEF SiteInv, Quiet, At, Alone

(* The mover is all there is to say who owes an announcement.              *)
LEMMA ToldKept ==
  ASSUME NEW p \in Workers, NEW w \in Websites, Ready(p, w),
         \A i \in Incidents : incident'[i].site = w =>
           incident[i].site = w /\ incident'[i].status = incident[i].status,
         UNCHANGED mail,
         \/ pc[p][w] \notin Announcing \/ ctx[p][w].notice = "none"
         \/ /\ pc'[p][w] \in Announcing
            /\ ctx'[p][w].notice = ctx[p][w].notice /\ ctx'[p][w].subject = ctx[p][w].subject
  PROVE  Told(w)'
<1> SUFFICES ASSUME NEW i \in Incidents, NEW a \in Announcements,
                    incident'[i].site = w, Happened(i, a)'
             PROVE  mail'[i][a] = 1 \/ Owes(p, w, i, a)'
  BY DEF Told
<1>1. incident[i].site = w /\ Happened(i, a)
  BY DEF Happened
<1>2. mail[i][a] = 1 \/ Owes(p, w, i, a)
  BY <1>1, ReadyParts
<1> QED BY <1>2 DEF Owes, Announcements

LEMMA SameOpen ==
  ASSUME NEW w \in Websites,
         \A i \in Incidents :
           incident'[i].site = incident[i].site /\ incident'[i].status = incident[i].status
  PROVE  OpenOn(w)' = OpenOn(w)
BY DEF OpenOn

(* A document that says the same of the same checks stays recorded.        *)
LEMMA RecordedKept ==
  ASSUME NEW w \in Websites, Recorded(w), SameSite(w), UNCHANGED checks,
         \A i \in Incidents :
           /\ incident'[i].site = incident[i].site /\ incident'[i].status = incident[i].status
           /\ incident'[i].failedChecks = incident[i].failedChecks
  PROVE  Recorded(w)'
<1>1. OpenOn(w)' = OpenOn(w) /\ OpenOn(w) \subseteq Incidents
  BY SameOpen DEF OpenOn
<1> QED BY <1>1 DEF Recorded, Backed, Covered, Named, FailRun, PassRun, SameSite, SameReading

LEMMA ClaimSite ==
  ASSUME NEW p \in Workers, NEW w \in Websites, Ready(p, w), Alone(p, w)', Claim(p, w)
  PROVE  SiteInv(w)'
<1>0. Typed /\ Recorded(w)
  BY ClaimMove, ReadyParts DEF Ready
<1>1. OpenOn(w)' = OpenOn(w)
  BY <1>0, ClaimMove, SameOpen
<1>2. Phase(pc[p][w], ctx[p][w], w)'
  BY <1>0, <1>1, ClaimMove
     DEF Phase, Recorded, Backed, Covered, Named, FailRun, PassRun, Held, OpenOn
<1>3. Told(w)'
  BY <1>0, ClaimMove, ToldKept DEF Announcing
<1> QED BY <1>0, <1>2, <1>3, ClaimMove, SiteFromMover

(* One check more in both places.                                          *)
LEMMA CheckBacked ==
  ASSUME NEW c \in [ok : BOOLEAN, run : Streak], NEW ok \in BOOLEAN, NEW f \in Nat, NEW s \in Nat,
         f <= IF c.ok THEN 0 ELSE c.run, s <= IF c.ok THEN c.run ELSE 0
  PROVE  LET d == ExtendRun(c, ok)
         IN  /\ d.ok = ok
             /\ ok => Capped(s + 1) <= d.run
             /\ ~ok => Capped(f + 1) <= d.run
BY StreakBound DEF ExtendRun, Capped, Streak

LEMMA CheckSite ==
  ASSUME NEW p \in Workers, NEW w \in Websites, Ready(p, w), Alone(p, w)',
         NEW o \in CheckOutcomes, RecordCheck(p, w, o)
  PROVE  SiteInv(w)'
<1> DEFINE c == ctx[p][w]
           ok == o # "down"
<1>0. Typed /\ Phase("checking", c, w)
  BY CheckMove, ReadyParts DEF Ready
<1>1. /\ OpenOn(w)' = OpenOn(w) /\ OpenOn(w) = Named(c.current)
      /\ OpenOn(w) \subseteq Incidents /\ ctx'[p][w].current = c.current
  BY <1>0, CheckMove, SameOpen DEF Phase, Held, OpenOn
<1>2. c.failures \in Nat /\ c.successes \in Nat /\ checks[w] \in [ok : BOOLEAN, run : Streak]
      /\ \A i \in Incidents : incident[i].failedChecks \in Nat
  BY <1>0, RunsNatural DEF Typed, TypeOK
<1>3. /\ checks'[w] = ExtendRun(checks[w], ok)
      /\ ok => ctx'[p][w].failures = 0 /\ ctx'[p][w].successes = Capped(c.successes + 1)
      /\ ~ok => ctx'[p][w].failures = Capped(c.failures + 1) /\ ctx'[p][w].successes = 0
  BY <1>0, CheckMove
<1>4. /\ checks'[w].ok = ok
      /\ ok => Capped(c.successes + 1) <= checks'[w].run
      /\ ~ok => Capped(c.failures + 1) <= checks'[w].run
  <2>1. /\ c.failures <= IF checks[w].ok THEN 0 ELSE checks[w].run
        /\ c.successes <= IF checks[w].ok THEN checks[w].run ELSE 0
    BY <1>0 DEF Phase, Held, Backed, FailRun, PassRun
  <2>2. ok \in BOOLEAN
    OBVIOUS
  <2> HIDE DEF c, ok
  <2> QED BY <1>2, <1>3, <2>1, <2>2, CheckBacked
<1>5. Backed(ctx[p][w], w)'
  <2>1. ASSUME ok PROVE Backed(ctx[p][w], w)'
    <3>1. FailRun(w)' = 0 /\ PassRun(w)' = checks'[w].run
      BY <1>4, <2>1 DEF FailRun, PassRun
    <3>2. ctx'[p][w].failures = 0 /\ ctx'[p][w].successes <= checks'[w].run
      BY <1>3, <1>4, <2>1
    <3> QED BY <3>1, <3>2 DEF Backed
  <2>2. ASSUME ~ok PROVE Backed(ctx[p][w], w)'
    <3>1. FailRun(w)' = checks'[w].run /\ PassRun(w)' = 0
      BY <1>4, <2>2 DEF FailRun, PassRun
    <3>2. ctx'[p][w].failures <= checks'[w].run /\ ctx'[p][w].successes = 0
      BY <1>3, <1>4, <2>2
    <3> QED BY <3>1, <3>2 DEF Backed
  <2> QED BY <2>1, <2>2
<1>6. pc'[p][w] = "saving" => Covered(w, ctx[p][w].failures)'
  <2>1. CASE ok
    <3>1. ctx'[p][w].failures = 0 /\ incident' = incident
      BY <1>0, <1>3, <2>1, CheckMove
    <3> QED BY <1>1, <1>2, <3>1 DEF Covered
  <2>2. CASE ~ok
    <3>1. pc'[p][w] = "saving" => c.current = NoIncident
      BY <1>0, <2>2, CheckMove
    <3>2. pc'[p][w] = "saving" => OpenOn(w) = {}
      BY <1>1, <3>1 DEF Named
    <3> QED BY <1>1, <3>2 DEF Covered
  <2> QED BY <2>1, <2>2
<1>7. \A i \in OpenOn(w) : ctx'[p][w].failures <= incident[i].failedChecks + 1
  <2>1. ctx'[p][w].failures \in Nat /\ ctx'[p][w].failures <= c.failures + 1
    <3> HIDE DEF c
    <3> QED BY <1>2, <1>3, StreakBound DEF Capped
  <2>2. \A i \in OpenOn(w) : c.failures <= incident[i].failedChecks
    BY <1>0 DEF Phase, Covered
  <2> HIDE DEF c
  <2> QED BY <1>1, <1>2, <2>1, <2>2
<1>8. Phase(pc[p][w], ctx[p][w], w)'
  <2>1. pc'[p][w] \in {"saving", "opening", "resolving", "counting"}
    BY <1>0, CheckMove
  <2>2. /\ pc'[p][w] = "opening" =>
             ctx'[p][w].current = NoIncident /\ ctx'[p][w].failures >= ctx'[p][w].failureThreshold
        /\ pc'[p][w] = "resolving" => ctx'[p][w].successes >= ctx'[p][w].recoveryThreshold
        /\ incident' = incident
    BY <1>0, <1>1, CheckMove
  <2> HIDE DEF c, ok
  <2> QED BY <1>1, <1>5, <1>6, <1>7, <2>1, <2>2 DEF Phase, Held, Decided
<1>9. Told(w)'
  BY <1>0, CheckMove, ToldKept DEF Announcing
<1> QED BY <1>0, <1>8, <1>9, CheckMove, SiteFromMover

LEMMA OpenSite ==
  ASSUME NEW p \in Workers, NEW w \in Websites, Ready(p, w), Alone(p, w)', OpenIncident(p, w)
  PROVE  SiteInv(w)'
<1> DEFINE i == ctx'[p][w].subject
<1>0. Typed /\ Phase("opening", ctx[p][w], w) /\ References /\ Typed'
  BY OpenMove, ReadyParts, OpenTyped DEF Ready, Background
<1>1. OpenOn(w)' = {i} /\ Named(ctx'[p][w].current) = {i} /\ i \in Incidents
  BY <1>0, OpenMove, MonitoringAssumption DEF OpenOn, Named, MonitoringAssumption
<1>2. Backed(ctx[p][w], w)'
  BY <1>0, OpenMove DEF Phase, Held, Decided, Backed, SameStreaks, FailRun, PassRun
<1>3. Covered(w, ctx[p][w].failures)'
  <2>1. incident'[i].failedChecks = ctx'[p][w].failures /\ ctx[p][w].failures \in Nat
    BY <1>0, OpenMove, RunsNatural DEF SameStreaks
  <2>2. ctx'[p][w].failures \in Nat
    BY <1>0, OpenMove, <2>1 DEF SameStreaks
  <2> QED BY <1>1, <2>1, <2>2 DEF Covered
<1>4. Phase(pc[p][w], ctx[p][w], w)'
  BY <1>0, <1>1, <1>2, <1>3, OpenMove DEF Phase, Held, Decided
<1>5. Told(w)'
  <2>1. ASSUME NEW j \in Incidents, NEW a \in Announcements, incident'[j].site = w, Happened(j, a)'
        PROVE  mail'[j][a] = 1 \/ Owes(p, w, j, a)'
    <3>1. CASE j = i
      <4>1. a = "down"
        BY <1>0, <2>1, <3>1, OpenMove DEF Happened
      <4> QED BY <1>0, <3>1, <4>1, OpenMove DEF Owes, Announcing
    <3>2. CASE j # i
      <4>1. incident'[j] = incident[j] /\ mail' = mail /\ pc[p][w] = "opening"
        BY <1>0, <3>2, OpenMove
      <4>2. incident[j].site = w /\ Happened(j, a) /\ ~Owes(p, w, j, a)
        BY <2>1, <4>1 DEF Happened, Owes, Announcing
      <4> QED BY <4>1, <4>2, ReadyParts
    <3> QED BY <3>1, <3>2
  <2> QED BY <2>1 DEF Told
<1> QED BY <1>0, <1>4, <1>5, OpenMove, SiteFromMover

LEMMA ReadSite ==
  ASSUME NEW p \in Workers, NEW w \in Websites, Ready(p, w), Alone(p, w)', ReadIncident(p, w)
  PROVE  SiteInv(w)'
<1>0. Typed /\ Phase("resolving", ctx[p][w], w) /\ NoIncident \notin Incidents
  BY ReadMove, ReadyParts, MonitoringAssumption DEF Ready, MonitoringAssumption
<1>1. ctx[p][w].current \in Incidents
  BY <1>0, ReadMove, Parts DEF Consistent
<1>2. incident[ctx[p][w].current].status = "open"
  BY <1>0, <1>1 DEF Phase, Held, Decided, Named, OpenOn
<1>3. OpenOn(w)' = OpenOn(w)
  BY <1>0, ReadMove, SameOpen
<1>4. Phase(pc[p][w], ctx[p][w], w)'
  BY <1>0, <1>2, <1>3, ReadMove
     DEF Phase, Held, Decided, Backed, SameStreaks, FailRun, PassRun
<1>5. Told(w)'
  BY <1>0, ReadMove, ToldKept DEF Announcing
<1> QED BY <1>0, <1>2, <1>4, <1>5, ReadMove, SiteFromMover

LEMMA CloseSite ==
  ASSUME NEW p \in Workers, NEW w \in Websites, Ready(p, w), Alone(p, w)', CloseIncident(p, w)
  PROVE  SiteInv(w)'
<1> DEFINE i == ctx[p][w].current
<1>0. Typed /\ Phase("closing", ctx[p][w], w) /\ i \in Incidents /\ NoIncident \notin Incidents
  BY CloseMove, ReadyParts, MonitoringAssumption DEF Ready, MonitoringAssumption
<1>1. OpenOn(w) = {i} /\ incident[i].status = "open" /\ incident[i].site = w
  BY <1>0 DEF Phase, Held, Decided, Named, OpenOn
<1>2. OpenOn(w)' = {} /\ Named(ctx'[p][w].current) = {}
  BY <1>0, <1>1, CloseMove DEF OpenOn, Named
<1>3. Backed(ctx[p][w], w)'
  BY <1>0, CloseMove DEF Phase, Held, Decided, Backed, SameStreaks, FailRun, PassRun
<1>4. Phase(pc[p][w], ctx[p][w], w)'
  BY <1>0, <1>2, <1>3, CloseMove DEF Phase, Held, Decided, Covered
<1>5. Told(w)'
  <2>1. ASSUME NEW j \in Incidents, NEW a \in Announcements, incident'[j].site = w, Happened(j, a)'
        PROVE  mail'[j][a] = 1 \/ Owes(p, w, j, a)'
    <3>0. /\ mail' = mail /\ ~Owes(p, w, j, a)
          /\ incident[j].site = w /\ Happened(j, a) => mail[j][a] = 1
      BY <1>0, CloseMove, ReadyParts DEF Owes, Announcing
    <3>1. CASE j = i /\ a = "down"
      BY <1>1, <3>0, <3>1 DEF Happened
    <3>2. CASE j = i /\ a = "recovered"
      BY <1>0, <1>1, <3>2, CloseMove DEF Owes, Announcing
    <3>3. CASE j # i
      <4>1. incident'[j] = incident[j]
        BY <1>0, <1>1, <3>3, CloseMove
      <4> QED BY <2>1, <3>0, <4>1 DEF Happened
    <3> QED BY <3>1, <3>2, <3>3 DEF Announcements
  <2> QED BY <2>1 DEF Told
<1> QED BY <1>0, <1>4, <1>5, CloseMove, SiteFromMover

LEMMA CountSite ==
  ASSUME NEW p \in Workers, NEW w \in Websites, Ready(p, w), Alone(p, w)', CountFailure(p, w)
  PROVE  SiteInv(w)'
<1> DEFINE i == ctx[p][w].current
<1>0. Typed /\ Phase("counting", ctx[p][w], w) /\ i \in Incidents /\ NoIncident \notin Incidents
  BY CountMove, ReadyParts, MonitoringAssumption DEF Ready, MonitoringAssumption
<1>1. OpenOn(w) = {i} /\ incident[i].status = "open" /\ incident[i].site = w
  BY <1>0 DEF Phase, Held, Decided, Named, OpenOn
<1>2. OpenOn(w)' = OpenOn(w)
  <2>1. \A j \in Incidents : incident'[j].site = incident[j].site
                             /\ incident'[j].status = incident[j].status
    BY <1>0, CountMove
  <2> QED BY <2>1, SameOpen
<1>3. Covered(w, ctx[p][w].failures)'
  <2>1. /\ ctx[p][w].failures <= incident[i].failedChecks + 1
        /\ incident'[i].failedChecks = Capped(incident[i].failedChecks + 1)
        /\ incident[i].failedChecks \in Nat /\ ctx' = ctx
    BY <1>0, <1>1, CountMove, RunsNatural DEF Phase
  <2>2. ctx[p][w].failures \in 0..MaxStreak
    BY <1>0, Parts DEF Context, Streak
  <2>3. ctx[p][w].failures <= incident'[i].failedChecks
    BY <2>1, <2>2, StreakBound DEF Capped
  <2> QED BY <1>1, <1>2, <2>1, <2>3 DEF Covered
<1>4. Phase(pc[p][w], ctx[p][w], w)'
  BY <1>0, <1>2, <1>3, CountMove DEF Phase, Held, Decided, Backed, FailRun, PassRun
<1>5. Told(w)'
  <2>1. \A j \in Incidents : incident'[j].site = w =>
          incident[j].site = w /\ incident'[j].status = incident[j].status
    BY <1>0, CountMove
  <2> QED BY <1>0, <2>1, CountMove, ToldKept DEF Announcing
<1> QED BY <1>0, <1>4, <1>5, CountMove, SiteFromMover

LEMMA SaveSite ==
  ASSUME NEW p \in Workers, NEW w \in Websites, Ready(p, w), Alone(p, w)', SaveWebsite(p, w)
  PROVE  SiteInv(w)'
<1>0. Typed /\ Phase("saving", ctx[p][w], w) /\ Live(w)
  BY SaveMove, ReadyParts DEF Ready
<1>1. /\ website'[w].current = ctx[p][w].current
      /\ website'[w].failures = ctx[p][w].failures
      /\ website'[w].successes = ctx[p][w].successes
      /\ UNCHANGED <<checks, incident>>
  BY <1>0, SaveMove DEF SavedReading
<1>2. Recorded(w)'
  BY <1>0, <1>1
     DEF Phase, Held, Decided, Recorded, Backed, Covered, Named, FailRun, PassRun, OpenOn
<1>3. pc'[p][w] \in {"releasing", "notifying"}
  BY <1>0, SaveMove
<1>4. Phase(pc[p][w], ctx[p][w], w)'
  BY <1>2, <1>3 DEF Phase, Held, Decided
<1>5. Told(w)'
  BY <1>0, SaveMove, ToldKept DEF Announcing
<1> QED BY <1>3, <1>4, <1>5, SiteFromMover

(* The claim of the flag cannot be lost: nobody else announces the event,  *)
(* and an incident of a website that is there is there.                    *)
LEMMA DispatchSite ==
  ASSUME NEW p \in Workers, NEW w \in Websites, Ready(p, w), Alone(p, w)', ClaimDispatch(p, w)
  PROVE  SiteInv(w)'
<1> DEFINE i == ctx[p][w].subject
<1>0. Typed /\ Recorded(w) /\ i \in Incidents /\ UNCHANGED <<ctx, website, checks, mail>>
  BY DispatchMove, ReadyParts DEF Ready, Phase, Held, Decided
<1>1. incident[i].status # "deleted"
  BY <1>0, ReadyParts DEF Ready, Background, References
<1>2. ~Notified(i, ctx[p][w].notice)
  BY <1>0, DispatchMove DEF Ready, Background, Unclaimed, Announcements
<1>3. pc'[p][w] = "sending"
  BY <1>0, <1>1, <1>2, DispatchMove
<1>4. \A j \in Incidents :
        /\ incident'[j].site = incident[j].site /\ incident'[j].status = incident[j].status
        /\ incident'[j].failedChecks = incident[j].failedChecks
  BY <1>0, DispatchMove
<1>5. Recorded(w)'
  BY <1>0, <1>4, RecordedKept DEF SameSite, SameReading
<1>6. Phase(pc[p][w], ctx[p][w], w)'
  BY <1>3, <1>5 DEF Phase, Held, Decided
<1>7. Told(w)'
  BY <1>0, <1>3, <1>4, ToldKept DEF Announcing
<1> QED BY <1>3, <1>6, <1>7, SiteFromMover

LEMMA SendSite ==
  ASSUME NEW p \in Workers, NEW w \in Websites, Ready(p, w), Alone(p, w)', SendNotice(p, w)
  PROVE  SiteInv(w)'
<1> DEFINE i == ctx[p][w].subject
           a == ctx[p][w].notice
<1>0. /\ Typed /\ Recorded(w) /\ i \in Incidents /\ a \in Announcements
      /\ pc[p][w] = "sending" /\ pc'[p][w] = "releasing"
      /\ UNCHANGED <<ctx, website, checks, incident>>
  BY SendMove, ReadyParts DEF Ready, Phase, Held, Decided
<1>1. incident[i].status # "deleted"
  BY <1>0, ReadyParts DEF Ready, Background, References
<1>2. a # "down" => incident[i].status = "resolved"
  BY <1>0, <1>1 DEF Ready, NoticeInv, NoticeSound, Announcements
<1>3. mail[i][a] = 0
  BY <1>0 DEF Ready, DispatchInv, DispatchOwned, At
<1>4. mail'[i][a] = 1
  BY <1>0, <1>1, <1>2, <1>3, SendMove
<1>5. Recorded(w)'
  BY <1>0, RecordedKept DEF SameSite, SameReading
<1>6. Phase(pc[p][w], ctx[p][w], w)'
  BY <1>0, <1>5 DEF Phase, Held, Decided
<1>7. Told(w)'
  <2>1. ASSUME NEW j \in Incidents, NEW b \in Announcements,
               incident'[j].site = w, Happened(j, b)'
        PROVE  mail'[j][b] = 1
    <3>1. mail[j][b] = 1 \/ (j = i /\ b = a)
      BY <1>0, <2>1, ReadyParts DEF Happened, Owes
    <3>2. j # i \/ b # a => mail'[j][b] = mail[j][b]
      BY <1>0, SendMove
    <3> QED BY <1>4, <3>1, <3>2
  <2> QED BY <2>1 DEF Told
<1> QED BY <1>0, <1>6, <1>7, SiteFromMover

LEMMA ReleaseSite ==
  ASSUME NEW p \in Workers, NEW w \in Websites, Ready(p, w), Alone(p, w)', Release(p, w)
  PROVE  SiteInv(w)'
<1>0. Typed /\ Recorded(w)
  BY ReleaseMove, ReadyParts DEF Ready, Phase, Held, Decided
<1>1. Recorded(w)'
  BY <1>0, ReleaseMove, RecordedKept
<1>2. Told(w)'
  BY <1>0, ReleaseMove, ToldKept DEF Announcing
<1> QED BY <1>0, <1>1, <1>2, ReleaseMove, SiteFromMover

(* Without faults, these are all the steps of a pipeline.                  *)
LEMMA MoverSite ==
  ASSUME Reliable, NEW p \in Workers, NEW w \in Websites, Ready(p, w), Alone(p, w)',
         PipelineMove(p, w)
  PROVE  SiteInv(w)'
<1>1. CASE PipelineFault(p, w)
  BY <1>1 DEF Reliable, PipelineFault, ReleaseFails, AbandonPipeline
<1>2. CASE OpenLosesRace(p, w)
  <2>1. pc[p][w] = "opening" /\ OpenOn(w) # {}
    BY <1>2 DEF OpenLosesRace, IndexAdmits, At
  <2>2. OpenOn(w) = {}
    BY <2>1, ReadyParts DEF Phase, Held, Decided, Named
  <2> QED BY <2>1, <2>2
<1>3. CASE AdoptIncident(p, w)
  <2>1. pc[p][w] = "adopting"
    BY <1>3 DEF AdoptIncident, At
  <2> QED BY <2>1, ReadyParts DEF Phase
<1> QED
  BY <1>1, <1>2, <1>3, ClaimSite, CheckSite, OpenSite, ReadSite, CloseSite, CountSite,
     SaveSite, DispatchSite, SendSite, ReleaseSite
  DEF PipelineMove, PipelineStep

LEMMA SitesInit == Init => \A w \in Websites : SiteInv(w)
<1> SUFFICES ASSUME Init, NEW w \in Websites PROVE SiteInv(w)
  OBVIOUS
<1>1. OpenOn(w) = {} /\ Named(website[w].current) = {}
  BY DEF Init, OpenOn, Named
<1>2. Backed(website[w], w)
  BY DEF Init, Backed, FailRun, PassRun
<1>3. Told(w)
  BY MonitoringAssumption DEF Init, Told, MonitoringAssumption
<1>4. \A p \in Workers : At(p, w, "idle")
  BY DEF Init, At
<1> QED BY <1>1, <1>2, <1>3, <1>4 DEF SiteInv, Recorded, Covered

LEMMA SitesStep ==
  ASSUME Reliable, Typed, NoticeInv, DispatchInv, LeaseInv, ConfirmInv, [Next]_vars
  PROVE  \A v \in Websites : SiteInv(v)'
<1> SUFFICES ASSUME NEW v \in Websites, website'[v].life # "deleted" PROVE SiteInv(v)'
  BY DEF SiteInv
<1>0. Typed' /\ References /\ PurgedOnly /\ SiteInv(v)
  BY StepTyped DEF ConfirmInv, Background
<1>1. CASE Undisturbed(v)
  BY <1>0, <1>1, UndisturbedKept
<1>2. ASSUME NEW w \in Websites, Outside(w) PROVE SiteInv(v)'
  BY <1>0, <1>1, <1>2, OutsideUndisturbed
<1>3. ASSUME NEW p \in Workers, NEW w \in Websites, PipelineMove(p, w)
      PROVE  SiteInv(v)'
  <2>1. CASE v # w
    BY <1>0, <1>1, <1>3, <2>1, MoveUndisturbs
  <2>2. CASE v = w
    <3>1. Alone(p, w) /\ Alone(p, w)'
      BY <1>3, MoverAlone
    <3>2. website[w].life # "deleted"
      BY <1>3, <2>2, MoveSite
    <3>3. Ready(p, w)
      BY <1>0, <2>2, <3>1, <3>2 DEF Ready, ConfirmInv
    <3> QED BY <1>3, <2>2, <3>1, <3>3, MoverSite
  <2> QED BY <2>1, <2>2
<1>4. ASSUME NEW p \in Workers, Crash(p) PROVE FALSE
  BY <1>4 DEF Crash, Reliable
<1>5. CASE UNCHANGED vars
  <2>1. Undisturbed(v)
    BY <1>5, RunsNatural DEF vars, Undisturbed
  <2> QED BY <1>1, <2>1
<1> QED BY <1>2, <1>3, <1>4, <1>5 DEF Next, PipelineMove, Outside

LEMMA AlwaysConfirm == ASSUME Reliable PROVE Spec => []ConfirmInv
<1>1. "overlap" \notin Disturbances
  BY DEF Reliable
<1>2. Init => LeaseInv
  BY DEF Init, LeaseInv, LeaseExclusion, At
<1>3. Typed /\ LeaseInv /\ [Next]_vars => LeaseInv'
  BY <1>1, StepLease
<1>4. Init => ConfirmInv
  BY BackgroundInit, SitesInit DEF ConfirmInv
<1>5. /\ Typed /\ NoticeInv /\ DispatchInv /\ LeaseInv /\ ConfirmInv /\ Background'
      /\ [Next]_vars
      => ConfirmInv'
  BY SitesStep DEF ConfirmInv
<1> QED
  BY <1>2, <1>3, <1>4, <1>5, AlwaysTyped, AlwaysNotice, InitDispatch, StepDispatch,
     AlwaysBackground, PTL DEF Spec

-----------------------------------------------------------------------------
(* What the invariant says between two checks, and when a transition of an *)
(* incident is about to be made.                                           *)

LEMMA BetweenChecks ==
  ASSUME ConfirmInv, NEW w \in Websites, Live(w), Quiet(w)
  PROVE  Recorded(w) /\ Told(w) /\ \A p \in Workers : pc[p][w] = "idle"
BY DEF ConfirmInv, SiteInv, Live, Quiet, At

LEMMA WhileDeciding ==
  ASSUME ConfirmInv, NEW w \in Websites, Live(w), NEW p \in Workers, pc[p][w] # "idle"
  PROVE  Phase(pc[p][w], ctx[p][w], w)
BY DEF ConfirmInv, SiteInv, Live, At

LEMMA ThresholdsPositive ==
  ASSUME Typed, NEW p \in Workers, NEW w \in Websites
  PROVE  /\ ctx[p][w].failureThreshold \in Nat /\ ctx[p][w].failureThreshold >= 1
         /\ ctx[p][w].recoveryThreshold \in Nat /\ ctx[p][w].recoveryThreshold >= 1
<1>1. \A n \in FailureThresholds \cup RecoveryThresholds : n \in 1..MaxStreak
  BY MonitoringAssumption DEF MonitoringAssumption
<1>2. \A n \in 1..MaxStreak : n \in Nat /\ n >= 1
  BY StreakBound
<1>3. /\ ctx[p][w].failureThreshold \in FailureThresholds
      /\ ctx[p][w].recoveryThreshold \in RecoveryThresholds
  BY Parts DEF Context
<1> QED BY <1>1, <1>2, <1>3

(* Between checks, a website names its open incident, and no other.        *)
THEOREM WebsiteMirrors == ASSUME Reliable PROVE Spec => []MirrorAgrees
<1>1. ConfirmInv => MirrorAgrees
  BY BetweenChecks DEF MirrorAgrees, Recorded, Named
<1> QED BY <1>1, AlwaysConfirm, PTL

(* Between checks, a website reads as down exactly while an incident of it *)
(* is open.                                                                *)
THEOREM DownMeansOpen == ASSUME Reliable PROVE Spec => []DownWhileOpen
<1>1. ConfirmInv => DownWhileOpen
  <2> SUFFICES ASSUME ConfirmInv, NEW w \in Websites, Live(w), Quiet(w),
                      website[w].status \notin {"paused", "unknown"}
               PROVE  website[w].status = "down" <=> OpenOn(w) # {}
    BY DEF DownWhileOpen
  <2>1. OpenOn(w) = Named(website[w].current)
    BY BetweenChecks DEF Recorded
  <2>2. website[w].status = "down" <=> website[w].current # NoIncident
    BY DEF ConfirmInv, Background, StatusNames
  <2> QED BY <2>1, <2>2 DEF Named
<1> QED BY <1>1, AlwaysConfirm, PTL

(* Between checks, the open incident has counted every failed check of the *)
(* streak.                                                                 *)
THEOREM FailuresCounted == ASSUME Reliable PROVE Spec => []FailedChecksCover
<1>1. Typed /\ ConfirmInv => FailedChecksCover
  <2> SUFFICES ASSUME Typed, ConfirmInv, NEW w \in Websites, Live(w), Quiet(w),
                      NEW i \in OpenOn(w)
               PROVE  incident[i].failedChecks >= website[w].failures
    BY DEF FailedChecksCover
  <2>1. website[w].failures <= incident[i].failedChecks
    BY BetweenChecks DEF Recorded, Covered
  <2>2. website[w].failures \in Nat /\ incident[i].failedChecks \in Nat
    BY RunsNatural DEF OpenOn
  <2> QED BY <2>1, <2>2
<1> QED BY <1>1, AlwaysConfirm, AlwaysTyped, PTL

(* An incident is opened only after as many failed checks in a row as the  *)
(* threshold, by the checks collection.                                    *)
THEOREM OutagesAreConfirmed == ASSUME Reliable PROVE Spec => []OutageConfirmed
<1>1. Typed /\ ConfirmInv => OutageConfirmed
  <2> SUFFICES ASSUME Typed, ConfirmInv, NEW p \in Workers, NEW w \in Websites,
                      pc[p][w] = "opening", Live(w)
               PROVE  ~checks[w].ok /\ checks[w].run >= ctx[p][w].failureThreshold
    BY DEF OutageConfirmed, At
  <2>1. /\ ctx[p][w].failures <= FailRun(w)
        /\ ctx[p][w].failures >= ctx[p][w].failureThreshold
    BY WhileDeciding DEF Phase, Held, Decided, Backed
  <2>2. /\ ctx[p][w].failures \in Nat /\ FailRun(w) \in Nat
        /\ ctx[p][w].failureThreshold \in Nat /\ ctx[p][w].failureThreshold >= 1
    BY RunsNatural, ThresholdsPositive
  <2>3. FailRun(w) >= 1 /\ FailRun(w) >= ctx[p][w].failureThreshold
    BY <2>1, <2>2
  <2>4. ~checks[w].ok /\ FailRun(w) = checks[w].run
    BY <2>3 DEF FailRun
  <2> QED BY <2>3, <2>4
<1> QED BY <1>1, AlwaysConfirm, AlwaysTyped, PTL

(* An incident is closed only after as many successes in a row as the      *)
(* threshold, by the checks collection.                                    *)
THEOREM RecoveriesAreConfirmed == ASSUME Reliable PROVE Spec => []RecoveryConfirmed
<1>1. Typed /\ ConfirmInv => RecoveryConfirmed
  <2> SUFFICES ASSUME Typed, ConfirmInv, NEW p \in Workers, NEW w \in Websites,
                      pc[p][w] = "closing", Live(w)
               PROVE  checks[w].ok /\ checks[w].run >= ctx[p][w].recoveryThreshold
    BY DEF RecoveryConfirmed, At
  <2>1. /\ ctx[p][w].successes <= PassRun(w)
        /\ ctx[p][w].successes >= ctx[p][w].recoveryThreshold
    BY WhileDeciding DEF Phase, Held, Decided, Backed
  <2>2. /\ ctx[p][w].successes \in Nat /\ PassRun(w) \in Nat
        /\ ctx[p][w].recoveryThreshold \in Nat /\ ctx[p][w].recoveryThreshold >= 1
    BY RunsNatural, ThresholdsPositive
  <2>3. PassRun(w) >= 1 /\ PassRun(w) >= ctx[p][w].recoveryThreshold
    BY <2>1, <2>2
  <2>4. checks[w].ok /\ PassRun(w) = checks[w].run
    BY <2>3 DEF PassRun
  <2> QED BY <2>3, <2>4
<1> QED BY <1>1, AlwaysConfirm, AlwaysTyped, PTL

(* Between checks, every outage and every recovery has been announced.     *)
THEOREM NothingUnannounced == ASSUME Reliable PROVE Spec => []AnnouncementsComplete
<1>1. ConfirmInv => AnnouncementsComplete
  <2> SUFFICES ASSUME ConfirmInv, NEW w \in Websites, Live(w), Quiet(w),
                      NEW i \in Incidents, incident[i].site = w
               PROVE  /\ incident[i].status \in {"open", "resolved"} => mail[i]["down"] = 1
                      /\ incident[i].status = "resolved" => mail[i]["recovered"] = 1
    BY DEF AnnouncementsComplete
  <2>1. \A a \in Announcements : Happened(i, a) => mail[i][a] = 1
    BY BetweenChecks DEF Told, Owes, Announcing
  <2> QED BY <2>1 DEF Happened, Announcements
<1> QED BY <1>1, AlwaysConfirm, PTL

-----------------------------------------------------------------------------
(* A failure streak grows by one check at a time, whatever fails or dies,  *)
(* as long as no edit restarts the confirmation under a running check.     *)

Unedited == "pause" \notin Disturbances /\ "urlEdit" \notin Disturbances
NoEdit == \A w \in Websites : edit[w] = "none"

(* What a pipeline holds is a check ahead of the document, at most.        *)
Grows(l, c, w) ==
  /\ l = "checking" => c.failures <= website[w].failures
  /\ l \in Decided => c.failures <= website[w].failures + 1

GrowInv == NoEdit /\ \A p \in Workers, w \in Websites : Grows(pc[p][w], ctx[p][w], w)

LEMMA NoEditStep == ASSUME Unedited, Typed, NoEdit, [Next]_vars PROVE NoEdit'
<1>1. ASSUME NEW w \in Websites, Outside(w) PROVE UNCHANGED edit
  BY <1>1
  DEF Unedited, NoEdit, Outside, ApiStep, ExpireLease, BecomeDue, CreateWebsite, SetMonitoring,
      BeginUrlEdit, CommitUrlEdit, RefuseUrlEdit, EditThresholds, DeleteWebsite, PurgeIncidents,
      PurgeChecks, PurgeFails
<1>2. ASSUME NEW p \in Workers, NEW w \in Websites, PipelineMove(p, w) PROVE UNCHANGED edit
  BY <1>2
  DEF PipelineMove, PipelineStep, PipelineFault, Claim, RecordCheck, OpenIncident, OpenLosesRace,
      AdoptIncident, ReadIncident, CloseIncident, CountFailure, SaveWebsite, ClaimDispatch,
      SendNotice, Release, ReleaseFails, AbandonPipeline
<1>3. ASSUME NEW p \in Workers, Crash(p) PROVE UNCHANGED edit
  BY <1>3 DEF Crash
<1> QED BY <1>1, <1>2, <1>3 DEF Next, PipelineMove, Outside, vars, NoEdit

(* Then only a pipeline that saves changes what a website says of checks.  *)
LEMMA UneditedReading ==
  ASSUME Unedited, Typed, NoEdit, [Next]_vars, NEW v \in Websites
  PROVE  \/ SameReading(v)
         \/ \E p \in Workers : SaveWebsite(p, v) /\ SavedReading(p, v)
<1>1. CASE UNCHANGED website
  BY <1>1 DEF SameReading
<1>2. ASSUME NEW p \in Workers, NEW w \in Websites, PipelineMove(p, w)
      PROVE  SameReading(v) \/ (SaveWebsite(p, v) /\ SavedReading(p, v))
  <2>1. CASE v # w
    BY <1>2, <2>1, MoveSite DEF SameReading
  <2>2. CASE v = w
    BY <1>2, <2>2, MoveSite, SaveReading DEF SameSite
  <2> QED BY <2>1, <2>2
<1>3. ASSUME NEW w \in Websites, Outside(w) PROVE SameReading(v)
  <2>1. ~CommitUrlEdit(w) /\ ~\E enabled \in BOOLEAN : SetMonitoring(w, enabled)
    BY DEF Unedited, NoEdit, SetMonitoring, CommitUrlEdit
  <2>2. \/ ExpireLease(w) \/ BecomeDue(w) \/ CreateWebsite(w) \/ DeleteWebsite(w)
        \/ \E f \in FailureThresholds, r \in RecoveryThresholds : EditThresholds(w, f, r)
        \/ UNCHANGED website
    BY <1>3, <2>1
    DEF Outside, ApiStep, BeginUrlEdit, RefuseUrlEdit, PurgeIncidents, PurgeChecks, PurgeFails
  <2>3. UNCHANGED website => SameReading(v)
    BY DEF SameReading
  <2> QED BY <2>2, <2>3, SchedulerReading
<1>4. ASSUME NEW p \in Workers, Crash(p) PROVE UNCHANGED website
  BY <1>4, CrashFrame
<1> QED BY <1>1, <1>2, <1>3, <1>4 DEF Next, PipelineMove, Outside, vars

LEMMA MoveGrows ==
  ASSUME Typed, NEW p \in Workers, NEW w \in Websites, PipelineMove(p, w),
         Grows(pc[p][w], ctx[p][w], w)
  PROVE  Grows(pc[p][w], ctx[p][w], w)'
<1>0. ctx[p][w].failures \in Nat /\ website[w].failures \in Nat
  BY RunsNatural
<1>1. CASE Claim(p, w)
  BY <1>0, <1>1, ClaimMove DEF Grows, SameSite, SameReading, Decided
<1>2. ASSUME NEW o \in CheckOutcomes, RecordCheck(p, w, o)
      PROVE  Grows(pc[p][w], ctx[p][w], w)'
  <2>1. /\ ctx[p][w].failures <= website[w].failures /\ website' = website
        /\ pc'[p][w] # "checking"
    BY <1>2, CheckMove DEF Grows
  <2>2. ctx'[p][w].failures = 0 \/ ctx'[p][w].failures = Capped(ctx[p][w].failures + 1)
    BY <1>2, CheckMove
  <2>3. ctx'[p][w].failures \in Nat /\ ctx'[p][w].failures <= ctx[p][w].failures + 1
    BY <1>0, <2>2, StreakBound DEF Capped
  <2> QED BY <1>0, <2>1, <2>3 DEF Grows
<1>3. CASE /\ pc[p][w] \in Decided /\ pc'[p][w] # "checking"
           /\ ctx'[p][w].failures = ctx[p][w].failures /\ website' = website
  BY <1>3 DEF Grows
<1>4. CASE pc'[p][w] \in {"idle", "notifying", "sending", "releasing"}
  BY <1>4 DEF Grows, Decided
<1>5. CASE OpenLosesRace(p, w)
  <2>1. pc[p][w] = "opening" /\ pc'[p][w] = "adopting" /\ UNCHANGED <<ctx, website>>
    BY <1>5, Lands DEF OpenLosesRace, At
  <2> QED BY <1>3, <2>1 DEF Decided
<1>6. CASE PipelineFault(p, w)
  <2>1. pc'[p][w] \in {"idle", "releasing"}
    BY <1>6, Lands DEF PipelineFault, ReleaseFails, AbandonPipeline
  <2> QED BY <1>4, <2>1
<1>7. CASE OpenIncident(p, w) \/ AdoptIncident(p, w) \/ ReadIncident(p, w)
           \/ CloseIncident(p, w) \/ CountFailure(p, w)
  <2>1. /\ pc[p][w] \in Decided /\ pc'[p][w] # "checking" /\ website' = website
        /\ SameStreaks(p, w) \/ ctx' = ctx
    BY <1>7, OpenMove, AdoptMove, ReadMove, CloseMove, CountMove DEF Decided
  <2> QED BY <1>3, <2>1 DEF SameStreaks
<1>8. CASE SaveWebsite(p, w) \/ ClaimDispatch(p, w) \/ SendNotice(p, w) \/ Release(p, w)
  <2>1. pc'[p][w] \in {"idle", "notifying", "sending", "releasing"}
    BY <1>8, SaveMove, DispatchMove, SendMove, ReleaseMove
  <2> QED BY <1>4, <2>1
<1> QED BY <1>1, <1>2, <1>5, <1>6, <1>7, <1>8 DEF PipelineMove, PipelineStep

LEMMA GrowStep ==
  ASSUME Unedited, Typed, LeaseInv, GrowInv, [Next]_vars PROVE GrowInv'
<1>0. NoEdit'
  BY NoEditStep DEF GrowInv
<1> SUFFICES ASSUME NEW q \in Workers, NEW v \in Websites PROVE Grows(pc[q][v], ctx[q][v], v)'
  BY <1>0 DEF GrowInv
<1>1. CASE pc'[q][v] = "idle"
  BY <1>1 DEF Grows, Decided
<1>2. CASE PipelineMove(q, v)
  BY <1>2, MoveGrows DEF GrowInv
<1>3. CASE ~PipelineMove(q, v) /\ pc'[q][v] = pc[q][v] /\ ctx'[q][v] = ctx[q][v]
  <2>1. CASE SameReading(v)
    BY <1>3, <2>1 DEF GrowInv, Grows, SameReading
  <2>2. ASSUME NEW p \in Workers, SaveWebsite(p, v) PROVE pc[q][v] = "idle"
    <3>1. q # p /\ pc[p][v] = "saving"
      BY <1>3, <2>2, SaveMove DEF PipelineMove, PipelineStep
    <3> QED BY <3>1 DEF LeaseInv, LeaseExclusion, At
  <2> QED BY <1>1, <1>3, <2>1, <2>2, UneditedReading DEF GrowInv
<1>4. CASE \E p \in Workers : Crash(p)
  BY <1>1, <1>2, <1>3, <1>4, CrashFrame
<1>5. CASE \E p \in Workers, w \in Websites : PipelineMove(p, w)
  BY <1>2, <1>3, <1>5, MoveFrame DEF OthersKept
<1>6. CASE UNCHANGED <<pc, ctx>>
  BY <1>2, <1>3, <1>6
<1> QED BY <1>4, <1>5, <1>6, PipelineWriters

(* Where leases outlast checks and no edit restarts a confirmation, a      *)
(* failure streak grows by one check at a time: no crash, edit of the      *)
(* thresholds or failed call makes one check count twice or brings old     *)
(* failures back.                                                          *)
THEOREM StreaksGrowByOne ==
  ASSUME "overlap" \notin Disturbances, Unedited
  PROVE  Spec => StreakGrowsByOne
<1>1. Init => LeaseInv
  BY DEF Init, LeaseInv, LeaseExclusion, At
<1>2. Typed /\ LeaseInv /\ [Next]_vars => LeaseInv'
  BY StepLease
<1>3. Init => GrowInv
  BY DEF Init, GrowInv, NoEdit, Grows, Decided
<1>4. Typed /\ LeaseInv /\ GrowInv /\ [Next]_vars => GrowInv'
  BY GrowStep
<1>5. Typed /\ GrowInv /\ [Next]_vars =>
        [\A w \in Websites : website'[w].failures <= website[w].failures + 1]_vars
  <2> SUFFICES ASSUME Typed, GrowInv, [Next]_vars, NEW w \in Websites
               PROVE  website'[w].failures <= website[w].failures + 1
    OBVIOUS
  <2>1. CASE SameReading(w)
    BY <2>1, RunsNatural DEF SameReading
  <2>2. ASSUME NEW p \in Workers, SavedReading(p, w)
        PROVE  website'[w].failures <= website[w].failures + 1
    BY <2>2 DEF SavedReading, GrowInv, Grows, Decided
  <2> QED BY <2>1, <2>2, UneditedReading DEF GrowInv
<1> QED BY <1>1, <1>2, <1>3, <1>4, <1>5, AlwaysTyped, PTL DEF Spec, StreakGrowsByOne
=============================================================================
