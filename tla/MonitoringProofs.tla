-------------------------- MODULE MonitoringProofs ---------------------------
(***************************************************************************)
(* Theorems about module Monitoring for every value of its constants, that *)
(* hold under every disturbance: types, one open incident and a history    *)
(* that is kept, announcements, status and counters, leases; and that it   *)
(* implements IncidentLog.                                                 *)
(***************************************************************************)
EXTENDS MonitoringProperties, TLAPS

-----------------------------------------------------------------------------
(* Lemmas about the operators.                                             *)

LEMMA StreakBound == MaxStreak \in Nat /\ MaxStreak >= 1
<1>1. PICK f \in FailureThresholds : f \in 1..MaxStreak
  BY MonitoringAssumption DEF MonitoringAssumption
<1> QED BY <1>1, MonitoringAssumption DEF MonitoringAssumption

LEMMA CappedType == ASSUME NEW n \in Nat PROVE Capped(n) \in Streak
BY StreakBound DEF Capped, Streak

LEMMA EmptyContextType == EmptyContext \in Context
BY MonitoringAssumption DEF MonitoringAssumption, EmptyContext, Context, Streak, IncidentRef, CheckOutcomes

LEMMA DisplayStatusType ==
  ASSUME NEW o \in CheckOutcomes, NEW h \in BOOLEAN
  PROVE  DeriveDisplayStatus(o, h) \in WebsiteStatuses
BY DEF CheckOutcomes, DeriveDisplayStatus, WebsiteStatuses

LEMMA CountersType ==
  ASSUME NEW c, c.failures \in Nat, c.successes \in Nat, NEW ok \in BOOLEAN
  PROVE  CappedCounters(DeriveCounters(c, ok)) \in
           [failures : Streak, successes : Streak]
<1>1. DeriveCounters(c, ok) \in [failures : Nat, successes : Nat]
  BY DEF DeriveCounters
<1> QED BY <1>1, CappedType DEF CappedCounters

LEMMA ExtendRunType ==
  ASSUME NEW c \in [ok : BOOLEAN, run : Streak], NEW ok \in BOOLEAN
  PROVE  ExtendRun(c, ok) \in [ok : BOOLEAN, run : Streak]
<1>1. c.run + 1 \in Nat
  BY DEF Streak
<1> QED BY <1>1, CappedType, StreakBound DEF ExtendRun, Streak

(* What a pipeline in a given state holds: an incident to act on wherever  *)
(* it acts on one.                                                         *)
Consistent(l, c) ==
  /\ l \in {"resolving", "closing", "counting"} => c.current \in Incidents
  /\ l \in {"notifying", "sending"} => c.notice # "none"
  /\ c.notice # "none" => c.subject \in Incidents

Typed ==
  /\ TypeOK
  /\ \A p \in Workers, w \in Websites : Consistent(pc[p][w], ctx[p][w])

(* What TypeOK' needs of the variables the actions change one by one.      *)
PipelinesTyped ==
  /\ pc \in [Workers -> [Websites -> PipelineStates]]
  /\ ctx \in [Workers -> [Websites -> Context]]
  /\ \A p \in Workers, w \in Websites : Consistent(pc[p][w], ctx[p][w])

(* A pipeline that moves on with consistent contents, new or old.          *)
LEMMA PipelineMoves ==
  ASSUME Typed, NEW p \in Workers, NEW w \in Websites,
         NEW l \in PipelineStates, NEW c \in Context, Consistent(l, c),
         Goto(p, w, l), Hold(p, w, c)
  PROVE  PipelinesTyped'
BY DEF Typed, TypeOK, PipelinesTyped, Goto, Hold, Consistent

LEMMA PipelineJumps ==
  ASSUME Typed, NEW p \in Workers, NEW w \in Websites,
         NEW l \in PipelineStates, Consistent(l, ctx[p][w]),
         Goto(p, w, l), UNCHANGED ctx
  PROVE  PipelinesTyped'
BY DEF Typed, TypeOK, PipelinesTyped, Goto, Consistent

LEMMA PipelinesStay ==
  ASSUME Typed, UNCHANGED <<pc, ctx>>
  PROVE  PipelinesTyped'
BY DEF Typed, TypeOK, PipelinesTyped, Consistent

LEMMA StoreTyped ==
  ASSUME Typed, NEW w \in Websites, NEW d \in WebsiteDoc, Store(w, d)
  PROVE  website' \in [Websites -> WebsiteDoc]
BY DEF Typed, TypeOK, Store

LEMMA RecordTyped ==
  ASSUME Typed, NEW i \in Incidents, NEW d \in IncidentDoc, Record(i, d)
  PROVE  incident' \in [Incidents -> IncidentDoc]
BY DEF Typed, TypeOK, Record

(* The parts of a typed state an action reads.                             *)
LEMMA Parts ==
  ASSUME Typed
  PROVE  /\ \A w \in Websites : website[w] \in WebsiteDoc
         /\ \A i \in Incidents : incident[i] \in IncidentDoc
         /\ \A p \in Workers, w \in Websites :
              /\ pc[p][w] \in PipelineStates
              /\ ctx[p][w] \in Context
              /\ Consistent(pc[p][w], ctx[p][w])
BY DEF Typed, TypeOK

LEMMA TypedFromParts ==
  ASSUME PipelinesTyped',
         website' \in [Websites -> WebsiteDoc],
         checks' \in [Websites -> [ok : BOOLEAN, run : Streak]],
         incident' \in [Incidents -> IncidentDoc],
         mail' \in [Incidents -> [Announcements -> Nat]],
         edit' \in [Websites -> {"none", "sawEnabled", "sawPaused"}],
         purge' \in [Websites -> {"none", "incidents", "checks", "done"}]
  PROVE  Typed'
BY DEF Typed, TypeOK, PipelinesTyped

LEMMA InitTyped == Init => Typed
<1> SUFFICES ASSUME Init PROVE Typed
  OBVIOUS
<1> USE DEF Init
<1>1. website \in [Websites -> WebsiteDoc]
  <2>1. /\ EmptyContext.failureThreshold \in FailureThresholds
        /\ EmptyContext.recoveryThreshold \in RecoveryThresholds
    BY EmptyContextType DEF Context
  <2>2. 0 \in Streak
    BY StreakBound DEF Streak
  <2> QED BY <2>1, <2>2 DEF WebsiteDoc, WebsiteStatuses, IncidentRef
<1>2. checks \in [Websites -> [ok : BOOLEAN, run : Streak]]
  BY StreakBound DEF Streak
<1>3. incident \in [Incidents -> IncidentDoc]
  BY StreakBound DEF IncidentDoc, Streak
<1>4. TypeOK
  BY <1>1, <1>2, <1>3, EmptyContextType DEF TypeOK, PipelineStates
<1>5. \A p \in Workers, w \in Websites : Consistent(pc[p][w], ctx[p][w])
  BY DEF Consistent, EmptyContext
<1> QED BY <1>4, <1>5 DEF Typed

-----------------------------------------------------------------------------
(* The steps of the scheduler.                                             *)

LEMMA ClaimTyped ==
  ASSUME Typed, NEW p \in Workers, NEW w \in Websites, Claim(p, w)
  PROVE  Typed'
<1>1. [website[w] EXCEPT !.lease = "held"] \in WebsiteDoc
  BY Parts DEF WebsiteDoc
<1>2. website' \in [Websites -> WebsiteDoc]
  BY <1>1, StoreTyped DEF Claim
<1>3. Snapshot(w) \in Context /\ Snapshot(w).notice = "none"
  BY Parts, EmptyContextType DEF Snapshot, WebsiteDoc, Context, EmptyContext
<1>4. PipelinesTyped'
  BY <1>3, PipelineMoves DEF Claim, Consistent, PipelineStates
<1> QED BY <1>2, <1>4, TypedFromParts DEF Claim, Typed, TypeOK

LEMMA ReleaseTyped ==
  ASSUME Typed, NEW p \in Workers, NEW w \in Websites,
         Release(p, w) \/ ReleaseFails(p, w)
  PROVE  Typed'
<1>1. [website[w] EXCEPT !.lease = "free", !.due = FALSE] \in WebsiteDoc
  BY Parts DEF WebsiteDoc
<1>2. website' \in [Websites -> WebsiteDoc]
  BY <1>1, StoreTyped DEF Release, ReleaseFails, Typed, TypeOK
<1>3. Consistent("idle", EmptyContext)
  BY DEF Consistent, EmptyContext
<1>4. PipelinesTyped'
  BY <1>3, PipelineMoves, EmptyContextType DEF Release, ReleaseFails, PipelineStates
<1> QED BY <1>2, <1>4, TypedFromParts DEF Release, ReleaseFails, Typed, TypeOK

LEMMA TimeTyped ==
  ASSUME Typed, NEW w \in Websites, ExpireLease(w) \/ BecomeDue(w)
  PROVE  Typed'
<1>1. /\ [website[w] EXCEPT !.lease = "expired"] \in WebsiteDoc
      /\ [website[w] EXCEPT !.due = TRUE] \in WebsiteDoc
  BY Parts DEF WebsiteDoc
<1>2. website' \in [Websites -> WebsiteDoc]
  BY <1>1, StoreTyped DEF ExpireLease, BecomeDue
<1> QED BY <1>2, PipelinesStay, TypedFromParts
        DEF ExpireLease, BecomeDue, Typed, TypeOK

-----------------------------------------------------------------------------
(* The steps of a pipeline.                                                *)

LEMMA DecisionType ==
  ASSUME NEW c, NEW f, NEW r, NEW h \in BOOLEAN, NEW ok \in BOOLEAN
  PROVE  LET l == AfterDecision(DecideIncidentTransition(c, f, r, h), ok)
         IN  /\ l \in {"saving", "opening", "resolving", "counting"}
             /\ l \in {"resolving", "counting"} => h
BY DEF AfterDecision, DecideIncidentTransition

LEMMA RecordCheckTyped ==
  ASSUME Typed, NEW p \in Workers, NEW w \in Websites, NEW o \in CheckOutcomes,
         RecordCheck(p, w, o)
  PROVE  Typed'
<1> DEFINE ok == IsSuccessfulCheck(o)
           c == ctx[p][w]
           counters == CappedCounters(DeriveCounters(c, ok))
           l == AfterDecision(DecideIncidentTransition(counters,
                  c.failureThreshold, c.recoveryThreshold,
                  c.current # NoIncident), ok)
           d == [c EXCEPT !.failures = counters.failures,
                          !.successes = counters.successes, !.outcome = o]
<1>1. ok \in BOOLEAN
  BY DEF IsSuccessfulCheck
<1>2. c \in Context /\ Consistent(pc[p][w], c)
  BY Parts
<1>3. c.failures \in Nat /\ c.successes \in Nat
  BY <1>2 DEF Context, Streak
<1>4. counters \in [failures : Streak, successes : Streak]
  BY <1>1, <1>3, CountersType
<1>5. d \in Context /\ d.current = c.current
                    /\ d.notice = c.notice /\ d.subject = c.subject
  <2> HIDE DEF counters
  <2> QED BY <1>2, <1>4 DEF Context
<1>6. /\ l \in {"saving", "opening", "resolving", "counting"}
      /\ l \in {"resolving", "counting"} => c.current # NoIncident
  BY <1>1, DecisionType
<1>7. Consistent(l, d)
  <2>1. c.current \in IncidentRef
    BY <1>2 DEF Context
  <2> HIDE DEF l, d
  <2> QED BY <2>1, <1>2, <1>5, <1>6 DEF Consistent, IncidentRef
<1>8. PipelinesTyped'
  <2>1. Goto(p, w, l) /\ Hold(p, w, d)
    BY DEF RecordCheck
  <2> HIDE DEF l, d
  <2> QED BY <2>1, <1>5, <1>6, <1>7, PipelineMoves DEF PipelineStates
<1>9. checks' \in [Websites -> [ok : BOOLEAN, run : Streak]]
  <2>1. checks' = [checks EXCEPT ![w] = ExtendRun(checks[w], ok)]
    BY DEF RecordCheck
  <2>2. ExtendRun(checks[w], ok) \in [ok : BOOLEAN, run : Streak]
    BY <1>1, ExtendRunType DEF Typed, TypeOK
  <2> QED BY <2>1, <2>2 DEF Typed, TypeOK
<1> QED BY <1>8, <1>9, TypedFromParts DEF RecordCheck, Typed, TypeOK

LEMMA OpenTyped ==
  ASSUME Typed, NEW p \in Workers, NEW w \in Websites, OpenIncident(p, w)
  PROVE  Typed'
<1>1. PICK i \in Unused :
        /\ Record(i, [incident[i] EXCEPT !.status = "open", !.site = w,
                                         !.failedChecks = ctx[p][w].failures])
        /\ Hold(p, w, [ctx[p][w] EXCEPT !.current = i, !.notice = "down",
                                        !.subject = i])
  BY DEF OpenIncident
<1>2. i \in Incidents
  BY DEF Unused
<1>3. ctx[p][w] \in Context
  BY Parts
<1>4. [incident[i] EXCEPT !.status = "open", !.site = w,
                          !.failedChecks = ctx[p][w].failures] \in IncidentDoc
  <2>1. ctx[p][w].failures \in Streak
    BY <1>3 DEF Context
  <2> QED BY <2>1, <1>2, Parts DEF IncidentDoc
<1>5. incident' \in [Incidents -> IncidentDoc]
  BY <1>1, <1>2, <1>4, RecordTyped
<1>6. LET d == [ctx[p][w] EXCEPT !.current = i, !.notice = "down", !.subject = i]
      IN  d \in Context /\ Consistent("saving", d)
  BY <1>2, <1>3 DEF Context, Consistent, IncidentRef, Announcements
<1>7. PipelinesTyped'
  BY <1>1, <1>6, PipelineMoves DEF OpenIncident, PipelineStates
<1> QED BY <1>5, <1>7, TypedFromParts DEF OpenIncident, Typed, TypeOK

LEMMA AdoptTyped ==
  ASSUME Typed, NEW p \in Workers, NEW w \in Websites,
         OpenLosesRace(p, w) \/ AdoptIncident(p, w)
  PROVE  Typed'
<1>1. ctx[p][w] \in Context /\ Consistent(pc[p][w], ctx[p][w])
  BY Parts
<1>2. CASE OpenLosesRace(p, w)
  <2>1. Consistent("adopting", ctx[p][w])
    BY <1>1 DEF Consistent
  <2>2. PipelinesTyped'
    BY <1>2, <2>1, PipelineJumps DEF OpenLosesRace, PipelineStates
  <2> QED BY <1>2, <2>2, TypedFromParts DEF OpenLosesRace, Typed, TypeOK
<1>3. CASE AdoptIncident(p, w)
  <2>1. PICK i \in IncidentRef : Hold(p, w, [ctx[p][w] EXCEPT !.current = i])
    BY <1>3 DEF AdoptIncident
  <2>2. LET d == [ctx[p][w] EXCEPT !.current = i]
        IN  d \in Context /\ Consistent("saving", d)
    BY <1>1 DEF Context, Consistent
  <2>3. PipelinesTyped'
    BY <1>3, <2>1, <2>2, PipelineMoves DEF AdoptIncident, PipelineStates
  <2> QED BY <1>3, <2>3, TypedFromParts DEF AdoptIncident, Typed, TypeOK
<1> QED BY <1>2, <1>3

LEMMA ReadTyped ==
  ASSUME Typed, NEW p \in Workers, NEW w \in Websites, ReadIncident(p, w)
  PROVE  Typed'
<1>1. ctx[p][w] \in Context /\ Consistent(pc[p][w], ctx[p][w])
  BY Parts
<1>2. /\ Consistent("closing", ctx[p][w])
      /\ LET d == [ctx[p][w] EXCEPT !.current = NoIncident]
         IN  d \in Context /\ Consistent("saving", d)
  BY <1>1 DEF Context, Consistent, IncidentRef, ReadIncident, At
<1>3. PipelinesTyped'
  BY <1>2, PipelineMoves, PipelineJumps DEF ReadIncident, PipelineStates
<1> QED BY <1>3, TypedFromParts DEF ReadIncident, Typed, TypeOK

LEMMA CloseTyped ==
  ASSUME Typed, NEW p \in Workers, NEW w \in Websites, CloseIncident(p, w)
  PROVE  Typed'
<1> DEFINE i == ctx[p][w].current
           won == CloseMatches(i)
           d == [ctx[p][w] EXCEPT !.current = NoIncident,
                   !.subject = IF won THEN i ELSE NoIncident,
                   !.notice = IF won THEN "recovered" ELSE "none"]
<1>1. ctx[p][w] \in Context /\ i \in Incidents
  BY Parts DEF Consistent, CloseIncident, At
<1>2. [incident[i] EXCEPT !.status = "resolved"] \in IncidentDoc
  BY <1>1, Parts DEF IncidentDoc
<1>3. incident' \in [Incidents -> IncidentDoc]
  <2> HIDE DEF i
  <2> QED BY <1>1, <1>2, RecordTyped DEF CloseIncident, i, Typed, TypeOK
<1>4. d \in Context /\ Consistent("saving", d)
  BY <1>1 DEF Context, Consistent, IncidentRef, Announcements
<1>5. PipelinesTyped'
  BY <1>4, PipelineMoves DEF CloseIncident, PipelineStates
<1> QED BY <1>3, <1>5, TypedFromParts DEF CloseIncident, Typed, TypeOK

LEMMA CountTyped ==
  ASSUME Typed, NEW p \in Workers, NEW w \in Websites, CountFailure(p, w)
  PROVE  Typed'
<1> DEFINE i == ctx[p][w].current
<1>1. i \in Incidents /\ Consistent(pc[p][w], ctx[p][w])
  BY Parts DEF Consistent, CountFailure, At
<1>2. [incident[i] EXCEPT !.failedChecks = Capped(incident[i].failedChecks + 1)]
        \in IncidentDoc
  <2>1. incident[i] \in IncidentDoc
    BY <1>1, Parts
  <2>2. incident[i].failedChecks + 1 \in Nat
    BY <2>1 DEF IncidentDoc, Streak
  <2>3. Capped(incident[i].failedChecks + 1) \in Streak
    BY <2>2, CappedType
  <2> HIDE DEF i
  <2> QED BY <2>1, <2>3 DEF IncidentDoc
<1>3. incident' \in [Incidents -> IncidentDoc]
  BY <1>1, <1>2, RecordTyped DEF CountFailure, Typed, TypeOK
<1>4. Consistent("saving", ctx[p][w])
  BY <1>1 DEF Consistent
<1>5. PipelinesTyped'
  BY <1>4, PipelineJumps DEF CountFailure, PipelineStates
<1> QED BY <1>3, <1>5, TypedFromParts DEF CountFailure, Typed, TypeOK

LEMMA SaveTyped ==
  ASSUME Typed, NEW p \in Workers, NEW w \in Websites, SaveWebsite(p, w)
  PROVE  Typed'
<1> DEFINE c == ctx[p][w]
           l == IF c.notice = "none" THEN "releasing" ELSE "notifying"
<1>1. c \in Context /\ Consistent(pc[p][w], c) /\ website[w] \in WebsiteDoc
  BY Parts
<1>2. Saved(website[w], c) \in WebsiteDoc
  <2>1. c.outcome \in CheckOutcomes /\ c.failures \in Streak
          /\ c.successes \in Streak /\ c.current \in IncidentRef
    BY <1>1 DEF Context
  <2>2. DeriveDisplayStatus(c.outcome, c.current # NoIncident) \in WebsiteStatuses
    BY <2>1, DisplayStatusType
  <2> QED BY <1>1, <2>1, <2>2 DEF Saved, WebsiteDoc
<1>3. website' \in [Websites -> WebsiteDoc]
  BY <1>2, StoreTyped DEF SaveWebsite, Typed, TypeOK
<1>4. NoticeOnly(c) \in Context /\ Consistent(l, NoticeOnly(c))
  <2>1. c.notice \in Announcements \cup {"none"} /\ c.subject \in IncidentRef
    BY <1>1 DEF Context
  <2>2. NoticeOnly(c) \in Context
    BY <2>1, EmptyContextType DEF NoticeOnly, Context
  <2>3. NoticeOnly(c).notice = c.notice /\ NoticeOnly(c).subject = c.subject
    BY DEF NoticeOnly, EmptyContext
  <2> QED BY <1>1, <2>2, <2>3 DEF Consistent
<1>5. PipelinesTyped'
  <2>1. Goto(p, w, l) /\ Hold(p, w, NoticeOnly(c)) /\ l \in PipelineStates
    BY DEF SaveWebsite, PipelineStates
  <2> HIDE DEF l, c
  <2> QED BY <2>1, <1>4, PipelineMoves
<1> QED BY <1>3, <1>5, TypedFromParts DEF SaveWebsite, Typed, TypeOK

LEMMA ClaimDispatchTyped ==
  ASSUME Typed, NEW p \in Workers, NEW w \in Websites, ClaimDispatch(p, w)
  PROVE  Typed'
<1> DEFINE i == ctx[p][w].subject
<1>1. i \in Incidents /\ Consistent(pc[p][w], ctx[p][w])
  BY Parts DEF Consistent, ClaimDispatch, At
<1>2. WithFlag(incident[i], ctx[p][w].notice) \in IncidentDoc
  BY <1>1, Parts DEF WithFlag, IncidentDoc
<1>3. incident' \in [Incidents -> IncidentDoc]
  BY <1>1, <1>2, RecordTyped DEF ClaimDispatch, Typed, TypeOK
<1>4. Consistent("sending", ctx[p][w]) /\ Consistent("releasing", ctx[p][w])
  BY <1>1 DEF Consistent, ClaimDispatch, At
<1>5. PipelinesTyped'
  BY <1>4, PipelineJumps DEF ClaimDispatch, PipelineStates
<1> QED BY <1>3, <1>5, TypedFromParts DEF ClaimDispatch, Typed, TypeOK

LEMMA SendTyped ==
  ASSUME Typed, NEW p \in Workers, NEW w \in Websites, SendNotice(p, w)
  PROVE  Typed'
<1> DEFINE i == ctx[p][w].subject
           a == ctx[p][w].notice
<1>1. i \in Incidents /\ a \in Announcements /\ Consistent(pc[p][w], ctx[p][w])
  BY Parts DEF Consistent, SendNotice, At, Context
<1>2. mail' \in [Incidents -> [Announcements -> Nat]]
  <2> HIDE DEF i, a
  <2>1. mail' = mail \/ mail' = [mail EXCEPT ![i][a] = @ + 1]
    BY DEF SendNotice, i, a
  <2>2. mail \in [Incidents -> [Announcements -> Nat]]
    BY DEF Typed, TypeOK
  <2>3. mail[i][a] + 1 \in Nat
    BY <1>1, <2>2
  <2>4. [mail[i] EXCEPT ![a] = @ + 1] \in [Announcements -> Nat]
    BY <1>1, <2>2, <2>3
  <2> QED BY <1>1, <2>1, <2>2, <2>4
<1>3. Consistent("releasing", ctx[p][w])
  BY <1>1 DEF Consistent
<1>4. PipelinesTyped'
  BY <1>3, PipelineJumps DEF SendNotice, PipelineStates
<1> QED BY <1>2, <1>4, TypedFromParts DEF SendNotice, Typed, TypeOK

LEMMA FaultTyped ==
  ASSUME Typed,
         \/ \E p \in Workers, w \in Websites : AbandonPipeline(p, w)
         \/ \E p \in Workers : Crash(p)
  PROVE  Typed'
<1>1. ASSUME NEW p \in Workers, NEW w \in Websites, AbandonPipeline(p, w)
      PROVE  PipelinesTyped'
  <2>1. Consistent("releasing", ctx[p][w])
    BY Parts DEF Consistent
  <2> QED BY <1>1, <2>1, PipelineJumps DEF AbandonPipeline, PipelineStates
<1>2. ASSUME NEW p \in Workers, Crash(p)
      PROVE  PipelinesTyped'
  <2>1. Consistent("idle", EmptyContext) /\ "idle" \in PipelineStates
    BY DEF Consistent, EmptyContext, PipelineStates
  <2> QED BY <1>2, <2>1, EmptyContextType
          DEF Crash, PipelinesTyped, Typed, TypeOK
<1> QED BY <1>1, <1>2, TypedFromParts DEF AbandonPipeline, Crash, Typed, TypeOK

-----------------------------------------------------------------------------
(* The steps of the API.                                                   *)

LEMMA RestartedTyped ==
  ASSUME NEW d \in WebsiteDoc, NEW s \in {"unknown", "paused"}
  PROVE  Restarted(d, s) \in WebsiteDoc
<1>1. 0 \in Streak
  BY StreakBound DEF Streak
<1>2. s \in WebsiteStatuses
  BY DEF WebsiteStatuses
<1> QED BY <1>1, <1>2 DEF Restarted, WebsiteDoc

LEMMA EditTyped ==
  ASSUME Typed, NEW w \in Websites,
         \/ CreateWebsite(w)
         \/ \E enabled \in BOOLEAN : SetMonitoring(w, enabled)
         \/ BeginUrlEdit(w) \/ CommitUrlEdit(w) \/ RefuseUrlEdit(w)
         \/ \E f \in FailureThresholds, r \in RecoveryThresholds :
              EditThresholds(w, f, r)
  PROVE  Typed'
<1>1. website[w] \in WebsiteDoc
  BY Parts
<1>2. website \in [Websites -> WebsiteDoc]
  BY DEF Typed, TypeOK
<1>3. website' \in [Websites -> WebsiteDoc]
  <2>1. CASE CreateWebsite(w)
    <3>1. PICK f \in FailureThresholds, r \in RecoveryThresholds :
            Store(w, [website[w] EXCEPT
                        !.life = "live", !.enabled = TRUE, !.due = TRUE,
                        !.failureThreshold = f, !.recoveryThreshold = r])
      BY <2>1 DEF CreateWebsite
    <3>2. [website[w] EXCEPT
             !.life = "live", !.enabled = TRUE, !.due = TRUE,
             !.failureThreshold = f, !.recoveryThreshold = r] \in WebsiteDoc
      BY <1>1 DEF WebsiteDoc
    <3> QED BY <3>1, <3>2, StoreTyped
  <2>2. ASSUME NEW enabled \in BOOLEAN, SetMonitoring(w, enabled)
        PROVE  website' \in [Websites -> WebsiteDoc]
    <3> DEFINE d == Restarted(website[w], IF enabled THEN "unknown" ELSE "paused")
    <3>1. d \in WebsiteDoc
      BY <1>1, RestartedTyped
    <3>2. Store(w, [d EXCEPT !.enabled = enabled])
      BY <2>2 DEF SetMonitoring
    <3> HIDE DEF d
    <3>3. [d EXCEPT !.enabled = enabled] \in WebsiteDoc
      BY <3>1 DEF WebsiteDoc
    <3> QED BY <3>2, <3>3, StoreTyped
  <2>3. CASE CommitUrlEdit(w)
    BY <2>3, <1>1, <1>2, RestartedTyped, StoreTyped DEF CommitUrlEdit
  <2>4. CASE BeginUrlEdit(w) \/ RefuseUrlEdit(w)
    BY <2>4, <1>2 DEF BeginUrlEdit, RefuseUrlEdit
  <2>5. ASSUME NEW f \in FailureThresholds, NEW r \in RecoveryThresholds,
               EditThresholds(w, f, r)
        PROVE  website' \in [Websites -> WebsiteDoc]
    <3>1. [website[w] EXCEPT !.failureThreshold = f, !.recoveryThreshold = r]
            \in WebsiteDoc
      BY <1>1 DEF WebsiteDoc
    <3> QED BY <2>5, <3>1, StoreTyped DEF EditThresholds
  <2> QED BY <2>1, <2>2, <2>3, <2>4, <2>5
<1>4. PipelinesTyped'
  BY PipelinesStay
  DEF CreateWebsite, SetMonitoring, BeginUrlEdit, CommitUrlEdit, RefuseUrlEdit,
      EditThresholds
<1>5. edit' \in [Websites -> {"none", "sawEnabled", "sawPaused"}]
  BY DEF CreateWebsite, SetMonitoring, BeginUrlEdit, CommitUrlEdit, RefuseUrlEdit,
         EditThresholds, Typed, TypeOK
<1> QED
  BY <1>3, <1>4, <1>5, TypedFromParts
  DEF CreateWebsite, SetMonitoring, BeginUrlEdit, CommitUrlEdit, RefuseUrlEdit,
      EditThresholds, Typed, TypeOK

LEMMA DeleteTyped ==
  ASSUME Typed, NEW w \in Websites,
         DeleteWebsite(w) \/ PurgeIncidents(w) \/ PurgeChecks(w) \/ PurgeFails(w)
  PROVE  Typed'
<1>1. [website[w] EXCEPT !.life = "deleted"] \in WebsiteDoc
  BY Parts DEF WebsiteDoc
<1>2. website' \in [Websites -> WebsiteDoc]
  BY <1>1, StoreTyped
  DEF DeleteWebsite, PurgeIncidents, PurgeChecks, PurgeFails, Typed, TypeOK
<1>3. \A i \in Incidents : [incident[i] EXCEPT !.status = "deleted"] \in IncidentDoc
  BY Parts DEF IncidentDoc
<1>4. incident' \in [Incidents -> IncidentDoc]
  BY <1>3
  DEF DeleteWebsite, PurgeIncidents, PurgeChecks, PurgeFails, Typed, TypeOK
<1>5. PipelinesTyped'
  BY PipelinesStay DEF DeleteWebsite, PurgeIncidents, PurgeChecks, PurgeFails
<1>6. checks' \in [Websites -> [ok : BOOLEAN, run : Streak]]
  <2> DEFINE none == [ok |-> TRUE, run |-> 0]
             CheckRuns == [ok : BOOLEAN, run : Streak]
  <2>1. none \in CheckRuns
    BY StreakBound DEF Streak
  <2>2. checks \in [Websites -> CheckRuns]
    BY DEF Typed, TypeOK
  <2>3. checks' = checks \/ checks' = [checks EXCEPT ![w] = none]
    BY DEF DeleteWebsite, PurgeIncidents, PurgeChecks, PurgeFails
  <2> HIDE DEF none, CheckRuns
  <2>4. checks' \in [Websites -> CheckRuns]
    BY <2>1, <2>2, <2>3
  <2> QED BY <2>4 DEF CheckRuns
<1>7. purge' \in [Websites -> {"none", "incidents", "checks", "done"}]
  <2>1. \E s \in {"incidents", "checks", "done"} : purge' = [purge EXCEPT ![w] = s]
    BY DEF DeleteWebsite, PurgeIncidents, PurgeChecks, PurgeFails
  <2> QED BY <2>1 DEF Typed, TypeOK
<1> QED
  BY <1>2, <1>4, <1>5, <1>6, <1>7, TypedFromParts
  DEF DeleteWebsite, PurgeIncidents, PurgeChecks, PurgeFails, Typed, TypeOK

-----------------------------------------------------------------------------
LEMMA StutterTyped == ASSUME Typed, UNCHANGED vars PROVE Typed'
BY DEF Typed, TypeOK, Consistent, vars

LEMMA StepTyped == Typed /\ [Next]_vars => Typed'
<1> SUFFICES ASSUME Typed, [Next]_vars PROVE Typed'
  OBVIOUS
<1>1. ASSUME NEW p \in Workers, NEW w \in Websites, PipelineStep(p, w)
      PROVE  Typed'
  BY <1>1, RecordCheckTyped, OpenTyped, AdoptTyped, ReadTyped, CloseTyped,
     CountTyped, SaveTyped, ClaimDispatchTyped, SendTyped, ReleaseTyped
  DEF PipelineStep
<1>2. ASSUME NEW p \in Workers, NEW w \in Websites,
             Claim(p, w) \/ PipelineFault(p, w)
      PROVE  Typed'
  BY <1>2, ClaimTyped, ReleaseTyped, FaultTyped DEF PipelineFault
<1>3. ASSUME NEW p \in Workers, Crash(p) PROVE Typed'
  BY <1>3, FaultTyped
<1>4. ASSUME NEW w \in Websites, ExpireLease(w) \/ BecomeDue(w) \/ ApiStep(w)
      PROVE  Typed'
  BY <1>4, TimeTyped, EditTyped, DeleteTyped DEF ApiStep
<1>5. CASE UNCHANGED vars
  BY <1>5, StutterTyped
<1> QED BY <1>1, <1>2, <1>3, <1>4, <1>5 DEF Next

(* Every reachable state is well typed, and a pipeline holds an incident   *)
(* wherever the code dereferences one.                                     *)
LEMMA AlwaysTyped == Spec => []Typed
BY InitTyped, StepTyped, PTL DEF Spec

(* Type correctness of the pipeline, whatever the constants.               *)
THEOREM TypeCorrect == Spec => []TypeOK
<1>1. Typed => TypeOK
  BY DEF Typed
<1> QED BY <1>1, AlwaysTyped, PTL

-----------------------------------------------------------------------------
(***************************************************************************)
(* The safety properties of module Monitoring, for every value of its      *)
(* constants and every set of disturbances.                                *)
(***************************************************************************)

-----------------------------------------------------------------------------
(* Who writes what.                                                        *)

LEMMA IncidentWriters ==
  ASSUME [Next]_vars
  PROVE  \/ UNCHANGED incident
         \/ \E p \in Workers, w \in Websites :
              \/ OpenIncident(p, w) \/ CloseIncident(p, w)
              \/ CountFailure(p, w) \/ ClaimDispatch(p, w)
         \/ \E w \in Websites : PurgeIncidents(w)
<1>1. ASSUME NEW p \in Workers, NEW w \in Websites,
             Claim(p, w) \/ PipelineStep(p, w) \/ PipelineFault(p, w)
      PROVE  \/ UNCHANGED incident
             \/ OpenIncident(p, w) \/ CloseIncident(p, w)
             \/ CountFailure(p, w) \/ ClaimDispatch(p, w)
  BY <1>1 DEF PipelineStep, PipelineFault, Claim, RecordCheck, OpenLosesRace,
     AdoptIncident, ReadIncident, SaveWebsite, SendNotice, Release, ReleaseFails,
     AbandonPipeline
<1>2. ASSUME NEW p \in Workers, Crash(p) PROVE UNCHANGED incident
  BY <1>2 DEF Crash
<1>3. ASSUME NEW w \in Websites, ExpireLease(w) \/ BecomeDue(w) \/ ApiStep(w)
      PROVE  UNCHANGED incident \/ PurgeIncidents(w)
  BY <1>3 DEF ApiStep, ExpireLease, BecomeDue, CreateWebsite, SetMonitoring,
     BeginUrlEdit, CommitUrlEdit, RefuseUrlEdit, EditThresholds, DeleteWebsite,
     PurgeChecks, PurgeFails
<1> QED BY <1>1, <1>2, <1>3 DEF Next, vars

(* What each writer does to an incident's status and site.                 *)
LEMMA OpenEffect ==
  ASSUME Typed, NEW p \in Workers, NEW w \in Websites, OpenIncident(p, w)
  PROVE  \E i \in Incidents :
           /\ incident[i].status = "unused" /\ OpenOn(w) = {}
           /\ Record(i, [incident[i] EXCEPT !.status = "open", !.site = w,
                                            !.failedChecks = ctx[p][w].failures])
           /\ Hold(p, w, [ctx[p][w] EXCEPT !.current = i, !.notice = "down",
                                           !.subject = i])
BY DEF OpenIncident, IndexAdmits, Unused

LEMMA CloseEffect ==
  ASSUME Typed, NEW p \in Workers, NEW w \in Websites, CloseIncident(p, w)
  PROVE  /\ ctx[p][w].current \in Incidents
         /\ \/ UNCHANGED incident
            \/ /\ incident[ctx[p][w].current].status = "open"
               /\ Record(ctx[p][w].current,
                         [incident[ctx[p][w].current] EXCEPT !.status = "resolved"])
BY Parts DEF CloseIncident, CloseMatches, Consistent, At

LEMMA CountEffect ==
  ASSUME Typed, NEW p \in Workers, NEW w \in Websites, CountFailure(p, w)
  PROVE  LET i == ctx[p][w].current
         IN  /\ i \in Incidents
             /\ \/ UNCHANGED incident
                \/ /\ incident[i].status = "open"
                   /\ Record(i, [incident[i] EXCEPT
                        !.failedChecks = Capped(incident[i].failedChecks + 1)])
BY Parts DEF CountFailure, CountMatches, Consistent, At

LEMMA DispatchEffect ==
  ASSUME Typed, NEW p \in Workers, NEW w \in Websites, ClaimDispatch(p, w)
  PROVE  LET i == ctx[p][w].subject
             a == ctx[p][w].notice
         IN  /\ i \in Incidents /\ a \in Announcements
             /\ \/ UNCHANGED incident /\ Goto(p, w, "releasing")
                \/ /\ incident[i].status # "deleted" /\ ~Notified(i, a)
                   /\ Record(i, WithFlag(incident[i], a))
                   /\ Goto(p, w, "sending")
<1>1. ctx[p][w].notice \in Announcements
  BY Parts DEF ClaimDispatch, Consistent, At, Context
<1> QED BY <1>1, Parts DEF ClaimDispatch, Consistent, At

-----------------------------------------------------------------------------
(* Incidents only move forward.                                            *)

Forward ==
  \A i \in Incidents :
    /\ incident'[i].status = "unused" => incident[i].status = "unused"
    /\ incident[i].status = "resolved" =>
         /\ incident'[i].status \in {"resolved", "deleted"}
         /\ incident'[i].failedChecks = incident[i].failedChecks
    /\ incident[i].status = "deleted" => incident'[i].status = "deleted"
    /\ incident[i].status # "unused" => incident'[i].site = incident[i].site
    /\ incident[i].downNotified => incident'[i].downNotified
    /\ incident[i].recoveryNotified => incident'[i].recoveryNotified

LEMMA RecordForward ==
  ASSUME Typed, NEW i \in Incidents, NEW d \in IncidentDoc, Record(i, d),
         d.status = "unused" => incident[i].status = "unused",
         incident[i].status = "resolved" =>
           d.status = "resolved" /\ d.failedChecks = incident[i].failedChecks,
         incident[i].status = "deleted" => d.status = "deleted",
         incident[i].status # "unused" => d.site = incident[i].site,
         incident[i].downNotified => d.downNotified,
         incident[i].recoveryNotified => d.recoveryNotified
  PROVE  Forward
BY DEF Typed, TypeOK, Record, Forward

LEMMA StepForward == ASSUME Typed, [Next]_vars PROVE Forward
<1>1. CASE UNCHANGED incident
  BY <1>1 DEF Forward
<1>2. ASSUME NEW p \in Workers, NEW w \in Websites, OpenIncident(p, w)
      PROVE  Forward
  <2>1. PICK i \in Incidents :
          /\ incident[i].status = "unused"
          /\ Record(i, [incident[i] EXCEPT !.status = "open", !.site = w,
                                           !.failedChecks = ctx[p][w].failures])
    BY <1>2, OpenEffect
  <2> DEFINE d == [incident[i] EXCEPT !.status = "open", !.site = w,
                                      !.failedChecks = ctx[p][w].failures]
  <2>2. incident[i] \in IncidentDoc /\ ctx[p][w].failures \in Streak
    BY Parts DEF Context
  <2>3. /\ d \in IncidentDoc /\ d.status = "open"
        /\ d.downNotified = incident[i].downNotified
        /\ d.recoveryNotified = incident[i].recoveryNotified
    BY <2>2 DEF IncidentDoc
  <2>4. Record(i, d)
    BY <2>1
  <2> HIDE DEF d
  <2> QED BY <2>1, <2>3, <2>4, RecordForward
<1>3. ASSUME NEW p \in Workers, NEW w \in Websites, CloseIncident(p, w)
      PROVE  Forward
  <2> DEFINE i == ctx[p][w].current
             d == [incident[i] EXCEPT !.status = "resolved"]
  <2>1. i \in Incidents /\ (UNCHANGED incident
                            \/ (incident[i].status = "open" /\ Record(i, d)))
    BY <1>3, CloseEffect
  <2>2. incident[i] \in IncidentDoc
    BY <2>1, Parts
  <2>3. /\ d \in IncidentDoc /\ d.status = "resolved" /\ d.site = incident[i].site
        /\ d.downNotified = incident[i].downNotified
        /\ d.recoveryNotified = incident[i].recoveryNotified
    BY <2>2 DEF IncidentDoc
  <2> HIDE DEF i, d
  <2> QED BY <1>1, <2>1, <2>3, RecordForward
<1>4. ASSUME NEW p \in Workers, NEW w \in Websites, CountFailure(p, w)
      PROVE  Forward
  <2> DEFINE i == ctx[p][w].current
             d == [incident[i] EXCEPT
                     !.failedChecks = Capped(incident[i].failedChecks + 1)]
  <2>1. i \in Incidents /\ (UNCHANGED incident
                            \/ (incident[i].status = "open" /\ Record(i, d)))
    BY <1>4, CountEffect
  <2>2. incident[i] \in IncidentDoc /\ incident[i].failedChecks + 1 \in Nat
    BY <2>1, Parts DEF IncidentDoc, Streak
  <2>3. Capped(incident[i].failedChecks + 1) \in Streak
    BY <2>2, CappedType
  <2>4. /\ d \in IncidentDoc
        /\ d.status = incident[i].status /\ d.site = incident[i].site
        /\ d.downNotified = incident[i].downNotified
        /\ d.recoveryNotified = incident[i].recoveryNotified
    <3> HIDE DEF i
    <3> QED BY <2>2, <2>3 DEF IncidentDoc
  <2> HIDE DEF i, d
  <2> QED BY <1>1, <2>1, <2>4, RecordForward
<1>5. ASSUME NEW p \in Workers, NEW w \in Websites, ClaimDispatch(p, w)
      PROVE  Forward
  <2> DEFINE i == ctx[p][w].subject
             d == WithFlag(incident[i], ctx[p][w].notice)
  <2>1. i \in Incidents /\ (UNCHANGED incident \/ Record(i, d))
    BY <1>5, DispatchEffect
  <2>2. incident[i] \in IncidentDoc
    BY <2>1, Parts
  <2>3. /\ d \in IncidentDoc
        /\ d.status = incident[i].status /\ d.site = incident[i].site
        /\ d.failedChecks = incident[i].failedChecks
        /\ incident[i].downNotified => d.downNotified
        /\ incident[i].recoveryNotified => d.recoveryNotified
    BY <2>2 DEF IncidentDoc, WithFlag
  <2> HIDE DEF i, d
  <2> QED BY <1>1, <2>1, <2>3, RecordForward
<1>6. ASSUME NEW w \in Websites, PurgeIncidents(w)
      PROVE  Forward
  <2>1. \A i \in Incidents :
          /\ incident[i] \in IncidentDoc
          /\ incident'[i] = incident[i]
             \/ incident'[i] = [incident[i] EXCEPT !.status = "deleted"]
    BY <1>6, Parts DEF PurgeIncidents
  <2> QED BY <2>1 DEF Forward, IncidentDoc
<1> QED BY <1>1, <1>2, <1>3, <1>4, <1>5, <1>6, IncidentWriters

(* A resolved incident is never reopened, recounted or moved, and a        *)
(* claimed notification flag is never cleared.                             *)
THEOREM HistoryIsKept == Spec => HistoryKept
<1>1. Typed /\ [Next]_vars =>
        [\A i \in Incidents :
          /\ incident[i].status # "unused" => incident'[i].site = incident[i].site
          /\ incident[i].status = "resolved" =>
               /\ incident'[i].status \in {"resolved", "deleted"}
               /\ incident'[i].failedChecks = incident[i].failedChecks
          /\ incident[i].downNotified => incident'[i].downNotified
          /\ incident[i].recoveryNotified => incident'[i].recoveryNotified]_vars
  BY StepForward DEF Forward
<1> QED BY <1>1, AlwaysTyped, PTL DEF Spec, HistoryKept

-----------------------------------------------------------------------------
(* One open incident per website.                                          *)

LEMMA InitOneOpen == Init => OneOpenIncident
BY DEF Init, OneOpenIncident

LEMMA StepOneOpen == Typed /\ OneOpenIncident /\ [Next]_vars => OneOpenIncident'
<1> SUFFICES ASSUME Typed, OneOpenIncident, [Next]_vars,
                    NEW i \in Incidents, NEW j \in Incidents,
                    incident'[i].status = "open", incident'[j].status = "open",
                    incident'[i].site = incident'[j].site
             PROVE  i = j
  BY DEF OneOpenIncident
<1> DEFINE StillOpen(k) == incident[k].status = "open" /\ incident'[k].site = incident[k].site
<1>1. CASE \A k \in Incidents : incident'[k].status = "open" => StillOpen(k)
  BY <1>1 DEF OneOpenIncident
<1>2. ASSUME NEW p \in Workers, NEW w \in Websites, OpenIncident(p, w)
      PROVE  i = j
  <2>1. PICK k \in Incidents :
          /\ incident[k].status = "unused" /\ OpenOn(w) = {}
          /\ Record(k, [incident[k] EXCEPT !.status = "open", !.site = w,
                                           !.failedChecks = ctx[p][w].failures])
    BY <1>2, OpenEffect
  <2>2. \A m \in Incidents \ {k} : incident'[m] = incident[m]
    BY <2>1 DEF Record, Typed, TypeOK
  <2>3. incident'[k].site = w
    BY <2>1 DEF Record, Typed, TypeOK, IncidentDoc
  <2>4. \A m \in Incidents : ~(incident[m].status = "open" /\ incident[m].site = w)
    BY <2>1 DEF OpenOn
  <2> QED BY <2>2, <2>3, <2>4 DEF OneOpenIncident
<1>3. (\E p \in Workers, w \in Websites : OpenIncident(p, w)) \/
      \A k \in Incidents : incident'[k].status = "open" => StillOpen(k)
  <2>1. CASE UNCHANGED incident
    BY <2>1
  <2>2. ASSUME NEW p \in Workers, NEW w \in Websites,
               CloseIncident(p, w) \/ CountFailure(p, w) \/ ClaimDispatch(p, w)
        PROVE  \A k \in Incidents : incident'[k].status = "open" => StillOpen(k)
    <3>1. ASSUME NEW k \in Incidents, NEW d, Record(k, d),
                 d.status = incident[k].status \/ d.status = "resolved",
                 d.site = incident[k].site
          PROVE  \A m \in Incidents : incident'[m].status = "open" => StillOpen(m)
      BY <3>1 DEF Record, Typed, TypeOK
    <3>2. CASE CloseIncident(p, w)
      <4> DEFINE k == ctx[p][w].current
                 d == [incident[k] EXCEPT !.status = "resolved"]
      <4>1. k \in Incidents /\ (UNCHANGED incident \/ Record(k, d))
        BY <3>2, CloseEffect
      <4>2. d.status = "resolved" /\ d.site = incident[k].site
        BY <4>1, Parts DEF IncidentDoc
      <4> HIDE DEF k, d
      <4> QED BY <2>1, <3>1, <4>1, <4>2
    <3>3. CASE CountFailure(p, w)
      <4> DEFINE k == ctx[p][w].current
                 d == [incident[k] EXCEPT
                         !.failedChecks = Capped(incident[k].failedChecks + 1)]
      <4>1. k \in Incidents /\ (UNCHANGED incident \/ Record(k, d))
        BY <3>3, CountEffect
      <4>2. d.status = incident[k].status /\ d.site = incident[k].site
        BY <4>1, Parts DEF IncidentDoc
      <4> HIDE DEF k, d
      <4> QED BY <2>1, <3>1, <4>1, <4>2
    <3>4. CASE ClaimDispatch(p, w)
      <4> DEFINE k == ctx[p][w].subject
                 d == WithFlag(incident[k], ctx[p][w].notice)
      <4>1. k \in Incidents /\ (UNCHANGED incident \/ Record(k, d))
        BY <3>4, DispatchEffect
      <4>2. d.status = incident[k].status /\ d.site = incident[k].site
        BY <4>1, Parts DEF IncidentDoc, WithFlag
      <4> HIDE DEF k, d
      <4> QED BY <2>1, <3>1, <4>1, <4>2
    <3> QED BY <2>2, <3>2, <3>3, <3>4
  <2>3. ASSUME NEW w \in Websites, PurgeIncidents(w)
        PROVE  \A k \in Incidents : incident'[k].status = "open" => StillOpen(k)
    BY <2>3, Parts DEF PurgeIncidents, IncidentDoc
  <2> QED BY <2>1, <2>2, <2>3, IncidentWriters
<1> QED BY <1>1, <1>2, <1>3

(* However workers race, crash or lose leases, and whatever is edited, a   *)
(* website never has two open incidents.                                   *)
THEOREM OneOpenAlways == Spec => []OneOpenIncident
BY InitOneOpen, StepOneOpen, AlwaysTyped, PTL DEF Spec

-----------------------------------------------------------------------------
(* Only one pipeline moves in a step, unless a process dies.               *)

PipelineMove(p, w) ==
  Claim(p, w) \/ PipelineStep(p, w) \/ PipelineFault(p, w)

OthersKept(p, w) ==
  \A q \in Workers, v \in Websites :
    <<q, v>> # <<p, w>> => pc'[q][v] = pc[q][v] /\ ctx'[q][v] = ctx[q][v]

LEMMA MoveFrame ==
  ASSUME Typed, NEW p \in Workers, NEW w \in Websites, PipelineMove(p, w)
  PROVE  OthersKept(p, w)
<1>1. \E l : Goto(p, w, l)
  BY DEF PipelineMove, Claim, PipelineStep, PipelineFault, RecordCheck,
     OpenIncident, OpenLosesRace, AdoptIncident, ReadIncident, CloseIncident,
     CountFailure, SaveWebsite, ClaimDispatch, SendNotice, Release, ReleaseFails,
     AbandonPipeline
<1>2. UNCHANGED ctx \/ \E c : Hold(p, w, c)
  BY DEF PipelineMove, Claim, PipelineStep, PipelineFault, RecordCheck,
     OpenIncident, OpenLosesRace, AdoptIncident, ReadIncident, CloseIncident,
     CountFailure, SaveWebsite, ClaimDispatch, SendNotice, Release, ReleaseFails,
     AbandonPipeline
<1> QED BY <1>1, <1>2 DEF OthersKept, Goto, Hold, Typed, TypeOK

LEMMA PipelineWriters ==
  ASSUME [Next]_vars
  PROVE  \/ UNCHANGED <<pc, ctx>>
         \/ \E p \in Workers : Crash(p)
         \/ \E p \in Workers, w \in Websites : PipelineMove(p, w)
<1>1. ASSUME NEW w \in Websites, ExpireLease(w) \/ BecomeDue(w) \/ ApiStep(w)
      PROVE  UNCHANGED <<pc, ctx>>
  BY <1>1 DEF ApiStep, ExpireLease, BecomeDue, CreateWebsite, SetMonitoring,
     BeginUrlEdit, CommitUrlEdit, RefuseUrlEdit, EditThresholds, DeleteWebsite,
     PurgeIncidents, PurgeChecks, PurgeFails
<1> QED BY <1>1 DEF Next, PipelineMove, vars

LEMMA CrashFrame ==
  ASSUME Typed, NEW p \in Workers, Crash(p)
  PROVE  /\ \A q \in Workers, w \in Websites :
              \/ pc'[q][w] = "idle" /\ ctx'[q][w] = EmptyContext
              \/ q # p /\ pc'[q][w] = pc[q][w] /\ ctx'[q][w] = ctx[q][w]
         /\ UNCHANGED <<website, incident, mail>>
BY DEF Crash, Typed, TypeOK

-----------------------------------------------------------------------------
(* Who may announce what.                                                  *)

(* A pipeline about to announce an event knows that the event happened.    *)
NoticeSound ==
  \A p \in Workers, w \in Websites :
    LET c == ctx[p][w]
    IN  /\ c.notice = "down" => incident[c.subject].status # "unused"
        /\ c.notice = "recovered" =>
             incident[c.subject].status \in {"resolved", "deleted"}

KeptNotice(p, w) ==
  \/ ctx'[p][w].notice = "none"
  \/ /\ ctx'[p][w].notice = ctx[p][w].notice
     /\ ctx'[p][w].subject = ctx[p][w].subject

FreshNotice(p, w) ==
  LET i == ctx'[p][w].subject
  IN  /\ i \in Incidents
      /\ \/ /\ ctx'[p][w].notice = "down"
            /\ incident[i].status = "unused" /\ incident'[i].status = "open"
         \/ /\ ctx'[p][w].notice = "recovered"
            /\ incident[i].status = "open" /\ incident'[i].status = "resolved"

LEMMA MoveNotice ==
  ASSUME Typed, NEW p \in Workers, NEW w \in Websites, PipelineMove(p, w)
  PROVE  KeptNotice(p, w) \/ FreshNotice(p, w)
<1>1. /\ ctx[p][w] \in Context /\ ctx \in [Workers -> [Websites -> Context]]
      /\ EmptyContext \in Context
      /\ incident \in [Incidents -> IncidentDoc]
  BY Parts, EmptyContextType DEF Typed, TypeOK
<1>2. ASSUME NEW c, Hold(p, w, c)
      PROVE  ctx'[p][w] = c
  BY <1>1, <1>2 DEF Hold
<1>3. CASE UNCHANGED ctx
  BY <1>3 DEF KeptNotice
<1>4. CASE Claim(p, w)
  BY <1>2, <1>4 DEF Claim, Snapshot, EmptyContext, KeptNotice
<1>5. ASSUME NEW o \in CheckOutcomes, RecordCheck(p, w, o)
      PROVE  KeptNotice(p, w)
  <2>1. PICK f, s : Hold(p, w, [ctx[p][w] EXCEPT !.failures = f, !.successes = s,
                                                 !.outcome = o])
    BY <1>5 DEF RecordCheck
  <2> QED BY <1>1, <1>2, <2>1 DEF Context, KeptNotice
<1>6. CASE OpenIncident(p, w)
  <2>1. PICK i \in Incidents :
          /\ incident[i].status = "unused"
          /\ Record(i, [incident[i] EXCEPT !.status = "open", !.site = w,
                                           !.failedChecks = ctx[p][w].failures])
          /\ Hold(p, w, [ctx[p][w] EXCEPT !.current = i, !.notice = "down",
                                          !.subject = i])
    BY <1>6, OpenEffect
  <2>2. ctx'[p][w].notice = "down" /\ ctx'[p][w].subject = i
    BY <1>1, <1>2, <2>1 DEF Context
  <2>3. incident'[i].status = "open"
    BY <1>1, <2>1 DEF Record, IncidentDoc
  <2> QED BY <2>1, <2>2, <2>3 DEF FreshNotice
<1>7. CASE AdoptIncident(p, w) \/ ReadIncident(p, w)
  <2>1. UNCHANGED ctx \/ \E i : Hold(p, w, [ctx[p][w] EXCEPT !.current = i])
    BY <1>7 DEF AdoptIncident, ReadIncident
  <2> QED BY <1>1, <1>2, <1>3, <2>1 DEF Context, KeptNotice
<1>8. CASE CloseIncident(p, w)
  <2> DEFINE i == ctx[p][w].current
             won == CloseMatches(i)
             d == [ctx[p][w] EXCEPT !.current = NoIncident,
                     !.subject = IF won THEN i ELSE NoIncident,
                     !.notice = IF won THEN "recovered" ELSE "none"]
  <2>1. i \in Incidents
    BY <1>8, CloseEffect
  <2>2. ctx'[p][w] = d
    BY <1>2, <1>8 DEF CloseIncident
  <2>3. d.notice = IF won THEN "recovered" ELSE "none"
    BY <1>1 DEF Context
  <2>4. d.subject = IF won THEN i ELSE NoIncident
    BY <1>1 DEF Context
  <2>5. won => incident[i].status = "open" /\ incident'[i].status = "resolved"
    <3>1. won => Record(i, [incident[i] EXCEPT !.status = "resolved"])
      BY <1>8 DEF CloseIncident
    <3> QED BY <1>1, <2>1, <3>1 DEF CloseMatches, Record, IncidentDoc
  <2> HIDE DEF i, won, d
  <2> QED BY <2>1, <2>2, <2>3, <2>4, <2>5 DEF FreshNotice, KeptNotice
<1>9. CASE SaveWebsite(p, w)
  BY <1>2, <1>9 DEF SaveWebsite, NoticeOnly, EmptyContext, KeptNotice
<1>10. CASE Release(p, w) \/ ReleaseFails(p, w)
  BY <1>2, <1>10 DEF Release, ReleaseFails, EmptyContext, KeptNotice
<1> QED
  BY <1>3, <1>4, <1>5, <1>6, <1>7, <1>8, <1>9, <1>10
  DEF PipelineMove, PipelineStep, PipelineFault, OpenLosesRace, CountFailure,
      ClaimDispatch, SendNotice, AbandonPipeline

LEMMA StepNotice ==
  ASSUME Typed, [Next]_vars
  PROVE  \/ \A q \in Workers, v \in Websites : KeptNotice(q, v)
         \/ \E p \in Workers, w \in Websites :
              /\ FreshNotice(p, w)
              /\ \A q \in Workers, v \in Websites :
                   <<q, v>> # <<p, w>> => KeptNotice(q, v)
<1>1. CASE UNCHANGED <<pc, ctx>>
  BY <1>1 DEF KeptNotice
<1>2. ASSUME NEW p \in Workers, Crash(p)
      PROVE  \A q \in Workers, v \in Websites : KeptNotice(q, v)
  <2>1. EmptyContext.notice = "none"
    BY DEF EmptyContext
  <2> QED BY <1>2, <2>1, CrashFrame DEF KeptNotice
<1>3. ASSUME NEW p \in Workers, NEW w \in Websites, PipelineMove(p, w)
      PROVE  /\ KeptNotice(p, w) \/ FreshNotice(p, w)
             /\ \A q \in Workers, v \in Websites :
                  <<q, v>> # <<p, w>> => KeptNotice(q, v)
  BY <1>3, MoveNotice, MoveFrame DEF OthersKept, KeptNotice
<1> QED BY <1>1, <1>2, <1>3, PipelineWriters

NoticeInv == SoleAnnouncer /\ NoticeSound

LEMMA InitNotice == Init => NoticeInv
BY DEF Init, NoticeInv, SoleAnnouncer, NoticeSound, EmptyContext

LEMMA StepNoticeInv == Typed /\ NoticeInv /\ [Next]_vars => NoticeInv'
<1> SUFFICES ASSUME Typed, NoticeInv, [Next]_vars PROVE NoticeInv'
  OBVIOUS
<1>1. Forward
  BY StepForward
<1>2. \A p \in Workers, w \in Websites :
        ctx[p][w].notice # "none" => ctx[p][w].subject \in Incidents
  BY Parts DEF Consistent
<1>3. \A p \in Workers, w \in Websites :
        ctx[p][w] \in Context /\ ctx'[p][w] \in Context
  BY StepTyped, Parts DEF Typed, TypeOK
<1>4. NoticeSound'
  <2>1. ASSUME NEW p \in Workers, NEW w \in Websites, KeptNotice(p, w)
        PROVE  LET c == ctx'[p][w]
               IN  /\ c.notice = "down" => incident'[c.subject].status # "unused"
                   /\ c.notice = "recovered" =>
                        incident'[c.subject].status \in {"resolved", "deleted"}
    BY <2>1, <1>1, <1>2 DEF KeptNotice, Forward, NoticeInv, NoticeSound
  <2>2. ASSUME NEW p \in Workers, NEW w \in Websites, FreshNotice(p, w)
        PROVE  LET c == ctx'[p][w]
               IN  /\ c.notice = "down" => incident'[c.subject].status # "unused"
                   /\ c.notice = "recovered" =>
                        incident'[c.subject].status \in {"resolved", "deleted"}
    BY <2>2 DEF FreshNotice
  <2> QED BY <2>1, <2>2, StepNotice DEF NoticeSound
<1>5. SoleAnnouncer'
  <2> SUFFICES ASSUME NEW p \in Workers, NEW q \in Workers,
                      NEW w \in Websites, NEW v \in Websites,
                      ctx'[p][w].notice # "none",
                      ctx'[p][w].notice = ctx'[q][v].notice,
                      ctx'[p][w].subject = ctx'[q][v].subject
               PROVE  <<p, w>> = <<q, v>>
    BY DEF SoleAnnouncer
  <2>1. CASE KeptNotice(p, w) /\ KeptNotice(q, v)
    BY <2>1 DEF KeptNotice, NoticeInv, SoleAnnouncer
  <2>2. ~(KeptNotice(p, w) /\ FreshNotice(q, v))
    BY <1>2 DEF KeptNotice, FreshNotice, NoticeInv, NoticeSound
  <2>3. ~(FreshNotice(p, w) /\ KeptNotice(q, v))
    BY <1>2 DEF KeptNotice, FreshNotice, NoticeInv, NoticeSound
  <2> QED BY <2>1, <2>2, <2>3, StepNotice
<1> QED BY <1>4, <1>5 DEF NoticeInv

LEMMA AlwaysNotice == Spec => []NoticeInv
BY InitNotice, StepNoticeInv, AlwaysTyped, PTL DEF Spec

(* No event of an incident ever has two pipelines about to announce it.    *)
THEOREM OneAnnouncer == Spec => []SoleAnnouncer
<1>1. NoticeInv => SoleAnnouncer
  BY DEF NoticeInv
<1> QED BY <1>1, AlwaysNotice, PTL

-----------------------------------------------------------------------------
(* At most one dispatch per event.                                         *)

(* A pipeline that is sending has claimed the flag, and nothing was sent.  *)
DispatchOwned ==
  \A p \in Workers, w \in Websites :
    LET c == ctx[p][w]
    IN  At(p, w, "sending") =>
          Notified(c.subject, c.notice) /\ mail[c.subject][c.notice] = 0

LEMMA SendingSteps ==
  ASSUME Typed, [Next]_vars, NEW q \in Workers, NEW v \in Websites,
         pc'[q][v] = "sending"
  PROVE  \/ /\ pc[q][v] = "sending" /\ ctx'[q][v] = ctx[q][v]
            /\ ~SendNotice(q, v)
         \/ ClaimDispatch(q, v) /\ UNCHANGED mail
<1>1. CASE UNCHANGED <<pc, ctx>>
  BY <1>1 DEF SendNotice, At, Goto, Typed, TypeOK
<1>2. ASSUME NEW p \in Workers, Crash(p)
      PROVE  pc[q][v] = "sending" /\ ctx'[q][v] = ctx[q][v] /\ ~SendNotice(q, v)
  <2>1. UNCHANGED mail /\ pc[q][v] = "sending" /\ ctx'[q][v] = ctx[q][v]
    BY <1>2, CrashFrame
  <2> QED BY <2>1 DEF SendNotice, At, Goto, Typed, TypeOK
<1>3. ASSUME NEW p \in Workers, NEW w \in Websites, PipelineMove(p, w),
             <<p, w>> # <<q, v>>
      PROVE  pc[q][v] = "sending" /\ ctx'[q][v] = ctx[q][v] /\ ~SendNotice(q, v)
  BY <1>3, MoveFrame DEF OthersKept, SendNotice, At, Goto, Typed, TypeOK
<1>4. CASE PipelineMove(q, v)
  <2>1. \A l : Goto(q, v, l) => l = "sending"
    BY DEF Goto, Typed, TypeOK
  <2>2. ASSUME NEW o \in CheckOutcomes PROVE ~RecordCheck(q, v, o)
    <3>1. SUFFICES ASSUME RecordCheck(q, v, o) PROVE FALSE
      OBVIOUS
    <3>2. IsSuccessfulCheck(o) \in BOOLEAN
      BY DEF IsSuccessfulCheck
    <3> DEFINE ok == IsSuccessfulCheck(o)
               l == AfterDecision(DecideIncidentTransition(
                      CappedCounters(DeriveCounters(ctx[q][v], ok)),
                      ctx[q][v].failureThreshold, ctx[q][v].recoveryThreshold,
                      ctx[q][v].current # NoIncident), ok)
    <3>3. l \in {"saving", "opening", "resolving", "counting"}
      BY <3>2, DecisionType
    <3>4. Goto(q, v, l)
      BY <3>1 DEF RecordCheck
    <3> HIDE DEF l
    <3> QED BY <2>1, <3>3, <3>4
  <2> QED
    BY <1>4, <2>1, <2>2
    DEF PipelineMove, PipelineStep, PipelineFault, Claim, OpenIncident, OpenLosesRace, AdoptIncident, ReadIncident,
        CloseIncident, CountFailure, SaveWebsite, ClaimDispatch, SendNotice,
        Release, ReleaseFails, AbandonPipeline
<1> QED BY <1>1, <1>2, <1>3, <1>4, PipelineWriters

LEMMA MailWriters ==
  ASSUME [Next]_vars
  PROVE  UNCHANGED mail \/ \E p \in Workers, w \in Websites : SendNotice(p, w)
<1>1. ASSUME NEW p \in Workers, NEW w \in Websites,
             Claim(p, w) \/ PipelineStep(p, w) \/ PipelineFault(p, w)
      PROVE  UNCHANGED mail \/ SendNotice(p, w)
  BY <1>1 DEF PipelineStep, PipelineFault, Claim, RecordCheck, OpenIncident,
     OpenLosesRace, AdoptIncident, ReadIncident, CloseIncident, CountFailure,
     SaveWebsite, ClaimDispatch, Release, ReleaseFails, AbandonPipeline
<1>2. ASSUME NEW p \in Workers, Crash(p) PROVE UNCHANGED mail
  BY <1>2 DEF Crash
<1>3. ASSUME NEW w \in Websites, ExpireLease(w) \/ BecomeDue(w) \/ ApiStep(w)
      PROVE  UNCHANGED mail
  BY <1>3 DEF ApiStep, ExpireLease, BecomeDue, CreateWebsite, SetMonitoring,
     BeginUrlEdit, CommitUrlEdit, RefuseUrlEdit, EditThresholds, DeleteWebsite,
     PurgeIncidents, PurgeChecks, PurgeFails
<1> QED BY <1>1, <1>2, <1>3 DEF Next, vars

LEMMA SendEffect ==
  ASSUME Typed, NEW p \in Workers, NEW w \in Websites, SendNotice(p, w)
  PROVE  LET i == ctx[p][w].subject
             a == ctx[p][w].notice
         IN  /\ i \in Incidents /\ a \in Announcements
             /\ At(p, w, "sending") /\ UNCHANGED incident
             /\ mail' = mail \/ mail' = [mail EXCEPT ![i][a] = @ + 1]
BY Parts DEF Consistent, SendNotice, At, Context

DispatchInv == DispatchOwned /\ AnnouncedOnce

LEMMA InitDispatch == Init => DispatchInv
BY DEF Init, DispatchInv, DispatchOwned, AnnouncedOnce, At, Notified

LEMMA StepDispatch ==
  Typed /\ NoticeInv /\ DispatchInv /\ [Next]_vars => DispatchInv'
<1> SUFFICES ASSUME Typed, NoticeInv, DispatchInv, [Next]_vars PROVE DispatchInv'
  OBVIOUS
<1>1. \A i \in Incidents, a \in Announcements : Notified(i, a) => Notified(i, a)'
  BY StepForward DEF Forward, Notified
<1>2. mail \in [Incidents -> [Announcements -> Nat]]
  BY DEF Typed, TypeOK
<1>3. \A p \in Workers, w \in Websites :
        At(p, w, "sending") =>
          /\ ctx[p][w].subject \in Incidents /\ ctx[p][w].notice \in Announcements
          /\ Notified(ctx[p][w].subject, ctx[p][w].notice)
          /\ mail[ctx[p][w].subject][ctx[p][w].notice] = 0
  BY Parts DEF DispatchInv, DispatchOwned, Consistent, Context, At
<1>4. AnnouncedOnce'
  <2>1. CASE UNCHANGED mail
    BY <1>1, <1>2, <2>1 DEF DispatchInv, AnnouncedOnce
  <2>2. ASSUME NEW p \in Workers, NEW w \in Websites, SendNotice(p, w),
               NEW i \in Incidents, NEW a \in Announcements,
               i = ctx[p][w].subject, a = ctx[p][w].notice
        PROVE  AnnouncedOnce'
    <3>1. /\ At(p, w, "sending")
          /\ mail' = mail \/ mail' = [mail EXCEPT ![i][a] = @ + 1]
      BY <2>2, SendEffect
    <3>2. Notified(i, a)' /\ mail[i][a] = 0
      BY <1>1, <1>3, <2>2, <3>1
    <3>3. \A j \in Incidents, b \in Announcements :
            mail'[j][b] = mail[j][b] \/ (j = i /\ b = a /\ mail'[j][b] = 1)
      BY <1>2, <3>1, <3>2
    <3> SUFFICES ASSUME NEW j \in Incidents, NEW b \in Announcements
                 PROVE  mail'[j][b] <= (IF Notified(j, b)' THEN 1 ELSE 0)
      BY DEF AnnouncedOnce
    <3>4. mail[j][b] <= (IF Notified(j, b) THEN 1 ELSE 0) /\ mail[j][b] \in Nat
      BY <1>2 DEF DispatchInv, AnnouncedOnce
    <3>5. CASE mail'[j][b] = mail[j][b]
      BY <1>1, <3>4, <3>5
    <3>6. CASE j = i /\ b = a /\ mail'[j][b] = 1
      BY <3>2, <3>6
    <3> QED BY <3>3, <3>5, <3>6
  <2> QED BY <2>1, <2>2, MailWriters, SendEffect
<1>5. DispatchOwned'
  <2> SUFFICES ASSUME NEW q \in Workers, NEW v \in Websites, pc'[q][v] = "sending"
               PROVE  /\ Notified(ctx[q][v].subject, ctx[q][v].notice)'
                      /\ (mail[ctx[q][v].subject][ctx[q][v].notice])' = 0
    BY DEF DispatchOwned, At
  <2> DEFINE i == ctx[q][v].subject
             a == ctx[q][v].notice
  <2>1. CASE pc[q][v] = "sending" /\ ctx'[q][v] = ctx[q][v] /\ ~SendNotice(q, v)
    <3>1. /\ i \in Incidents /\ a \in Announcements
          /\ Notified(i, a) /\ mail[i][a] = 0
      BY <1>3, <2>1 DEF At
    <3>2. Notified(i, a)'
      BY <1>1, <2>1, <3>1
    <3>3. ASSUME NEW p \in Workers, NEW w \in Websites, SendNotice(p, w)
          PROVE  mail'[i][a] = 0
      <4>1. /\ ctx[p][w].subject \in Incidents /\ ctx[p][w].notice \in Announcements
            /\ pc[p][w] = "sending"
            /\ \/ mail' = mail
               \/ mail' = [mail EXCEPT ![ctx[p][w].subject][ctx[p][w].notice] = @ + 1]
        BY <3>3, SendEffect DEF At
      <4>2. <<p, w>> # <<q, v>>
        BY <2>1, <3>3
      <4>3. ctx[p][w].notice # "none"
        BY <4>1, Parts DEF Consistent
      <4>4. ~(ctx[p][w].subject = i /\ ctx[p][w].notice = a)
        BY <4>2, <4>3 DEF NoticeInv, SoleAnnouncer
      <4> QED BY <1>2, <3>1, <4>1, <4>4
    <3>4. mail'[i][a] = 0
      BY <3>1, <3>3, MailWriters
    <3> QED BY <2>1, <3>2, <3>4
  <2>2. CASE ClaimDispatch(q, v) /\ UNCHANGED mail
    <3>1. /\ i \in Incidents /\ a \in Announcements
          /\ UNCHANGED ctx
          /\ ~Notified(i, a) /\ Record(i, WithFlag(incident[i], a))
      <4>1. ~Goto(q, v, "releasing")
        BY DEF Goto, Typed, TypeOK
      <4> QED BY <2>2, <4>1, DispatchEffect DEF ClaimDispatch
    <3>2. mail[i][a] = 0
      BY <1>2, <3>1 DEF DispatchInv, AnnouncedOnce
    <3>3. Notified(i, a)'
      <4>1. incident'[i] = WithFlag(incident[i], a) /\ incident[i] \in IncidentDoc
        BY <3>1, Parts DEF Record, Typed, TypeOK
      <4> HIDE DEF i, a
      <4>2. Notified(i, a)' <=> IF a = "down" THEN incident'[i].downNotified
                                ELSE incident'[i].recoveryNotified
        BY <3>1 DEF Notified, i, a
      <4> QED BY <3>1, <4>1, <4>2 DEF WithFlag, IncidentDoc
    <3> QED BY <2>2, <3>1, <3>2, <3>3
  <2> QED BY <2>1, <2>2, SendingSteps
<1> QED BY <1>4, <1>5 DEF DispatchInv

(* Each event of an incident is dispatched at most once, and never before  *)
(* its flag is claimed.                                                    *)
THEOREM AnnouncedAtMostOnce == Spec => []AnnouncedOnce
<1>1. DispatchInv => AnnouncedOnce
  BY DEF DispatchInv
<1> QED BY <1>1, InitDispatch, StepDispatch, AlwaysTyped, AlwaysNotice, PTL DEF Spec

-----------------------------------------------------------------------------
(* The status and the counters are of one write.                           *)

(* What a website says of its checks after a step.                         *)
SameReading(w) ==
  /\ website'[w].status = website[w].status
  /\ website'[w].failures = website[w].failures
  /\ website'[w].successes = website[w].successes

ResetReading(w) ==
  /\ website'[w].status \in {"unknown", "paused"}
  /\ website'[w].failures = 0
  /\ website'[w].successes = 0

SavedReading(p, w) ==
  LET c == ctx[p][w]
  IN  /\ pc[p][w] = "saving"
      /\ website'[w].status = DeriveDisplayStatus(c.outcome, c.current # NoIncident)
      /\ website'[w].failures = c.failures
      /\ website'[w].successes = c.successes

LEMMA StoreSame ==
  ASSUME Typed, NEW w \in Websites, NEW d, Store(w, d),
         d.status = website[w].status, d.failures = website[w].failures,
         d.successes = website[w].successes
  PROVE  \A v \in Websites : SameReading(v)
BY DEF Store, SameReading, Typed, TypeOK

LEMMA StoreOther ==
  ASSUME Typed, NEW w \in Websites, NEW d, Store(w, d)
  PROVE  website'[w] = d /\ \A v \in Websites \ {w} : SameReading(v)
BY DEF Store, SameReading, Typed, TypeOK

LEMMA SchedulerReading ==
  ASSUME Typed, NEW w \in Websites,
         \/ \E p \in Workers : Claim(p, w) \/ Release(p, w)
         \/ ExpireLease(w) \/ BecomeDue(w) \/ CreateWebsite(w) \/ DeleteWebsite(w)
         \/ \E f \in FailureThresholds, r \in RecoveryThresholds :
              EditThresholds(w, f, r)
  PROVE  \A v \in Websites : SameReading(v)
<1>1. website[w] \in WebsiteDoc
  BY Parts
<1>2. CASE UNCHANGED website
  BY <1>2 DEF SameReading
<1>3. CASE \E p \in Workers : Claim(p, w) \/ Release(p, w)
  <2>1. \/ Store(w, [website[w] EXCEPT !.lease = "held"])
        \/ Store(w, [website[w] EXCEPT !.lease = "free", !.due = FALSE])
        \/ UNCHANGED website
    BY <1>3 DEF Claim, Release
  <2>2. ASSUME NEW l, NEW u
        PROVE  LET d == [website[w] EXCEPT !.lease = l, !.due = u]
                   e == [website[w] EXCEPT !.lease = l]
               IN  /\ d.status = website[w].status
                   /\ d.failures = website[w].failures
                   /\ d.successes = website[w].successes
                   /\ e.status = website[w].status
                   /\ e.failures = website[w].failures
                   /\ e.successes = website[w].successes
    BY <1>1 DEF WebsiteDoc
  <2> QED BY <1>2, <2>1, <2>2, StoreSame
<1>4. CASE ExpireLease(w) \/ BecomeDue(w) \/ DeleteWebsite(w)
  <2>1. \/ Store(w, [website[w] EXCEPT !.lease = "expired"])
        \/ Store(w, [website[w] EXCEPT !.due = TRUE])
        \/ Store(w, [website[w] EXCEPT !.life = "deleted"])
    BY <1>4 DEF ExpireLease, BecomeDue, DeleteWebsite
  <2>2. ASSUME NEW l
        PROVE  LET d == [website[w] EXCEPT !.lease = l]
                   e == [website[w] EXCEPT !.due = l]
                   g == [website[w] EXCEPT !.life = l]
               IN  /\ d.status = website[w].status
                   /\ d.failures = website[w].failures
                   /\ d.successes = website[w].successes
                   /\ e.status = website[w].status
                   /\ e.failures = website[w].failures
                   /\ e.successes = website[w].successes
                   /\ g.status = website[w].status
                   /\ g.failures = website[w].failures
                   /\ g.successes = website[w].successes
    BY <1>1 DEF WebsiteDoc
  <2> QED BY <2>1, <2>2, StoreSame
<1>5. ASSUME NEW f, NEW r,
             \/ Store(w, [website[w] EXCEPT
                            !.life = "live", !.enabled = TRUE, !.due = TRUE,
                            !.failureThreshold = f, !.recoveryThreshold = r])
             \/ Store(w, [website[w] EXCEPT !.failureThreshold = f,
                                            !.recoveryThreshold = r])
      PROVE  \A v \in Websites : SameReading(v)
  <2>1. LET d == [website[w] EXCEPT
                    !.life = "live", !.enabled = TRUE, !.due = TRUE,
                    !.failureThreshold = f, !.recoveryThreshold = r]
            e == [website[w] EXCEPT !.failureThreshold = f, !.recoveryThreshold = r]
        IN  /\ d.status = website[w].status
            /\ d.failures = website[w].failures
            /\ d.successes = website[w].successes
            /\ e.status = website[w].status
            /\ e.failures = website[w].failures
            /\ e.successes = website[w].successes
    BY <1>1 DEF WebsiteDoc
  <2> QED BY <1>5, <2>1, StoreSame
<1> QED BY <1>3, <1>4, <1>5 DEF CreateWebsite, EditThresholds

LEMMA RestartReading ==
  ASSUME Typed, NEW w \in Websites,
         \/ \E enabled \in BOOLEAN : SetMonitoring(w, enabled)
         \/ CommitUrlEdit(w)
  PROVE  \A v \in Websites : SameReading(v) \/ ResetReading(v)
<1>1. website[w] \in WebsiteDoc
  BY Parts
<1>2. ASSUME NEW s \in {"unknown", "paused"}, NEW b \in BOOLEAN
      PROVE  LET d == Restarted(website[w], s)
                 e == [Restarted(website[w], s) EXCEPT !.enabled = b]
             IN  /\ d.status = s /\ d.failures = 0 /\ d.successes = 0
                 /\ e.status = s /\ e.failures = 0 /\ e.successes = 0
  <2>1. Restarted(website[w], s) \in WebsiteDoc
    BY <1>1, RestartedTyped
  <2>2. LET d == Restarted(website[w], s)
        IN  d.status = s /\ d.failures = 0 /\ d.successes = 0
    BY <1>1 DEF Restarted, WebsiteDoc
  <2> QED BY <2>1, <2>2 DEF WebsiteDoc
<1>3. \/ UNCHANGED website
      \/ \E s \in {"unknown", "paused"}, b \in BOOLEAN :
           \/ Store(w, Restarted(website[w], s))
           \/ Store(w, [Restarted(website[w], s) EXCEPT !.enabled = b])
  BY DEF SetMonitoring, CommitUrlEdit
<1>4. ASSUME NEW d, Store(w, d), d.status \in {"unknown", "paused"},
             d.failures = 0, d.successes = 0
      PROVE  \A v \in Websites : SameReading(v) \/ ResetReading(v)
  BY <1>4, StoreOther DEF ResetReading
<1>5. CASE UNCHANGED website
  BY <1>5 DEF SameReading
<1> QED BY <1>2, <1>3, <1>4, <1>5

LEMMA SaveReading ==
  ASSUME Typed, NEW p \in Workers, NEW w \in Websites, SaveWebsite(p, w)
  PROVE  \A v \in Websites : SameReading(v) \/ SavedReading(p, v)
<1>1. CASE UNCHANGED website
  BY <1>1 DEF SameReading
<1>2. CASE Store(w, Saved(website[w], ctx[p][w]))
  <2>1. website[w] \in WebsiteDoc
    BY Parts
  <2>2. SavedReading(p, w)
    <3>1. website'[w] = Saved(website[w], ctx[p][w])
      BY <1>2, StoreOther
    <3>2. pc[p][w] = "saving"
      BY DEF SaveWebsite, At
    <3> QED BY <2>1, <3>1, <3>2 DEF SavedReading, Saved, WebsiteDoc
  <2> QED BY <1>2, <2>2, StoreOther
<1> QED BY <1>1, <1>2 DEF SaveWebsite

LEMMA StepReading ==
  ASSUME Typed, [Next]_vars, NEW v \in Websites
  PROVE  SameReading(v) \/ ResetReading(v) \/ \E p \in Workers : SavedReading(p, v)
<1>1. CASE UNCHANGED website
  BY <1>1 DEF SameReading
<1>2. ASSUME NEW p \in Workers, NEW w \in Websites,
             Claim(p, w) \/ PipelineStep(p, w) \/ PipelineFault(p, w)
      PROVE  UNCHANGED website \/ Claim(p, w) \/ Release(p, w) \/ SaveWebsite(p, w)
  BY <1>2 DEF PipelineStep, PipelineFault, RecordCheck, OpenIncident,
     OpenLosesRace, AdoptIncident, ReadIncident, CloseIncident, CountFailure,
     ClaimDispatch, SendNotice, ReleaseFails, AbandonPipeline
<1>3. ASSUME NEW w \in Websites, ApiStep(w)
      PROVE  \/ UNCHANGED website
             \/ CreateWebsite(w) \/ DeleteWebsite(w) \/ CommitUrlEdit(w)
             \/ \E enabled \in BOOLEAN : SetMonitoring(w, enabled)
             \/ \E f \in FailureThresholds, r \in RecoveryThresholds :
                  EditThresholds(w, f, r)
  BY <1>3 DEF ApiStep, BeginUrlEdit, RefuseUrlEdit, PurgeIncidents, PurgeChecks,
     PurgeFails
<1>4. ASSUME NEW p \in Workers, Crash(p) PROVE UNCHANGED website
  BY <1>4 DEF Crash
<1> QED
  BY <1>1, <1>2, <1>3, <1>4, SchedulerReading, RestartReading, SaveReading
  DEF Next, vars

Decided == {"opening", "adopting", "resolving", "closing", "counting", "saving"}

(* Past its check, a pipeline with a successful outcome holds a success    *)
(* streak and no failures.                                                 *)
OutcomeCounted ==
  \A p \in Workers, w \in Websites :
    pc[p][w] \in Decided /\ ctx[p][w].outcome # "down" =>
      ctx[p][w].failures = 0 /\ ctx[p][w].successes > 0

SameCount(c, d) ==
  d.outcome = c.outcome /\ d.failures = c.failures /\ d.successes = c.successes

LEMMA MoveCounted ==
  ASSUME Typed, OutcomeCounted, NEW p \in Workers, NEW w \in Websites,
         PipelineMove(p, w), pc'[p][w] \in Decided, ctx'[p][w].outcome # "down"
  PROVE  ctx'[p][w].failures = 0 /\ ctx'[p][w].successes > 0
<1>1. /\ ctx[p][w] \in Context /\ ctx \in [Workers -> [Websites -> Context]]
      /\ pc \in [Workers -> [Websites -> PipelineStates]]
  BY Parts DEF Typed, TypeOK
<1>2. ASSUME NEW c, Hold(p, w, c) PROVE ctx'[p][w] = c
  BY <1>1, <1>2 DEF Hold
<1>3. \A l : Goto(p, w, l) => pc'[p][w] = l
  BY <1>1 DEF Goto
<1>4. CASE pc[p][w] \in Decided /\ SameCount(ctx[p][w], ctx'[p][w])
  BY <1>4 DEF SameCount, OutcomeCounted
<1>5. ASSUME NEW o \in CheckOutcomes, RecordCheck(p, w, o)
      PROVE  ctx'[p][w].failures = 0 /\ ctx'[p][w].successes > 0
  <2> DEFINE ok == IsSuccessfulCheck(o)
             counters == CappedCounters(DeriveCounters(ctx[p][w], ok))
             d == [ctx[p][w] EXCEPT !.failures = counters.failures,
                     !.successes = counters.successes, !.outcome = o]
  <2>1. ctx'[p][w] = d
    BY <1>2, <1>5 DEF RecordCheck
  <2>2. /\ d.outcome = o /\ d.failures = counters.failures
        /\ d.successes = counters.successes
    <3> HIDE DEF counters
    <3> QED BY <1>1 DEF Context
  <2>3. o # "down"
    BY <2>1, <2>2
  <2>4. counters = [failures |-> Capped(0), successes |-> Capped(ctx[p][w].successes + 1)]
    BY <2>3 DEF IsSuccessfulCheck, DeriveCounters, CappedCounters
  <2>5. ctx[p][w].successes \in Nat
    BY <1>1 DEF Context, Streak
  <2>6. counters.failures = 0 /\ counters.successes > 0
    BY <2>4, <2>5, StreakBound DEF Capped
  <2> HIDE DEF counters, d
  <2> QED BY <2>1, <2>2, <2>6
<1>6. CASE OpenIncident(p, w)
  <2>1. PICK i : Hold(p, w, [ctx[p][w] EXCEPT !.current = i, !.notice = "down",
                                              !.subject = i])
    BY <1>6 DEF OpenIncident
  <2>2. pc[p][w] \in Decided
    BY <1>6 DEF OpenIncident, At, Decided
  <2> QED BY <1>1, <1>2, <1>4, <2>1, <2>2 DEF Context, SameCount
<1>7. CASE AdoptIncident(p, w) \/ ReadIncident(p, w)
  <2>1. UNCHANGED ctx \/ \E i : Hold(p, w, [ctx[p][w] EXCEPT !.current = i])
    BY <1>7 DEF AdoptIncident, ReadIncident
  <2>2. pc[p][w] \in Decided
    BY <1>7 DEF AdoptIncident, ReadIncident, At, Decided
  <2> QED BY <1>1, <1>2, <1>4, <2>1, <2>2 DEF Context, SameCount
<1>8. CASE CloseIncident(p, w)
  <2>1. PICK i, n : Hold(p, w, [ctx[p][w] EXCEPT !.current = NoIncident,
                                  !.subject = i, !.notice = n])
    BY <1>8 DEF CloseIncident
  <2>2. pc[p][w] \in Decided
    BY <1>8 DEF CloseIncident, At, Decided
  <2> QED BY <1>1, <1>2, <1>4, <2>1, <2>2 DEF Context, SameCount
<1>9. CASE OpenLosesRace(p, w) \/ CountFailure(p, w)
  <2>1. UNCHANGED ctx /\ pc[p][w] \in Decided
    BY <1>9 DEF OpenLosesRace, CountFailure, At, Decided
  <2> QED BY <1>4, <2>1 DEF SameCount
<1>10. ~\/ Claim(p, w) \/ SaveWebsite(p, w) \/ ClaimDispatch(p, w)
        \/ SendNotice(p, w) \/ Release(p, w) \/ PipelineFault(p, w)
  BY <1>3 DEF Claim, SaveWebsite, ClaimDispatch, SendNotice, Release,
     PipelineFault, ReleaseFails, AbandonPipeline, Decided
<1> QED BY <1>5, <1>6, <1>7, <1>8, <1>9, <1>10 DEF PipelineMove, PipelineStep

ReadingInv == OutcomeCounted /\ StatusMatchesCounters

LEMMA InitReading == Init => ReadingInv
BY DEF Init, ReadingInv, OutcomeCounted, StatusMatchesCounters, Decided

LEMMA StepReadingInv == Typed /\ ReadingInv /\ [Next]_vars => ReadingInv'
<1> SUFFICES ASSUME Typed, ReadingInv, [Next]_vars PROVE ReadingInv'
  OBVIOUS
<1>1. OutcomeCounted'
  <2> SUFFICES ASSUME NEW q \in Workers, NEW v \in Websites,
                      pc'[q][v] \in Decided, ctx'[q][v].outcome # "down"
               PROVE  ctx'[q][v].failures = 0 /\ ctx'[q][v].successes > 0
    BY DEF OutcomeCounted
  <2>1. CASE pc'[q][v] = pc[q][v] /\ ctx'[q][v] = ctx[q][v]
    BY <2>1 DEF ReadingInv, OutcomeCounted
  <2>2. CASE \E p \in Workers : Crash(p)
    BY <2>1, <2>2, CrashFrame DEF Decided
  <2>3. CASE \E p \in Workers, w \in Websites : PipelineMove(p, w)
    BY <2>1, <2>3, MoveCounted, MoveFrame DEF OthersKept, ReadingInv
  <2> QED BY <2>1, <2>2, <2>3, PipelineWriters
<1>2. StatusMatchesCounters'
  <2> SUFFICES ASSUME NEW v \in Websites
               PROVE  /\ website'[v].status = "operational" =>
                           website'[v].failures = 0 /\ website'[v].successes > 0
                      /\ website'[v].status \in {"paused", "unknown"} =>
                           website'[v].failures = 0 /\ website'[v].successes = 0
    BY DEF StatusMatchesCounters
  <2>1. CASE SameReading(v)
    BY <2>1 DEF SameReading, ReadingInv, StatusMatchesCounters
  <2>2. CASE ResetReading(v)
    BY <2>2 DEF ResetReading
  <2>3. ASSUME NEW p \in Workers, SavedReading(p, v)
        PROVE  /\ website'[v].status = "operational" =>
                    website'[v].failures = 0 /\ website'[v].successes > 0
               /\ website'[v].status \notin {"paused", "unknown"}
    <3> DEFINE c == ctx[p][v]
               h == c.current # NoIncident
    <3>1. c.outcome \in CheckOutcomes
      BY Parts DEF Context
    <3>2. /\ DeriveDisplayStatus(c.outcome, h) = "operational" => c.outcome = "up"
          /\ DeriveDisplayStatus(c.outcome, h) \in {"operational", "down", "degraded"}
      BY <3>1 DEF CheckOutcomes, DeriveDisplayStatus
    <3>3. c.outcome = "up" => c.failures = 0 /\ c.successes > 0
      BY <2>3 DEF SavedReading, ReadingInv, OutcomeCounted, Decided
    <3> HIDE DEF h
    <3> QED BY <2>3, <3>2, <3>3 DEF SavedReading, h
  <2> QED BY <2>1, <2>2, <2>3, StepReading
<1> QED BY <1>1, <1>2 DEF ReadingInv

(* No reader ever finds a status that contradicts the counters, whoever    *)
(* races whom.                                                             *)
THEOREM StatusAgreesWithCounters == Spec => []StatusMatchesCounters
<1>1. ReadingInv => StatusMatchesCounters
  BY DEF ReadingInv
<1> QED BY <1>1, InitReading, StepReadingInv, AlwaysTyped, PTL DEF Spec

-----------------------------------------------------------------------------
(* Mutual exclusion by lease.                                              *)

LeaseInv ==
  /\ LeaseExclusion
  /\ \A p \in Workers, w \in Websites :
       ~At(p, w, "idle") =>
         website[w].life # "absent" /\ (Live(w) => website[w].lease = "held")

LeaseKept(w) ==
  website'[w].life = website[w].life /\ website'[w].lease = website[w].lease

LEMMA MoveLease ==
  ASSUME Typed, NEW p \in Workers, NEW w \in Websites, PipelineMove(p, w)
  PROVE  /\ \A v \in Websites \ {w} : website'[v] = website[v]
         /\ \/ /\ Live(w) /\ website[w].lease # "held"
               /\ website'[w].life = "live" /\ website'[w].lease = "held"
            \/ pc[p][w] # "idle" /\ pc'[p][w] = "idle"
            \/ pc[p][w] # "idle" /\ LeaseKept(w)
<1>1. /\ website[w] \in WebsiteDoc /\ website \in [Websites -> WebsiteDoc]
      /\ pc \in [Workers -> [Websites -> PipelineStates]]
  BY Parts DEF Typed, TypeOK
<1>2. CASE Claim(p, w)
  <2>1. Store(w, [website[w] EXCEPT !.lease = "held"])
    BY <1>2 DEF Claim
  <2>2. website'[w] = [website[w] EXCEPT !.lease = "held"]
    BY <1>1, <2>1 DEF Store
  <2>3. website'[w].life = website[w].life /\ website'[w].lease = "held"
    BY <1>1, <2>2 DEF WebsiteDoc
  <2> QED BY <1>1, <1>2, <2>1, <2>3 DEF Claim, Claimable, Live, Store
<1>3. CASE Release(p, w) \/ ReleaseFails(p, w)
  <2>1. UNCHANGED website \/ \E d : Store(w, d)
    BY <1>3 DEF Release, ReleaseFails
  <2> QED BY <1>1, <1>3, <2>1 DEF Release, ReleaseFails, Store, At, Goto
<1>4. CASE SaveWebsite(p, w)
  <2>1. UNCHANGED website \/ Store(w, Saved(website[w], ctx[p][w]))
    BY <1>4 DEF SaveWebsite
  <2>2. /\ Saved(website[w], ctx[p][w]).life = website[w].life
        /\ Saved(website[w], ctx[p][w]).lease = website[w].lease
    BY <1>1 DEF Saved, WebsiteDoc
  <2>3. LeaseKept(w) /\ \A v \in Websites \ {w} : website'[v] = website[v]
    BY <1>1, <2>1, <2>2 DEF Store, LeaseKept
  <2> QED BY <1>4, <2>3 DEF SaveWebsite, At
<1>5. CASE UNCHANGED website /\ pc[p][w] # "idle"
  BY <1>5 DEF LeaseKept
<1> QED
  BY <1>2, <1>3, <1>4, <1>5
  DEF PipelineMove, PipelineStep, PipelineFault, RecordCheck, OpenIncident,
      OpenLosesRace, AdoptIncident, ReadIncident, CloseIncident, CountFailure,
      ClaimDispatch, SendNotice, AbandonPipeline, At

LEMMA OtherLease ==
  ASSUME Typed, "overlap" \notin Disturbances, NEW w \in Websites,
         ExpireLease(w) \/ BecomeDue(w) \/ ApiStep(w)
  PROVE  /\ \A v \in Websites \ {w} : LeaseKept(v)
         /\ \/ LeaseKept(w) \/ Quiet(w) \/ website[w].life = "absent"
            \/ website'[w].life = "deleted"
<1>1. /\ website[w] \in WebsiteDoc /\ website \in [Websites -> WebsiteDoc]
  BY Parts DEF Typed, TypeOK
<1>2. CASE UNCHANGED website
  BY <1>2 DEF LeaseKept
<1>3. ASSUME NEW d, Store(w, d)
      PROVE  website'[w] = d /\ \A v \in Websites \ {w} : LeaseKept(v)
  BY <1>1, <1>3 DEF Store, LeaseKept
<1>4. CASE ExpireLease(w)
  BY <1>3, <1>4 DEF ExpireLease
<1>5. CASE BecomeDue(w)
  <2>1. Store(w, [website[w] EXCEPT !.due = TRUE])
    BY <1>5 DEF BecomeDue
  <2> QED BY <1>1, <1>3, <2>1 DEF LeaseKept, WebsiteDoc
<1>6. CASE CreateWebsite(w)
  BY <1>3, <1>6 DEF CreateWebsite
<1>7. CASE (\E enabled \in BOOLEAN : SetMonitoring(w, enabled)) \/ CommitUrlEdit(w)
  <2>1. ASSUME NEW d, Store(w, d), d.life = website[w].life,
               d.lease = website[w].lease
        PROVE  LeaseKept(w) /\ \A v \in Websites \ {w} : LeaseKept(v)
    BY <1>3, <2>1 DEF LeaseKept
  <2>2. ASSUME NEW s
        PROVE  /\ Restarted(website[w], s).life = website[w].life
               /\ Restarted(website[w], s).lease = website[w].lease
    BY <1>1 DEF Restarted, WebsiteDoc
  <2>3. ASSUME NEW s, NEW b
        PROVE  LET e == [Restarted(website[w], s) EXCEPT !.enabled = b]
               IN  e.life = website[w].life /\ e.lease = website[w].lease
    BY <1>1 DEF Restarted, WebsiteDoc
  <2>4. CASE \E enabled \in BOOLEAN : SetMonitoring(w, enabled)
    <3>1. PICK s, b : Store(w, [Restarted(website[w], s) EXCEPT !.enabled = b])
      BY <2>4 DEF SetMonitoring
    <3> QED BY <2>1, <2>3, <3>1
  <2>5. CASE CommitUrlEdit(w)
    <3>1. UNCHANGED website \/ \E s : Store(w, Restarted(website[w], s))
      BY <2>5 DEF CommitUrlEdit
    <3>2. CASE \E s : Store(w, Restarted(website[w], s))
      <4>1. PICK s : Store(w, Restarted(website[w], s))
        BY <3>2
      <4> QED BY <2>1, <2>2, <4>1
    <3> QED BY <1>2, <3>1, <3>2
  <2> QED BY <1>7, <2>4, <2>5
<1>8. CASE \E f \in FailureThresholds, r \in RecoveryThresholds :
             EditThresholds(w, f, r)
  <2>1. PICK f \in FailureThresholds, r \in RecoveryThresholds :
          EditThresholds(w, f, r)
    BY <1>8
  <2> DEFINE edited == [website[w] EXCEPT !.failureThreshold = f,
                                          !.recoveryThreshold = r]
  <2>2. Store(w, edited)
    BY <2>1 DEF EditThresholds
  <2>3. edited.life = website[w].life /\ edited.lease = website[w].lease
    BY <1>1 DEF WebsiteDoc
  <2> HIDE DEF edited
  <2>4. website'[w] = edited /\ \A v \in Websites \ {w} : LeaseKept(v)
    BY <1>3, <2>2
  <2> QED BY <2>3, <2>4 DEF LeaseKept
<1>9. CASE DeleteWebsite(w)
  <2> DEFINE gone == [website[w] EXCEPT !.life = "deleted"]
  <2>1. Store(w, gone)
    BY <1>9 DEF DeleteWebsite
  <2>2. gone.life = "deleted"
    BY <1>1 DEF WebsiteDoc
  <2> HIDE DEF gone
  <2>3. website'[w] = gone /\ \A v \in Websites \ {w} : LeaseKept(v)
    BY <1>3, <2>1
  <2> QED BY <2>2, <2>3
<1> QED
  BY <1>2, <1>4, <1>5, <1>6, <1>7, <1>8, <1>9
  DEF ApiStep, BeginUrlEdit, RefuseUrlEdit, PurgeIncidents, PurgeChecks, PurgeFails

LEMMA StepLease ==
  "overlap" \notin Disturbances /\ Typed /\ LeaseInv /\ [Next]_vars => LeaseInv'
<1> SUFFICES ASSUME "overlap" \notin Disturbances, Typed, LeaseInv, [Next]_vars
             PROVE  LeaseInv'
  OBVIOUS
<1> USE DEF At, Live
<1>1. CASE UNCHANGED vars
  BY <1>1 DEF LeaseInv, LeaseExclusion, vars
<1>2. ASSUME NEW p \in Workers, Crash(p) PROVE LeaseInv'
  <2>1. /\ UNCHANGED website
        /\ \A q \in Workers, v \in Websites :
             pc'[q][v] # "idle" => pc[q][v] # "idle"
    BY <1>2, CrashFrame
  <2> QED BY <2>1 DEF LeaseInv, LeaseExclusion
<1>3. ASSUME NEW p \in Workers, NEW w \in Websites, PipelineMove(p, w)
      PROVE  LeaseInv'
  <2>1. \A q \in Workers, v \in Websites :
          <<q, v>> # <<p, w>> => pc'[q][v] = pc[q][v]
    BY <1>3, MoveFrame DEF OthersKept
  <2>2. \A v \in Websites \ {w} : website'[v] = website[v]
    BY <1>3, MoveLease
  <2>3. CASE /\ Live(w) /\ website[w].lease # "held"
             /\ website'[w].life = "live" /\ website'[w].lease = "held"
    BY <2>1, <2>2, <2>3 DEF LeaseInv, LeaseExclusion
  <2>4. CASE pc[p][w] # "idle" /\ pc'[p][w] = "idle"
    BY <2>1, <2>2, <2>4 DEF LeaseInv, LeaseExclusion
  <2>5. CASE pc[p][w] # "idle" /\ LeaseKept(w)
    BY <2>1, <2>2, <2>5 DEF LeaseInv, LeaseExclusion, LeaseKept
  <2> QED BY <1>3, <2>3, <2>4, <2>5, MoveLease
<1>4. ASSUME NEW w \in Websites, ExpireLease(w) \/ BecomeDue(w) \/ ApiStep(w)
      PROVE  LeaseInv'
  <2>1. UNCHANGED pc
    BY <1>4 DEF ApiStep, ExpireLease, BecomeDue, CreateWebsite, SetMonitoring,
       BeginUrlEdit, CommitUrlEdit, RefuseUrlEdit, EditThresholds, DeleteWebsite,
       PurgeIncidents, PurgeChecks, PurgeFails
  <2>2. \A v \in Websites :
          \/ LeaseKept(v) \/ Quiet(v) \/ website[v].life = "absent"
          \/ website'[v].life = "deleted"
    BY <1>4, OtherLease
  <2> QED BY <2>1, <2>2 DEF LeaseInv, LeaseExclusion, LeaseKept, Quiet
<1> QED BY <1>1, <1>2, <1>3, <1>4 DEF Next, PipelineMove

(* Where a lease outlasts every check, no two workers are ever inside the  *)
(* same website, through crashes, failed releases and edits.               *)
THEOREM LeaseExcludes ==
  ASSUME "overlap" \notin Disturbances
  PROVE  Spec => []LeaseExclusion
<1>1. Init => LeaseInv
  BY DEF Init, LeaseInv, LeaseExclusion, At
<1>2. Typed /\ LeaseInv /\ [Next]_vars => LeaseInv'
  BY StepLease
<1>3. LeaseInv => LeaseExclusion
  BY DEF LeaseInv
<1> QED BY <1>1, <1>2, <1>3, AlwaysTyped, PTL DEF Spec

-----------------------------------------------------------------------------
(***************************************************************************)
(* Module Monitoring implements the incident log of module IncidentLog.    *)
(***************************************************************************)

(* The log a reader sees, and what one incident document shows of it.      *)
View == [i \in Incidents |-> LogOf(i)]
FlagsOf(d) ==
  {a \in Announcements : IF a = "down" THEN d.downNotified ELSE d.recoveryNotified}
EntryOf(d) == [status |-> d.status, site |-> d.site, announced |-> FlagsOf(d)]

LEMMA ViewOfIncidents == View = [i \in Incidents |-> EntryOf(incident[i])]
BY DEF View, EntryOf, FlagsOf, LogOf,
     Notified

(* Replacing an incident document replaces its entry.                      *)
LEMMA RecordView ==
  ASSUME Typed, NEW i \in Incidents, NEW d, Record(i, d)
  PROVE  View' = [View EXCEPT ![i] = EntryOf(d)]
<1>1. /\ DOMAIN incident = Incidents
      /\ incident' = [incident EXCEPT ![i] = d]
  BY DEF Typed, TypeOK, Record
<1>2. View' = [j \in Incidents |-> EntryOf(incident'[j])]
  BY DEF View, EntryOf, FlagsOf, LogOf,
     Notified
<1> QED BY <1>1, <1>2, ViewOfIncidents

LEMMA EntryFields ==
  ASSUME Typed, NEW i \in Incidents
  PROVE  /\ View[i] = EntryOf(incident[i])
         /\ View[i].status = incident[i].status
         /\ View[i].site = incident[i].site
         /\ View[i].announced = {a \in Announcements : Notified(i, a)}
BY DEF View, EntryOf, FlagsOf, LogOf,
     Notified

LEMMA OpenImplements ==
  ASSUME Typed, NEW p \in Workers, NEW w \in Websites, OpenIncident(p, w)
  PROVE  \E i \in Incidents : Log!OpenEntry(i, w)
<1>1. PICK i \in Incidents :
        /\ incident[i].status = "unused" /\ OpenOn(w) = {}
        /\ Record(i, [incident[i] EXCEPT !.status = "open", !.site = w,
                                         !.failedChecks = ctx[p][w].failures])
  BY OpenEffect
<1> DEFINE d == [incident[i] EXCEPT !.status = "open", !.site = w,
                                    !.failedChecks = ctx[p][w].failures]
<1>2. EntryOf(d) = [status |-> "open", site |-> w,
                    announced |-> FlagsOf(incident[i])]
  <2>1. /\ d.status = "open" /\ d.site = w
        /\ d.downNotified = incident[i].downNotified
        /\ d.recoveryNotified = incident[i].recoveryNotified
    BY Parts DEF IncidentDoc
  <2> HIDE DEF d
  <2>2. FlagsOf(d) = FlagsOf(incident[i])
    BY <2>1 DEF FlagsOf
  <2> QED BY <2>1, <2>2 DEF EntryOf
<1> HIDE DEF d
<1>3. View' = [View EXCEPT ![i] = EntryOf(d)]
  BY <1>1, RecordView DEF d
<1>4. View' = [View EXCEPT ![i] = [status |-> "open", site |-> w,
                                   announced |-> @.announced]]
  <2>1. View[i].announced = FlagsOf(incident[i])
    <3>1. View[i] = EntryOf(incident[i])
      BY EntryFields
    <3> QED BY <3>1 DEF EntryOf
  <2> QED BY <1>2, <1>3, <2>1
<1>5. \A j \in Incidents : View[j].status = "open" => View[j].site # w
  BY <1>1, EntryFields DEF OpenOn
<1>6. View[i].status = "unused"
  BY <1>1, EntryFields
<1> QED BY <1>4, <1>5, <1>6 DEF Log!OpenEntry, View

LEMMA CloseImplements ==
  ASSUME Typed, NEW p \in Workers, NEW w \in Websites, CloseIncident(p, w)
  PROVE  UNCHANGED View \/ \E i \in Incidents : Log!ResolveEntry(i)
<1>1. CASE UNCHANGED incident
  BY <1>1 DEF View, LogOf, Notified
<1> DEFINE i == ctx[p][w].current
           d == [incident[i] EXCEPT !.status = "resolved"]
<1>2. CASE incident[i].status = "open" /\ Record(i, d)
  <2>1. i \in Incidents
    BY CloseEffect
  <2>2. EntryOf(d) = [EntryOf(incident[i]) EXCEPT !.status = "resolved"]
    <3>1. /\ d.status = "resolved" /\ d.site = incident[i].site
          /\ d.downNotified = incident[i].downNotified
          /\ d.recoveryNotified = incident[i].recoveryNotified
      BY <2>1, Parts DEF IncidentDoc
    <3>2. FlagsOf(d) = FlagsOf(incident[i])
      BY <3>1 DEF FlagsOf
    <3> QED BY <3>1, <3>2 DEF EntryOf
  <2> HIDE DEF d, i
  <2>3. View' = [View EXCEPT ![i] = EntryOf(d)]
    BY <1>2, <2>1, RecordView
  <2>4. View' = [View EXCEPT ![i].status = "resolved"]
    BY <2>1, <2>2, <2>3, EntryFields
  <2>5. View[i].status = "open"
    BY <1>2, <2>1, EntryFields
  <2> QED BY <2>1, <2>4, <2>5 DEF Log!ResolveEntry, View
<1> QED BY <1>1, <1>2, CloseEffect

(* The count of failed checks is no part of the log.                       *)
LEMMA CountImplements ==
  ASSUME Typed, NEW p \in Workers, NEW w \in Websites, CountFailure(p, w)
  PROVE  UNCHANGED View
<1>1. CASE UNCHANGED incident
  BY <1>1 DEF View, LogOf, Notified
<1> DEFINE i == ctx[p][w].current
           d == [incident[i] EXCEPT
                   !.failedChecks = Capped(incident[i].failedChecks + 1)]
<1>2. CASE Record(i, d)
  <2>1. i \in Incidents
    BY CountEffect
  <2>2. EntryOf(d) = EntryOf(incident[i])
    BY <2>1, Parts DEF IncidentDoc, EntryOf, FlagsOf
  <2> HIDE DEF d, i
  <2>3. View' = [View EXCEPT ![i] = EntryOf(d)]
    BY <1>2, <2>1, RecordView
  <2> QED BY <2>1, <2>2, <2>3, ViewOfIncidents, EntryFields DEF View
<1> QED BY <1>1, <1>2, CountEffect

(* A claimed flag is an announcement; that a recovery is announced only of *)
(* a resolved incident is NoticeSound.                                     *)
LEMMA DispatchImplements ==
  ASSUME Typed, NoticeSound, NEW p \in Workers, NEW w \in Websites,
         ClaimDispatch(p, w)
  PROVE  \/ UNCHANGED View
         \/ \E i \in Incidents, e \in Log!Events : Log!AnnounceEntry(i, e)
<1>1. CASE UNCHANGED incident
  BY <1>1 DEF View, LogOf, Notified
<1> DEFINE i == ctx[p][w].subject
           a == ctx[p][w].notice
           d == WithFlag(incident[i], a)
<1>2. CASE incident[i].status # "deleted" /\ ~Notified(i, a) /\ Record(i, d)
  <2>1. i \in Incidents /\ a \in Announcements /\ a \in {"down", "recovered"}
    BY DispatchEffect DEF Announcements
  <2>2. /\ a = "down" => incident[i].status # "unused"
        /\ a = "recovered" => incident[i].status \in {"resolved", "deleted"}
    BY DEF NoticeSound
  <2>3. incident[i] \in IncidentDoc
    BY <2>1, Parts
  <2>4. EntryOf(d) = [EntryOf(incident[i]) EXCEPT !.announced = @ \cup {a}]
    <3> HIDE DEF i, a
    <3>1. /\ d.status = incident[i].status /\ d.site = incident[i].site
          /\ d.downNotified = (a = "down" \/ incident[i].downNotified)
          /\ d.recoveryNotified = (a # "down" \/ incident[i].recoveryNotified)
      BY <2>3 DEF WithFlag, IncidentDoc
    <3> HIDE DEF d
    <3>2. FlagsOf(d) = FlagsOf(incident[i]) \cup {a}
      BY <2>1, <3>1 DEF FlagsOf, Announcements
    <3> QED BY <3>1, <3>2 DEF EntryOf
  <2> HIDE DEF d, i, a
  <2>5. View' = [View EXCEPT ![i] = EntryOf(d)]
    BY <1>2, <2>1, RecordView
  <2>6. View' = [View EXCEPT ![i].announced = @ \cup {a}]
    <3>1. View[i] = EntryOf(incident[i])
      BY <2>1, EntryFields
    <3>2. EntryOf(d) = [View[i] EXCEPT !.announced = View[i].announced \cup {a}]
      BY <2>4, <3>1
    <3> QED BY <2>5, <3>2
  <2>7. a \notin View[i].announced
    BY <1>2, <2>1, EntryFields
  <2>8. View[i].status \in (IF a = "down" THEN {"open", "resolved"} ELSE {"resolved"})
    BY <1>2, <2>1, <2>2, <2>3, EntryFields DEF IncidentDoc
  <2>9. a \in Log!Events
    BY <2>1 DEF Log!Events
  <2> QED BY <2>1, <2>6, <2>7, <2>8, <2>9 DEF Log!AnnounceEntry, View
<1> QED BY <1>1, <1>2, DispatchEffect

LEMMA PurgeImplements ==
  ASSUME Typed, NEW w \in Websites, PurgeIncidents(w)
  PROVE  Log!ForgetSite(w)
<1> DEFINE doc(i) == [incident[i] EXCEPT !.status = "deleted"]
<1>1. \A i \in Incidents :
        incident'[i] = IF incident[i].site = w THEN doc(i) ELSE incident[i]
  BY DEF PurgeIncidents
<1>2. \A i \in Incidents :
        EntryOf(doc(i)) = [EntryOf(incident[i]) EXCEPT !.status = "deleted"]
  <2> SUFFICES ASSUME NEW i \in Incidents
               PROVE  EntryOf(doc(i)) = [EntryOf(incident[i]) EXCEPT !.status = "deleted"]
    OBVIOUS
  <2>1. /\ doc(i).status = "deleted" /\ doc(i).site = incident[i].site
        /\ doc(i).downNotified = incident[i].downNotified
        /\ doc(i).recoveryNotified = incident[i].recoveryNotified
    BY Parts DEF IncidentDoc
  <2> HIDE DEF doc
  <2>2. FlagsOf(doc(i)) = FlagsOf(incident[i])
    BY <2>1 DEF FlagsOf
  <2> QED BY <2>1, <2>2 DEF EntryOf
<1> HIDE DEF doc
<1>3. View' = [i \in Incidents |-> EntryOf(incident'[i])]
  BY DEF View, EntryOf, FlagsOf, LogOf,
     Notified
<1>4. View' = [i \in Incidents |->
                IF View[i].site = w THEN [View[i] EXCEPT !.status = "deleted"]
                ELSE View[i]]
  BY <1>1, <1>2, <1>3, EntryFields
<1> QED BY <1>4 DEF Log!ForgetSite, View

LEMMA InitImplements == Init => Log!LogInit
<1> SUFFICES ASSUME Init PROVE Log!LogInit
  OBVIOUS
<1>1. \A i \in Incidents :
        incident[i] = [status |-> "unused", site |-> NoWebsite, failedChecks |-> 0,
                       downNotified |-> FALSE, recoveryNotified |-> FALSE]
  BY DEF Init
<1>2. ASSUME NEW i \in Incidents PROVE ~\E a \in Announcements : Notified(i, a)
  BY <1>1 DEF Notified
<1>3. \A i \in Incidents :
        LogOf(i) = [status |-> "unused", site |-> NoWebsite, announced |-> {}]
  BY <1>1, <1>2 DEF LogOf
<1> QED BY <1>3 DEF Log!LogInit

LEMMA StepImplements ==
  Typed /\ NoticeInv /\ [Next]_vars => [Log!LogNext]_View
<1> SUFFICES ASSUME Typed, NoticeInv, [Next]_vars
             PROVE  Log!LogNext \/ UNCHANGED View
  OBVIOUS
<1>1. CASE UNCHANGED incident
  BY <1>1 DEF View, LogOf, Notified
<1>2. ASSUME NEW p \in Workers, NEW w \in Websites,
             \/ OpenIncident(p, w) \/ CloseIncident(p, w)
             \/ CountFailure(p, w) \/ ClaimDispatch(p, w)
      PROVE  Log!LogNext \/ UNCHANGED View
  BY <1>2, OpenImplements, CloseImplements, CountImplements, DispatchImplements
  DEF Log!LogNext, NoticeInv
<1>3. ASSUME NEW w \in Websites, PurgeIncidents(w) PROVE Log!LogNext
  BY <1>3, PurgeImplements DEF Log!LogNext
<1> QED BY <1>1, <1>2, <1>3, IncidentWriters

(* To a reader of the incidents collection every worker, crash and edit is *)
(* the abstract log: one open incident per website, resolved once, each    *)
(* event announced once and a recovery only of what is resolved.           *)
THEOREM LogImplemented == Spec => ImplementsLog
<1>1. Typed /\ NoticeInv /\ [Next]_vars
        => [Log!LogNext]_[i \in Incidents |-> LogOf(i)]
  BY StepImplements DEF View
<1> QED
  BY <1>1, InitImplements, AlwaysTyped, AlwaysNotice, PTL
  DEF Spec, ImplementsLog, Log!LogSpec

-----------------------------------------------------------------------------
(* Progress of a pipeline.                                                 *)

(* The calls to the database a pipeline still makes at most, by its place. *)
CallsFrom ==
  [idle |-> 0, releasing |-> 1, sending |-> 2, notifying |-> 3, saving |-> 4,
   counting |-> 5, closing |-> 5, adopting |-> 5, resolving |-> 6, opening |-> 6,
   checking |-> 7]
CallsLeft(p, w) == CallsFrom[pc[p][w]]

(* A step that moves one pipeline from one place to a later one.           *)
LEMMA GoneOn ==
  ASSUME TypeOK, NEW p \in Workers, NEW w \in Websites, NEW l \in PipelineStates, Goto(p, w, l)
  PROVE  /\ CallsLeft(p, w)' = CallsFrom[l]
         /\ \A q \in Workers, v \in Websites :
              <<q, v>> # <<p, w>> => CallsLeft(q, v)' = CallsLeft(q, v)
BY DEF TypeOK, Goto, CallsLeft

LEMMA DecisionAdvances ==
  ASSUME NEW t \in {"none", "open", "resolve", "ongoing"}, NEW ok \in BOOLEAN
  PROVE  AfterDecision(t, ok) \in {"saving", "opening", "resolving", "counting"}
BY DEF AfterDecision

LEMMA StepsAdvance ==
  ASSUME TypeOK, NEW p \in Workers, NEW w \in Websites,
         PipelineStep(p, w) \/ PipelineFault(p, w)
  PROVE  \E l \in PipelineStates : Goto(p, w, l) /\ CallsFrom[l] < CallsLeft(p, w)
<1>1. ASSUME NEW o \in CheckOutcomes, RecordCheck(p, w, o)
      PROVE  \E l \in PipelineStates : Goto(p, w, l) /\ CallsFrom[l] < CallsLeft(p, w)
  <2>1. PICK t \in {"none", "open", "resolve", "ongoing"} :
          Goto(p, w, AfterDecision(t, IsSuccessfulCheck(o)))
    BY <1>1 DEF RecordCheck, DecideIncidentTransition
  <2>2. IsSuccessfulCheck(o) \in BOOLEAN
    BY DEF IsSuccessfulCheck
  <2>3. AfterDecision(t, IsSuccessfulCheck(o)) \in {"saving", "opening", "resolving", "counting"}
    BY <2>1, <2>2, DecisionAdvances
  <2>4. CallsLeft(p, w) = 7
    BY <1>1 DEF RecordCheck, At, CallsLeft, CallsFrom
  <2> QED BY <2>1, <2>3, <2>4 DEF CallsFrom, PipelineStates
<1>2. CASE OpenIncident(p, w)
  BY <1>2 DEF OpenIncident, At, CallsLeft, CallsFrom, PipelineStates
<1>3. CASE OpenLosesRace(p, w)
  BY <1>3 DEF OpenLosesRace, At, CallsLeft, CallsFrom, PipelineStates
<1>4. CASE AdoptIncident(p, w)
  BY <1>4 DEF AdoptIncident, At, CallsLeft, CallsFrom, PipelineStates
<1>5. CASE ReadIncident(p, w)
  BY <1>5 DEF ReadIncident, At, CallsLeft, CallsFrom, PipelineStates
<1>6. CASE CloseIncident(p, w)
  BY <1>6 DEF CloseIncident, At, CallsLeft, CallsFrom, PipelineStates
<1>7. CASE CountFailure(p, w)
  BY <1>7 DEF CountFailure, At, CallsLeft, CallsFrom, PipelineStates
<1>8. CASE SaveWebsite(p, w)
  BY <1>8 DEF SaveWebsite, At, CallsLeft, CallsFrom, PipelineStates
<1>9. CASE ClaimDispatch(p, w)
  BY <1>9 DEF ClaimDispatch, At, CallsLeft, CallsFrom, PipelineStates
<1>10. CASE SendNotice(p, w)
  BY <1>10 DEF SendNotice, At, CallsLeft, CallsFrom, PipelineStates
<1>11. CASE Release(p, w)
  BY <1>11 DEF Release, At, CallsLeft, CallsFrom, PipelineStates
<1>12. CASE ReleaseFails(p, w)
  BY <1>12 DEF ReleaseFails, At, CallsLeft, CallsFrom, PipelineStates
<1>13. CASE AbandonPipeline(p, w)
  <2>1. pc[p][w] \in PipelineStates \ {"idle", "releasing"}
    BY <1>13 DEF AbandonPipeline, TypeOK
  <2>2. CallsFrom["releasing"] < CallsLeft(p, w)
    BY <2>1 DEF CallsLeft, CallsFrom, PipelineStates
  <2> QED BY <1>13, <2>2 DEF AbandonPipeline, PipelineStates
<1> QED BY <1>1, <1>2, <1>3, <1>4, <1>5, <1>6, <1>7, <1>8, <1>9, <1>10, <1>11, <1>12, <1>13
        DEF PipelineStep, PipelineFault

(* What every step does to a pipeline that is inside a website.            *)
LEMMA CallsRunOut ==
  ASSUME TypeOK, [Next]_vars, NEW p \in Workers, NEW w \in Websites, ~At(p, w, "idle")
  PROVE  /\ CallsLeft(p, w)' <= CallsLeft(p, w)
         /\ PipelineStep(p, w) \/ PipelineFault(p, w) => CallsLeft(p, w)' < CallsLeft(p, w)
<1>1. CallsLeft(p, w) \in 0..7
  BY DEF TypeOK, PipelineStates, CallsLeft, CallsFrom
<1>2. CASE PipelineStep(p, w) \/ PipelineFault(p, w)
  <2>1. PICK l \in PipelineStates : Goto(p, w, l) /\ CallsFrom[l] < CallsLeft(p, w)
    BY <1>2, StepsAdvance
  <2>2. CallsLeft(p, w)' = CallsFrom[l] /\ CallsFrom[l] \in 0..7
    BY <2>1, GoneOn DEF PipelineStates, CallsFrom
  <2> QED BY <1>1, <2>1, <2>2
<1>3. ASSUME ~(PipelineStep(p, w) \/ PipelineFault(p, w))
      PROVE  CallsLeft(p, w)' \in {0, CallsLeft(p, w)}
  <2>1. CASE UNCHANGED pc
    BY <2>1 DEF CallsLeft
  <2>2. ASSUME NEW q \in Workers, NEW v \in Websites,
               Claim(q, v) \/ PipelineStep(q, v) \/ PipelineFault(q, v)
        PROVE  CallsLeft(p, w)' = CallsLeft(p, w)
    <3>1. PICK l \in PipelineStates : Goto(q, v, l)
      <4>1. CASE Claim(q, v)
        BY <4>1 DEF Claim, PipelineStates
      <4> QED BY <2>2, <4>1, StepsAdvance
    <3>2. <<q, v>> # <<p, w>>
      BY <1>3, <2>2 DEF Claim
    <3> QED BY <3>1, <3>2, GoneOn
  <2>3. ASSUME NEW q \in Workers, Crash(q) PROVE CallsLeft(p, w)' \in {0, CallsLeft(p, w)}
    <3>1. pc' = [pc EXCEPT ![q] = [v \in Websites |-> "idle"]]
      BY <2>3 DEF Crash
    <3>2. CASE q = p
      <4>1. pc'[p][w] = "idle"
        BY <3>1, <3>2 DEF TypeOK
      <4> QED BY <4>1 DEF CallsLeft, CallsFrom
    <3>3. CASE q # p
      <4>1. pc'[p][w] = pc[p][w]
        BY <3>1, <3>3 DEF TypeOK
      <4> QED BY <4>1 DEF CallsLeft
    <3> QED BY <3>2, <3>3
  <2>4. ASSUME NEW v \in Websites, ExpireLease(v) \/ BecomeDue(v) \/ ApiStep(v)
        PROVE  UNCHANGED pc
    BY <2>4, Zenon DEF ApiStep, ExpireLease, BecomeDue, CreateWebsite, SetMonitoring, BeginUrlEdit,
       CommitUrlEdit, RefuseUrlEdit, EditThresholds, DeleteWebsite, PurgeIncidents, PurgeChecks,
       PurgeFails
  <2> QED BY <2>1, <2>2, <2>3, <2>4 DEF Next, vars
<1> QED BY <1>1, <1>2, <1>3

(* A pipeline that has claimed a website makes at most seven calls before  *)
(* it is through with it, whatever other pipelines, crashes and edits do   *)
(* meanwhile: it never goes back and retries nothing (check-runner.ts,     *)
(* result-processor.ts), and no other pipeline's step gives it more to do. *)
(* It is the part of NeverStranded that needs no fairness.                 *)
THEOREM PipelinesAdvance ==
  Spec => [][\A p \in Workers, w \in Websites :
               ~At(p, w, "idle") =>
                 /\ CallsLeft(p, w) <= 7
                 /\ CallsLeft(p, w)' <= CallsLeft(p, w)
                 /\ PipelineStep(p, w) \/ PipelineFault(p, w) =>
                      CallsLeft(p, w)' < CallsLeft(p, w)]_vars
<1>1. TypeOK => \A p \in Workers, w \in Websites : CallsLeft(p, w) <= 7
  BY DEF TypeOK, PipelineStates, CallsLeft, CallsFrom
<1>2. TypeOK /\ [Next]_vars =>
        [\A p \in Workers, w \in Websites :
           ~At(p, w, "idle") =>
             /\ CallsLeft(p, w) <= 7
             /\ CallsLeft(p, w)' <= CallsLeft(p, w)
             /\ PipelineStep(p, w) \/ PipelineFault(p, w) =>
                  CallsLeft(p, w)' < CallsLeft(p, w)]_vars
  BY <1>1, CallsRunOut
<1> QED BY <1>2, TypeCorrect, PTL DEF Spec
=============================================================================
