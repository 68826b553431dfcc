----------------------------- MODULE MCServices ------------------------------
(***************************************************************************)
(* The components around the monitoring pipeline for TLC, one of them in a *)
(* behaviour: the others keep the values they start with.                  *)
(***************************************************************************)
EXTENDS Notifications, WebsiteUrls, HttpCheck, WorkerLifecycle, Navigation, Dashboard,
        IncidentFeed, WebsiteTable, RateLimiter, Statistics, TLC

VARIABLE part  \* the component of this behaviour

Components == {"notify", "rules", "http", "worker", "nav", "dash", "feed", "table", "limiter",
               "stats"}

\* The people are alike but for who is a member at the start, and so are the runs that
\* rest: the one edit MaxChanges allows is about a fixed person, a fixed run claims next.
Editor == CHOOSE u \in People : TRUE
NextRun == CHOOSE d \in Dispatchers : Waits(d, "idle")
UpToRenaming ==
  /\ \A u \in People \ {Editor} : settings'[u] = settings[u] /\ (u \in joined' <=> u \in joined)
  /\ \A d \in Dispatchers : Waits(d, "idle") /\ dispatch'[d].at # "idle" => d = NextRun

\* A component that is not followed stays where it starts, in one of its initial states.
Init ==
  /\ part \in Components
  /\ NotifyInit /\ (part # "notify" => joined = {})
  /\ HttpInit /\ (part # "http" => ~allowLoopback /\ origin = "name")
  /\ WorkerInit
  /\ NavInit /\ (part # "nav" => account = "none" /\ invite = "none")
  /\ DashInit /\ (part # "dash" => view.on = "overview" /\ view.role = "member")
  /\ view.role = "admin" => view.on = "members"  \* elsewhere an owner does the same
  /\ FeedInit /\ (part # "feed" => started = <<>>)
  /\ TableInit /\ (part # "table" => sites.all = 0)
  /\ LimiterInit /\ (part # "limiter" => followed = CHOOSE key \in Keys : TRUE)
  /\ StatsInit /\ (part # "stats" => recorded = [c \in Slots |-> "none"])
  /\ IF part = "rules" THEN RulesInit ELSE asked = [version |-> 0] /\ answer = <<>>

Next ==
  /\ UNCHANGED part
  /\ \/ part = "notify" /\ NotifyNext /\ UpToRenaming
     \/ part = "rules" /\ RulesNext
     \/ part = "http" /\ HttpNext
     \/ part = "worker" /\ WorkerNext
     \/ part = "nav" /\ NavNext
     \/ part = "dash" /\ DashNext
     \/ part = "feed" /\ FeedNext
     \/ part = "table" /\ TableNext
     \/ part = "limiter" /\ LimiterNext
     \/ part = "stats" /\ StatsNext
  /\ part # "notify" => UNCHANGED notifyVars
  /\ part # "rules" => UNCHANGED ruleVars
  /\ part # "http" => UNCHANGED httpVars
  /\ part # "worker" => UNCHANGED workerVars
  /\ part # "nav" => UNCHANGED navVars
  /\ part # "dash" => UNCHANGED dashVars
  /\ part # "feed" => UNCHANGED feedVars
  /\ part # "table" => UNCHANGED tableVars
  /\ part # "limiter" => UNCHANGED limiterVars
  /\ part # "stats" => UNCHANGED statsVars

vars == <<part, notifyVars, ruleVars, httpVars, workerVars, navVars, dashVars, feedVars,
          tableVars, limiterVars, statsVars>>

Spec == Init /\ [][Next]_vars /\ WorkerFairness /\ NavFairness

\* The variables of every component have their types.
ServicesTypeOK ==
  /\ part \in Components
  /\ NotifyTypeOK /\ HttpTypeOK /\ WorkerTypeOK /\ NavTypeOK /\ DashTypeOK /\ FeedTypeOK
  /\ TableTypeOK /\ LimiterTypeOK /\ StatsTypeOK
=============================================================================
