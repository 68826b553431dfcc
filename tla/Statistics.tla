----------------------------- MODULE Statistics -----------------------------
(***************************************************************************)
(* The figures of the dashboard (shared/src/uptime.ts, stats.service.ts,   *)
(* check.repository.ts): totals of the checks in a window, the same in     *)
(* buckets for the chart, and the totals of all websites in one figure,    *)
(* while websites are deleted before their checks are.  One question is    *)
(* asked in a behaviour.                                                   *)
(***************************************************************************)
EXTENDS Integers, FiniteSetsExt

CONSTANTS
  Full,      \* a hundred percent, in hundredths of a percent
  Interval   \* monitoringIntervalSeconds

ASSUME StatisticsAssumption == Full \in Nat \ {0} /\ Interval \in Nat \ {0}

VARIABLES
  recorded,  \* the check documents: slot (website, time) -> outcome, or "none"
  live,      \* the websites that are not deleted
  figures    \* the answer, [of |-> "nothing"] before

statsVars == <<recorded, live, figures>>

Slots == ({"a"} \X (1..4)) \cup {<<"b", 3>>}
Websites == {"a", "b"}
Now == 4
Ms == [fast |-> 1, slow |-> 2]      \* the response times of successful checks
Null == -1
Unasked == [of |-> "nothing"]

Ranges == {"day", "month"}
windowStart(range) == IF range = "day" THEN Now - 2 ELSE Now - 4
bucketSizeFor(range) == IF range = "day" THEN 1 ELSE 2

StatsInit ==
  /\ recorded \in [Slots -> {"none", "failed", "fast", "slow"}]
  /\ live = Websites
  /\ figures = Unasked

----------------------------------------------------------------------------
(* Arithmetic.                                                             *)

\* Math.round of p/q.
Rounded(p, q) == (2 * p + q) \div (2 * q)

\* Mutant of calculateUptimePercentage: the percentage is rounded, not floored.
RoundedPercentage(successful, total) ==
  IF total = 0 THEN Null
  ELSE IF successful >= total THEN Full ELSE Rounded(successful * Full, total)

\* Nothing measured is no percentage, and the rest is floored at the second decimal.
calculateUptimePercentage(successful, total) ==
  IF total = 0 THEN Null
  ELSE IF successful >= total THEN Full ELSE (successful * Full) \div total

estimateDowntime(failed) == failed * Interval

\* The accumulators of every aggregation: response times of successful checks alone.
Successful(checks) == {c \in checks : recorded[c] \in DOMAIN Ms}
TotalMs(checks) == SumFunction([c \in Successful(checks) |-> Ms[recorded[c]]])
Totals(checks) ==
  LET up == Successful(checks)
      times == {Ms[recorded[c]] : c \in up}
  IN [total |-> Cardinality(checks), up |-> Cardinality(up),
      average |-> IF up = {} THEN Null ELSE Rounded(TotalMs(checks), Cardinality(up)),
      fastest |-> IF up = {} THEN Null ELSE Min(times),
      slowest |-> IF up = {} THEN Null ELSE Max(times)]

ChecksOf(sites, since) ==
  {c \in Slots : recorded[c] # "none" /\ c[1] \in sites /\ c[2] >= since}

\* $group by the time floored onto the grid; a bucket without checks is absent.
BucketOf(c, size) == c[2] - (c[2] % size)
bucketsFor(checks, size) ==
  {[start |-> start, totals |-> Totals({c \in checks : BucketOf(c, size) = start})] :
     start \in {BucketOf(c, size) : c \in checks}}

\* One figure out of the totals of each website, weighted by its successful checks.
combineTotals(totals) ==
  LET total == SumFunction([site \in DOMAIN totals |-> totals[site].total])
      up == SumFunction([site \in DOMAIN totals |-> totals[site].up])
      ms == SumFunction([site \in DOMAIN totals |->
                           IF totals[site].up > 0 THEN totals[site].average * totals[site].up ELSE 0])
  IN [total |-> total, up |-> up, average |-> IF up = 0 THEN Null ELSE Rounded(ms, up)]

----------------------------------------------------------------------------
(* The requests, each within the organization.                             *)

websiteStats(site, range) ==
  /\ figures = Unasked
  /\ site \in live
  /\ LET totals == Totals(ChecksOf({site}, windowStart(range)))
     IN figures' = [of |-> "website", site |-> site, range |-> range, totals |-> totals,
                    uptime |-> calculateUptimePercentage(totals.up, totals.total),
                    downtime |-> estimateDowntime(totals.total - totals.up)]
  /\ UNCHANGED <<recorded, live>>

websiteBuckets(site, range) ==
  /\ figures = Unasked
  /\ site \in live
  /\ figures' = [of |-> "buckets", site |-> site, range |-> range,
                 buckets |-> {[start |-> b.start, totals |-> b.totals,
                               uptime |-> calculateUptimePercentage(b.totals.up, b.totals.total)] :
                                b \in bucketsFor(ChecksOf({site}, windowStart(range)),
                                                 bucketSizeFor(range))}]
  /\ UNCHANGED <<recorded, live>>

\* totalsByWebsite groups the organization's checks by website: those of a deleted one too.
dashboardStats ==
  /\ figures = Unasked
  /\ LET since == windowStart("day")
         seen == {c[1] : c \in ChecksOf(Websites, since)}
         all == combineTotals([site \in seen |-> Totals(ChecksOf({site}, since))])
     IN figures' = [of |-> "all", totals |-> all,
                    uptime |-> calculateUptimePercentage(all.up, all.total)]
  /\ UNCHANGED <<recorded, live>>

\* A website goes first, and its checks some time later, or when they expire.
DeleteWebsite(site) ==
  /\ figures = Unasked
  /\ site \in live
  /\ live' = live \ {site}
  /\ UNCHANGED <<recorded, figures>>

PurgeChecks(site) ==
  /\ figures = Unasked
  /\ site \notin live
  /\ recorded' = [c \in Slots |-> IF c[1] = site THEN "none" ELSE recorded[c]]
  /\ UNCHANGED <<live, figures>>

StatsNext ==
  \/ \E site \in Websites, range \in Ranges : websiteStats(site, range) \/ websiteBuckets(site, range)
  \/ dashboardStats
  \/ \E site \in Websites : DeleteWebsite(site) \/ PurgeChecks(site)

StatsSpec == StatsInit /\ [][StatsNext]_statsVars

----------------------------------------------------------------------------
(* Properties.                                                             *)

\* The variables have their types.
StatsTypeOK ==
  /\ recorded \in [Slots -> {"none", "failed", "fast", "slow"}]
  /\ live \subseteq Websites
  /\ figures.of \in {"nothing", "website", "buckets", "all"}

\* A percentage is shown exactly when there are checks, and is a full one only when none of
\* them failed ("showing 100% for a website that had a failed check erodes trust").
Honest(uptime, checks) ==
  /\ uptime = Null <=> checks = {}
  /\ uptime = Full <=> checks # {} /\ \A c \in checks : recorded[c] # "failed"

\* The figures agree with the checks and with each other: percentages are honest, an average
\* lies between the fastest and the slowest, the buckets of the chart hold every check of the
\* window once, in their own span, and the average of all websites, which is made of rounded
\* averages, is at most a millisecond off.
FiguresAgree ==
  CASE figures.of = "website" ->
         LET checks == ChecksOf({figures.site}, windowStart(figures.range))
             totals == figures.totals
         IN /\ Honest(figures.uptime, checks)
            /\ totals.fastest <= totals.average /\ totals.average <= totals.slowest
            /\ figures.downtime = 0 <=> \A c \in checks : recorded[c] # "failed"
    [] figures.of = "buckets" ->
         LET checks == ChecksOf({figures.site}, windowStart(figures.range))
             size == bucketSizeFor(figures.range)
         IN /\ \A c \in checks : \E b \in figures.buckets : b.start <= c[2] /\ c[2] < b.start + size
            /\ \A b \in figures.buckets :
                 LET within == {c \in checks : b.start <= c[2] /\ c[2] < b.start + size}
                 IN b.totals.total = Cardinality(within) /\ Honest(b.uptime, within)
            /\ SumFunction([b \in figures.buckets |-> b.totals.up]) = Cardinality(Successful(checks))
    [] figures.of = "all" ->
         LET checks == ChecksOf(Websites, windowStart("day"))
             off == figures.totals.average * figures.totals.up - TotalMs(checks)
         IN /\ Honest(figures.uptime, checks)
            /\ figures.totals.up > 0 =>
                 off <= figures.totals.up /\ -off <= figures.totals.up
    [] OTHER -> TRUE
=============================================================================
