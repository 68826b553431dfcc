-------------------------- MODULE WorkerLifecycle --------------------------
(***************************************************************************)
(* The life of one worker process (apps/worker/src/main.ts) and the loop   *)
(* that feeds it (monitoring/scheduler-loop.ts, claimBatch): ticks, the    *)
(* batch of checks of a tick, the health server, the orderly shutdown and  *)
(* its watchdog, restarts.  What a check does is the subject of Monitoring *)
(* and HttpCheck; here it takes a lease and gives it back.                 *)
(***************************************************************************)
EXTENDS Integers, FiniteSets

CONSTANTS
  Sites,      \* websites that may be due
  BatchSize,  \* MONITOR_CONCURRENCY
  MaxStarts   \* BOUND: how often the platform starts the process

ASSUME WorkerAssumption ==
  /\ IsFiniteSet(Sites)
  /\ BatchSize \in Nat \ {0}
  /\ MaxStarts \in Nat \ {0}

VARIABLES
  process,   \* "booting", "running", "stuck" (alive and doing nothing), "exited"
  exit,      \* how the last process ended
  starts,    \* processes started (bound)
  timer,     \* SchedulerLoop.timer is armed
  stopping,  \* SchedulerLoop.stopping
  tick,      \* the tick in flight: "none", "claiming", "checking"
  shutdown,  \* where shutdown() waits: "no", "tick", "health", "database", "over"
  exitCode,  \* process.exitCode
  watchdog,  \* the watchdog of the shutdown is armed
  health,    \* the health server accepts connections
  probe,     \* a readiness probe in flight: "none", "pinging"
  due,       \* the websites whose nextCheckAt has passed
  leased,    \* the websites with a lease that has not expired
  work       \* Sites -> what the tick does with it: "none", "claimed", "checking"

workerVars == <<process, exit, starts, timer, stopping, tick, shutdown, exitCode, watchdog,
                health, probe, due, leased, work>>
loopVars == <<timer, stopping, tick>>
exitVars == <<process, exit, starts>>
shutdownVars == <<shutdown, exitCode, watchdog>>
siteVars == <<due, leased, work>>

InBatch == {s \in Sites : work[s] # "none"}
NoWork == [s \in Sites |-> "none"]

WorkerInit ==
  /\ process = "booting" /\ exit = "none" /\ starts = 1
  /\ timer = FALSE /\ stopping = FALSE /\ tick = "none"
  /\ shutdown = "no" /\ exitCode = 0 /\ watchdog = FALSE
  /\ health = FALSE /\ probe = "none"
  /\ due = Sites /\ leased = {} /\ work = NoWork

----------------------------------------------------------------------------
(* Start and end of the process.                                           *)

\* What a dead process leaves: nothing but the leases its checks held.
Ends(how) ==
  /\ process' = "exited"
  /\ exit' = how
  /\ timer' = FALSE /\ stopping' = FALSE /\ tick' = "none"
  /\ shutdown' = "no" /\ exitCode' = 0 /\ watchdog' = FALSE
  /\ health' = FALSE /\ probe' = "none"
  /\ work' = NoWork
  /\ UNCHANGED <<starts, due, leased>>

\* bootstrap, after the database connection: the health server, the loop's first timer
\* and the signal handlers, in one synchronous stretch.
Bootstrap ==
  /\ process = "booting"
  /\ process' = "running"
  /\ timer' = TRUE
  /\ health' = TRUE
  /\ UNCHANGED <<exit, starts, stopping, tick, shutdown, exitCode, watchdog, probe, due,
                 leased, work>>

\* The connection fails, or the index sync behind it does: the code is set, and in the
\* second case the pool that is open by then keeps a process alive that does nothing.
BootstrapFails ==
  /\ process = "booting"
  /\ \/ Ends("failed")
     \/ /\ process' = "stuck"
        /\ exitCode' = 1
        /\ UNCHANGED <<exit, starts, loopVars, shutdown, watchdog, health, probe, siteVars>>

Restart ==
  /\ process = "exited"
  /\ starts < MaxStarts
  /\ starts' = starts + 1
  /\ process' = "booting"
  /\ UNCHANGED <<exit, loopVars, shutdownVars, health, probe, siteVars>>

Killed ==
  /\ process # "exited"
  /\ Ends("killed")

----------------------------------------------------------------------------
(* The loop.                                                               *)

TimerFires ==
  /\ process = "running"
  /\ timer
  /\ timer' = FALSE
  /\ tick' = "claiming"
  /\ UNCHANGED <<exitVars, stopping, shutdownVars, health, probe, siteVars>>

\* claimBatch goes on to the next claimOne: one website, due and free.
Claimable == due \ leased
ClaimSite(s) ==
  /\ tick = "claiming"
  /\ Cardinality({r \in Sites : work[r] = "claimed"}) < BatchSize
  /\ s \in Claimable
  /\ leased' = leased \cup {s}
  /\ work' = [work EXCEPT ![s] = "claimed"]
  /\ UNCHANGED <<exitVars, loopVars, shutdownVars, health, probe, due>>

\* The batch is full or nothing is due: every claimed website is checked at once.
RunBatch ==
  /\ tick = "claiming"
  /\ Cardinality({r \in Sites : work[r] = "claimed"}) = BatchSize \/ Claimable = {}
  /\ tick' = "checking"
  /\ work' = [s \in Sites |-> IF work[s] = "claimed" THEN "checking" ELSE work[s]]
  /\ UNCHANGED <<exitVars, timer, stopping, shutdownVars, health, probe, due, leased>>

\* runTick and its finally: the tick is over, and the next one is scheduled unless the
\* loop is stopping.
TickOver ==
  /\ tick' = "none"
  /\ timer' = ~stopping
  /\ UNCHANGED <<exitVars, stopping, shutdownVars, health, probe>>

\* Mutant of ClaimFails: the failure ends the loop.
ClaimFailsForGood ==
  /\ tick = "claiming"
  /\ tick' = "none"
  /\ work' = [s \in Sites |-> IF work[s] = "claimed" THEN "none" ELSE work[s]]
  /\ UNCHANGED <<exitVars, timer, stopping, shutdownVars, health, probe, due, leased>>

\* A claimOne throws: what the batch had claimed is dropped with its leases, and the
\* loop goes on.
ClaimFails ==
  /\ tick = "claiming"
  /\ work' = [s \in Sites |-> IF work[s] = "claimed" THEN "none" ELSE work[s]]
  /\ TickOver
  /\ UNCHANGED <<due, leased>>

\* runCheck never rejects: it ends with the lease released and the next check
\* scheduled, or, when that write fails, with the lease left to expire.
CheckDone(s) ==
  /\ work[s] = "checking"
  /\ work' = [work EXCEPT ![s] = "none"]
  /\ \/ leased' = leased \ {s} /\ due' = due \ {s}
     \/ UNCHANGED <<leased, due>>
  /\ UNCHANGED <<exitVars, loopVars, shutdownVars, health, probe>>

FinishTick ==
  /\ tick = "checking"
  /\ InBatch = {}
  /\ TickOver
  /\ UNCHANGED siteVars

----------------------------------------------------------------------------
(* The shutdown: stop the loop and wait for its tick, close the health     *)
(* server, close the database.                                             *)

\* SIGTERM or SIGINT (0), an unhandled rejection (1); the second call returns at once.
BeginShutdown(code) ==
  /\ process = "running"
  /\ shutdown = "no"
  /\ shutdown' = "tick"
  /\ exitCode' = code
  /\ watchdog' = TRUE
  /\ stopping' = TRUE
  /\ timer' = FALSE
  /\ UNCHANGED <<exitVars, tick, health, probe, siteVars>>

\* Mutant of TickDrained: stop() does not wait for the tick in flight.
TickNotDrained ==
  /\ shutdown = "tick"
  /\ shutdown' = "health"
  /\ health' = FALSE
  /\ UNCHANGED <<exitVars, loopVars, exitCode, watchdog, probe, siteVars>>

TickDrained ==
  /\ shutdown = "tick"
  /\ tick = "none"
  /\ shutdown' = "health"
  /\ health' = FALSE
  /\ UNCHANGED <<exitVars, loopVars, exitCode, watchdog, probe, siteVars>>

\* server.close calls back when the last request is answered.
HealthClosed ==
  /\ shutdown = "health"
  /\ probe = "none"
  /\ shutdown' = "database"
  /\ UNCHANGED <<exitVars, loopVars, exitCode, watchdog, health, probe, siteVars>>

\* The pool is closed, and nothing is left that keeps the process alive.
Disconnected ==
  /\ shutdown = "database"
  /\ Ends(IF exitCode = 0 THEN "clean" ELSE "failed")

\* The pool fails to close.  The watchdog is cleared all the same, and the process ends
\* when the last of the pool's sockets does, if it does.
DisconnectFails ==
  /\ shutdown = "database"
  /\ shutdown' = "over"
  /\ exitCode' = 1
  /\ watchdog' = FALSE
  /\ UNCHANGED <<exitVars, loopVars, health, probe, siteVars>>

LastSocketCloses ==
  /\ shutdown = "over"
  /\ Ends("failed")

\* Mutant of WatchdogFires: the watchdog only guards the wait for the tick.
WatchdogOfTick ==
  /\ watchdog
  /\ shutdown = "tick"
  /\ Ends("watchdog")

WatchdogFires ==
  /\ watchdog
  /\ Ends("watchdog")

----------------------------------------------------------------------------
(* The outside: readiness probes, time passing for the websites.           *)

\* /ready pings the database unless the process is shutting down.
ProbeArrives ==
  /\ health
  /\ probe = "none"
  /\ shutdown = "no"
  /\ probe' = "pinging"
  /\ UNCHANGED <<exitVars, loopVars, shutdownVars, health, siteVars>>

ProbeAnswered ==
  /\ probe = "pinging"
  /\ probe' = "none"
  /\ UNCHANGED <<exitVars, loopVars, shutdownVars, health, siteVars>>

BecomesDue(s) ==
  /\ s \notin due
  /\ due' = due \cup {s}
  /\ UNCHANGED <<exitVars, loopVars, shutdownVars, health, probe, leased, work>>

\* A lease outlasts the check it was taken for.
LeaseExpires(s) ==
  /\ s \in leased
  /\ work[s] = "none"
  /\ leased' = leased \ {s}
  /\ UNCHANGED <<exitVars, loopVars, shutdownVars, health, probe, due, work>>

Tick ==
  \/ TimerFires \/ RunBatch \/ FinishTick
  \/ \E s \in Sites : ClaimSite(s) \/ CheckDone(s)

WorkerNext ==
  \/ Bootstrap \/ BootstrapFails \/ Restart \/ Killed
  \/ Tick \/ ClaimFails
  \/ \E code \in {0, 1} : BeginShutdown(code)
  \/ TickDrained \/ HealthClosed \/ Disconnected \/ DisconnectFails \/ LastSocketCloses
  \/ WatchdogFires
  \/ ProbeArrives \/ ProbeAnswered
  \/ \E s \in Sites : BecomesDue(s) \/ LeaseExpires(s)

\* Timers fire, and what a tick awaits ends sooner or later, in an answer or an error; no
\* such thing is assumed of the rest of a shutdown, the health server's clients or the
\* platform.
WorkerFairness == WF_workerVars(Tick) /\ WF_workerVars(WatchdogFires)

WorkerSpec == WorkerInit /\ [][WorkerNext]_workerVars /\ WorkerFairness

----------------------------------------------------------------------------
(* Properties.                                                             *)

WorkerTypeOK ==
  /\ process \in {"booting", "running", "stuck", "exited"}
  /\ exit \in {"none", "clean", "failed", "killed", "watchdog"}
  /\ starts \in 1..MaxStarts
  /\ timer \in BOOLEAN /\ stopping \in BOOLEAN /\ watchdog \in BOOLEAN /\ health \in BOOLEAN
  /\ tick \in {"none", "claiming", "checking"}
  /\ shutdown \in {"no", "tick", "health", "database", "over"}
  /\ exitCode \in {0, 1}
  /\ probe \in {"none", "pinging"}
  /\ due \in SUBSET Sites /\ leased \in SUBSET Sites
  /\ work \in [Sites -> {"none", "claimed", "checking"}]

\* The batch bounds what is checked at once, without any other limiter: a tick never
\* overlaps the one before it, through failures, shutdowns and restarts
\* (scheduler-loop.ts: "no separate limiter is needed here"), and whatever it works on
\* is under a lease.
BatchBoundsWork == Cardinality(InBatch) <= BatchSize /\ InBatch \subseteq leased

\* A process that ends by itself with its exit code 0 has cut no check and no probe.
DrainsBeforeExit ==
  [][process = "running" /\ process' = "exited" /\ exit' = "clean"
       => InBatch = {} /\ probe = "none"]_workerVars

\* A shutdown ends, whatever hangs: a check, a probe, the database.  It ends with the
\* process, but when the pool fails to close, which clears the watchdog.
ShutdownEnds == shutdown # "no" ~> (process = "exited" \/ shutdown = "over")

\* The loop survives its failures: while the process runs and is not told to stop, there
\* is always another tick to come.
LoopSurvives ==
  (process = "running" /\ shutdown = "no") ~> (timer \/ shutdown # "no" \/ process = "exited")
=============================================================================
