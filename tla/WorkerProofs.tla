---------------------------- MODULE WorkerProofs ----------------------------
(***************************************************************************)
(* Theorems about the worker process, for any websites, batch size and     *)
(* number of starts: the ticks of a process never overlap, so the batch of *)
(* one tick bounds what is checked at once, and an orderly end cuts no     *)
(* check.  And about one check of one website, for any number of redirects *)
(* and attempts and any timeout: where it connects, and that it ends       *)
(* within the time its lease allows for.  And about the announcement of an *)
(* incident, for any people and runs: nobody is told twice, against their  *)
(* wish or not at all, and the notices say what has happened.              *)
(***************************************************************************)
EXTENDS Notifications, WorkerLifecycle, HttpCheck, FiniteSetTheorems, TLAPS

Claimed == {s \in Sites : work[s] = "claimed"}

(* No tick runs in a process that is not running; while one does, the      *)
(* timer is not armed, before its checks start it only claims, and then it *)
(* claims nothing more.                                                    *)
OneTick ==
  /\ process \in {"booting", "stuck", "exited"} => tick = "none" /\ ~timer /\ shutdown = "no"
  /\ stopping <=> shutdown # "no"
  /\ stopping => ~timer
  /\ tick # "none" => ~timer
  /\ tick = "none" => InBatch = {}
  /\ tick = "claiming" => InBatch = Claimed
  /\ tick = "checking" => Claimed = {}

Batch == WorkerTypeOK /\ OneTick /\ BatchBoundsWork

LEMMA BatchFinite == IsFiniteSet(InBatch) /\ IsFiniteSet(Claimed) /\ BatchSize \in Nat /\ BatchSize >= 1
BY WorkerAssumption, FS_Subset DEF WorkerAssumption, InBatch, Claimed

LEMMA EmptyBatch == Cardinality({}) = 0
BY FS_EmptySet

LEMMA InitBatch == WorkerInit => Batch
<1> SUFFICES ASSUME WorkerInit PROVE Batch
  OBVIOUS
<1>1. InBatch = {} /\ Claimed = {}
  BY DEF WorkerInit, InBatch, Claimed, NoWork
<1>2. BatchBoundsWork
  BY <1>1, BatchFinite, EmptyBatch DEF BatchBoundsWork
<1>3. WorkerTypeOK
  <2>1. starts \in 1..MaxStarts
    BY WorkerAssumption DEF WorkerAssumption, WorkerInit
  <2>2. due \in SUBSET Sites /\ leased \in SUBSET Sites
    BY DEF WorkerInit
  <2>3. work \in [Sites -> {"none", "claimed", "checking"}]
    BY DEF WorkerInit, NoWork
  <2> QED BY <2>1, <2>2, <2>3 DEF WorkerInit, WorkerTypeOK
<1>4. OneTick
  BY <1>1 DEF WorkerInit, OneTick
<1> QED BY <1>2, <1>3, <1>4 DEF Batch

LEMMA SmallerBatch ==
  ASSUME Batch, InBatch' \subseteq InBatch
  PROVE  Cardinality(InBatch') <= BatchSize
<1>1. Cardinality(InBatch') <= Cardinality(InBatch)
  BY BatchFinite, FS_Subset
<1>2. Cardinality(InBatch) \in Nat /\ Cardinality(InBatch') \in Nat /\ Cardinality(InBatch) <= BatchSize
  BY BatchFinite, FS_Subset, FS_CardinalityType DEF Batch, BatchBoundsWork
<1> QED BY <1>1, <1>2, BatchFinite

LEMMA EndsBatch ==
  ASSUME Batch, NEW how \in {"clean", "failed", "killed", "watchdog"}, Ends(how)
  PROVE  Batch'
<1>1. InBatch' = {} /\ Claimed' = {}
  BY DEF Ends, InBatch, Claimed, NoWork
<1>2. BatchBoundsWork'
  BY <1>1, BatchFinite, EmptyBatch DEF BatchBoundsWork
<1>3. WorkerTypeOK'
  BY DEF Batch, WorkerTypeOK, Ends, NoWork
<1>4. OneTick'
  BY <1>1 DEF Batch, OneTick, Ends
<1> QED BY <1>2, <1>3, <1>4 DEF Batch

(* Steps that leave the work of the tick alone.                            *)
LEMMA WorkKept ==
  ASSUME Batch, UNCHANGED <<work, leased>>
  PROVE  BatchBoundsWork' /\ InBatch' = InBatch /\ Claimed' = Claimed
BY DEF Batch, BatchBoundsWork, InBatch, Claimed

LEMMA LifeBatch ==
  ASSUME Batch, Bootstrap \/ BootstrapFails \/ Restart \/ Killed
  PROVE  Batch'
<1>1. CASE Bootstrap
  BY <1>1, WorkKept DEF Bootstrap, Batch, WorkerTypeOK, OneTick
<1>2. CASE BootstrapFails
  <2>1. CASE Ends("failed")
    BY <2>1, EndsBatch
  <2>2. CASE ~Ends("failed")
    BY <1>2, <2>2, WorkKept
    DEF BootstrapFails, Batch, WorkerTypeOK, OneTick, loopVars, siteVars
  <2> QED BY <2>1, <2>2
<1>3. CASE Restart
  BY <1>3, WorkKept, WorkerAssumption
  DEF Restart, Batch, WorkerTypeOK, OneTick, loopVars, siteVars, shutdownVars, WorkerAssumption
<1>4. CASE Killed
  BY <1>4, EndsBatch DEF Killed
<1> QED BY <1>1, <1>2, <1>3, <1>4

(* One website more, while fewer than a batch are claimed.                 *)
LEMMA ClaimBatch == ASSUME Batch, NEW s \in Sites, ClaimSite(s) PROVE Batch'
<1>1. /\ tick = "claiming" /\ Cardinality(Claimed) < BatchSize
      /\ leased' = leased \cup {s} /\ work' = [work EXCEPT ![s] = "claimed"]
      /\ work \in [Sites -> {"none", "claimed", "checking"}]
      /\ InBatch = Claimed /\ InBatch \subseteq leased
  BY DEF ClaimSite, Claimed, Batch, OneTick, WorkerTypeOK, BatchBoundsWork
<1>2. InBatch' = InBatch \cup {s} /\ Claimed' = Claimed \cup {s}
  BY <1>1 DEF InBatch, Claimed
<1>3. Cardinality(InBatch') <= BatchSize
  <2>1. /\ Cardinality(InBatch') = Cardinality(InBatch) \/ Cardinality(InBatch') = Cardinality(InBatch) + 1
        /\ Cardinality(InBatch) \in Nat
    BY <1>2, BatchFinite, FS_AddElement, FS_CardinalityType
  <2> QED BY <1>1, <2>1, BatchFinite
<1>4. BatchBoundsWork'
  BY <1>1, <1>2, <1>3 DEF BatchBoundsWork
<1>5. WorkerTypeOK'
  BY <1>1 DEF ClaimSite, Batch, WorkerTypeOK, exitVars, loopVars, shutdownVars
<1>6. OneTick'
  BY <1>1, <1>2 DEF ClaimSite, Batch, OneTick, exitVars, loopVars, shutdownVars
<1> QED BY <1>4, <1>5, <1>6 DEF Batch

LEMMA RunBatchBatch == ASSUME Batch, RunBatch PROVE Batch'
<1>1. /\ work' = [s \in Sites |-> IF work[s] = "claimed" THEN "checking" ELSE work[s]]
      /\ leased' = leased /\ tick = "claiming" /\ tick' = "checking"
      /\ work \in [Sites -> {"none", "claimed", "checking"}]
  BY DEF RunBatch, Batch, WorkerTypeOK
<1>2. InBatch' = InBatch /\ Claimed' = {}
  BY <1>1 DEF InBatch, Claimed
<1>3. WorkerTypeOK'
  BY <1>1 DEF RunBatch, Batch, WorkerTypeOK, exitVars, shutdownVars
<1>4. OneTick'
  BY <1>1, <1>2 DEF RunBatch, Batch, OneTick, exitVars, shutdownVars
<1>5. BatchBoundsWork'
  BY <1>1, <1>2 DEF Batch, BatchBoundsWork
<1> QED BY <1>3, <1>4, <1>5 DEF Batch

LEMMA TickEnds ==
  ASSUME Batch, ClaimFails \/ FinishTick
  PROVE  Batch'
<1>1. InBatch' = {} /\ Claimed' = {}
  <2>1. CASE FinishTick
    BY <2>1 DEF FinishTick, siteVars, InBatch, Claimed
  <2>2. CASE ClaimFails
    <3>1. work' = [s \in Sites |-> IF work[s] = "claimed" THEN "none" ELSE work[s]]
      BY <2>2 DEF ClaimFails
    <3>2. \A s \in Sites : work[s] \in {"none", "claimed"}
      BY <2>2 DEF ClaimFails, Batch, OneTick, InBatch, Claimed
    <3> QED BY <3>1, <3>2 DEF InBatch, Claimed
  <2> QED BY <2>1, <2>2
<1>2. tick # "none" /\ tick' = "none" /\ timer' = ~stopping /\ leased' = leased /\ due' = due
  BY DEF ClaimFails, FinishTick, TickOver, siteVars
<1>3. UNCHANGED <<exitVars, stopping, shutdownVars, health, probe>>
  BY DEF ClaimFails, FinishTick, TickOver
<1>4. work' \in [Sites -> {"none", "claimed", "checking"}]
  BY DEF ClaimFails, FinishTick, siteVars, Batch, WorkerTypeOK
<1>5. WorkerTypeOK'
  BY <1>2, <1>3, <1>4 DEF Batch, WorkerTypeOK, exitVars, shutdownVars
<1>6. OneTick'
  BY <1>1, <1>2, <1>3 DEF Batch, OneTick, exitVars, shutdownVars
<1>7. BatchBoundsWork'
  BY <1>1, BatchFinite, EmptyBatch DEF BatchBoundsWork
<1> QED BY <1>5, <1>6, <1>7 DEF Batch

LEMMA CheckDoneBatch == ASSUME Batch, NEW s \in Sites, CheckDone(s) PROVE Batch'
<1>1. /\ work' = [work EXCEPT ![s] = "none"] /\ work[s] = "checking"
      /\ work \in [Sites -> {"none", "claimed", "checking"}]
      /\ leased' \in {leased, leased \ {s}} /\ due' \in {due, due \ {s}}
      /\ UNCHANGED <<exitVars, loopVars, shutdownVars, health, probe>>
  BY DEF CheckDone, Batch, WorkerTypeOK
<1>2. InBatch' = InBatch \ {s} /\ Claimed' = Claimed
  BY <1>1 DEF InBatch, Claimed
<1>3. Cardinality(InBatch') <= BatchSize
  BY <1>2, SmallerBatch
<1>4. BatchBoundsWork'
  BY <1>1, <1>2, <1>3 DEF Batch, BatchBoundsWork
<1>5. WorkerTypeOK'
  BY <1>1 DEF Batch, WorkerTypeOK, exitVars, loopVars, shutdownVars
<1>6. tick # "claiming"
  BY <1>1 DEF Batch, OneTick, InBatch, Claimed
<1>7. OneTick'
  BY <1>1, <1>2, <1>6 DEF Batch, OneTick, exitVars, loopVars, shutdownVars
<1> QED BY <1>4, <1>5, <1>7 DEF Batch

LEMMA ShutdownBatch ==
  ASSUME Batch,
         \/ \E code \in {0, 1} : BeginShutdown(code)
         \/ TickDrained \/ HealthClosed \/ Disconnected \/ DisconnectFails \/ LastSocketCloses
         \/ WatchdogFires
  PROVE  Batch'
<1>1. CASE \E code \in {0, 1} : BeginShutdown(code)
  BY <1>1, WorkKept DEF BeginShutdown, Batch, WorkerTypeOK, OneTick, exitVars, siteVars
<1>2. CASE TickDrained
  BY <1>2, WorkKept DEF TickDrained, Batch, WorkerTypeOK, OneTick, exitVars, loopVars, siteVars
<1>3. CASE HealthClosed
  BY <1>3, WorkKept DEF HealthClosed, Batch, WorkerTypeOK, OneTick, exitVars, loopVars, siteVars
<1>4. CASE Disconnected
  BY <1>4, EndsBatch DEF Disconnected
<1>5. CASE DisconnectFails
  BY <1>5, WorkKept DEF DisconnectFails, Batch, WorkerTypeOK, OneTick, exitVars, loopVars, siteVars
<1>6. CASE LastSocketCloses \/ WatchdogFires
  BY <1>6, EndsBatch DEF LastSocketCloses, WatchdogFires
<1> QED BY <1>1, <1>2, <1>3, <1>4, <1>5, <1>6

LEMMA OutsideBatch ==
  ASSUME Batch,
         \/ TimerFires \/ ProbeArrives \/ ProbeAnswered
         \/ \E s \in Sites : BecomesDue(s) \/ LeaseExpires(s)
  PROVE  Batch'
<1>1. CASE TimerFires
  <2>1. InBatch = {} /\ Claimed = {}
    BY <1>1 DEF TimerFires, Batch, OneTick, InBatch, Claimed
  <2> QED BY <1>1, <2>1, WorkKept
          DEF TimerFires, Batch, WorkerTypeOK, OneTick, exitVars, shutdownVars, siteVars
<1>2. CASE ProbeArrives \/ ProbeAnswered
  BY <1>2, WorkKept DEF ProbeArrives, ProbeAnswered, Batch, WorkerTypeOK, OneTick, exitVars, loopVars,
                        shutdownVars, siteVars
<1>3. ASSUME NEW s \in Sites, BecomesDue(s) PROVE Batch'
  BY <1>3, WorkKept DEF BecomesDue, Batch, WorkerTypeOK, OneTick, exitVars, loopVars, shutdownVars
<1>4. ASSUME NEW s \in Sites, LeaseExpires(s) PROVE Batch'
  <2>1. InBatch' = InBatch /\ Claimed' = Claimed /\ s \notin InBatch
    BY <1>4 DEF LeaseExpires, InBatch, Claimed
  <2>2. BatchBoundsWork'
    BY <1>4, <2>1 DEF LeaseExpires, Batch, BatchBoundsWork
  <2> QED BY <1>4, <2>1, <2>2
          DEF LeaseExpires, Batch, WorkerTypeOK, OneTick, exitVars, loopVars, shutdownVars
<1> QED BY <1>1, <1>2, <1>3, <1>4

LEMMA StepBatch == Batch /\ [WorkerNext]_workerVars => Batch'
<1>1. Batch /\ UNCHANGED workerVars => Batch'
  BY WorkKept DEF workerVars, Batch, WorkerTypeOK, OneTick
<1> QED BY <1>1, LifeBatch, ClaimBatch, RunBatchBatch, TickEnds, CheckDoneBatch, ShutdownBatch,
           OutsideBatch DEF WorkerNext, Tick

LEMMA BatchAlways == WorkerSpec => []Batch
BY InitBatch, StepBatch, PTL DEF WorkerSpec

\* The variables of the process keep their types.
THEOREM WorkerTyped == WorkerSpec => []WorkerTypeOK
BY BatchAlways, PTL DEF Batch

\* For any websites and any MONITOR_CONCURRENCY, no more than a batch is worked on at once
\* and all of it under a lease, through failed claims, shutdowns, kills and restarts: the
\* limiter scheduler-loop.ts says is not needed.
THEOREM BatchIsTheLimit == WorkerSpec => []BatchBoundsWork
BY BatchAlways, PTL DEF Batch

-----------------------------------------------------------------------------
(* What a shutdown has waited for, it does not start again.                *)

Drained ==
  /\ shutdown \in {"health", "database", "over"} => tick = "none"
  /\ shutdown \in {"database", "over"} => probe = "none"

LEMMA InitDrained == WorkerInit => Drained
BY DEF WorkerInit, Drained

LEMMA StepDrained == Batch /\ Drained /\ [WorkerNext]_workerVars => Drained'
<1> SUFFICES ASSUME Batch, Drained, [WorkerNext]_workerVars PROVE Drained'
  OBVIOUS
<1>1. CASE UNCHANGED <<tick, shutdown, probe>>
  BY <1>1 DEF Drained
<1>2. CASE shutdown' = "no"
  BY <1>2 DEF Drained
<1>3. CASE tick' \in {tick, "none"} /\ probe' \in {probe, "none"} /\ shutdown' = shutdown
  BY <1>3 DEF Drained
<1>4. ASSUME NEW how, Ends(how) PROVE Drained'
  BY <1>2, <1>4 DEF Ends
<1>5. CASE Bootstrap \/ BootstrapFails \/ Restart \/ Killed \/ LastSocketCloses \/ WatchdogFires
  BY <1>1, <1>4, <1>5 DEF Bootstrap, BootstrapFails, Restart, Killed, LastSocketCloses,
                          WatchdogFires, loopVars, shutdownVars
<1>6. CASE TimerFires \/ ProbeArrives
  <2>1. shutdown' = "no"
    BY <1>6 DEF TimerFires, ProbeArrives, shutdownVars, Batch, OneTick
  <2> QED BY <1>2, <2>1
<1>7. CASE RunBatch
  BY <1>7 DEF RunBatch, Drained, shutdownVars
<1>8. CASE FinishTick \/ ClaimFails \/ ProbeAnswered
  BY <1>3, <1>8 DEF FinishTick, ClaimFails, ProbeAnswered, TickOver, loopVars, shutdownVars
<1>9. CASE \E s \in Sites : ClaimSite(s) \/ CheckDone(s) \/ BecomesDue(s) \/ LeaseExpires(s)
  BY <1>1, <1>9 DEF ClaimSite, CheckDone, BecomesDue, LeaseExpires, loopVars, shutdownVars
<1>10. CASE \E code \in {0, 1} : BeginShutdown(code)
  BY <1>10 DEF BeginShutdown, Drained
<1>11. CASE TickDrained \/ HealthClosed \/ DisconnectFails
  BY <1>11 DEF TickDrained, HealthClosed, DisconnectFails, Drained, loopVars
<1>12. CASE Disconnected
  BY <1>4, <1>12 DEF Disconnected
<1> QED BY <1>1, <1>5, <1>6, <1>7, <1>8, <1>9, <1>10, <1>11, <1>12
        DEF WorkerNext, Tick, workerVars

\* The only end with the exit code 0 is the last step of an orderly shutdown.
LEMMA CleanExit ==
  ASSUME [WorkerNext]_workerVars, process = "running", process' = "exited", exit' = "clean"
  PROVE  shutdown = "database"
<1>1. ASSUME NEW how, Ends(how) PROVE how = "clean"
  BY <1>1 DEF Ends
<1>2. CASE Bootstrap \/ BootstrapFails \/ Restart
  BY <1>2 DEF Bootstrap, BootstrapFails, Restart
<1>3. CASE Killed \/ LastSocketCloses \/ WatchdogFires
  BY <1>1, <1>3 DEF Killed, LastSocketCloses, WatchdogFires
<1>4. CASE Disconnected
  BY <1>4 DEF Disconnected
<1>5. CASE UNCHANGED process
  BY <1>5
<1>6. ASSUME \/ Tick \/ ClaimFails \/ \E code \in {0, 1} : BeginShutdown(code)
             \/ TickDrained \/ HealthClosed \/ DisconnectFails \/ ProbeArrives \/ ProbeAnswered
             \/ \E s \in Sites : BecomesDue(s) \/ LeaseExpires(s)
      PROVE  UNCHANGED process
  BY <1>6 DEF Tick, TimerFires, RunBatch, FinishTick, ClaimSite, CheckDone, ClaimFails, TickOver,
     BeginShutdown, TickDrained, HealthClosed, DisconnectFails, ProbeArrives, ProbeAnswered,
     BecomesDue, LeaseExpires, exitVars
<1> QED BY <1>2, <1>3, <1>4, <1>5, <1>6 DEF WorkerNext, workerVars

\* For any websites and any MONITOR_CONCURRENCY, a process that ends with its exit code 0
\* has cut no check and no probe: the tick it waited for was the last, and so was the probe.
THEOREM DrainedBeforeExit == WorkerSpec => DrainsBeforeExit
<1>1. Batch /\ Drained /\ [WorkerNext]_workerVars =>
        [process = "running" /\ process' = "exited" /\ exit' = "clean"
           => InBatch = {} /\ probe = "none"]_workerVars
  BY CleanExit DEF Batch, OneTick, Drained
<1> QED BY <1>1, BatchAlways, InitDrained, StepDrained, PTL DEF WorkerSpec, DrainsBeforeExit

-----------------------------------------------------------------------------
(* Progress of the loop and of a shutdown.                                 *)

(* A loop that is not told to stop is in a tick or has its next one        *)
(* scheduled, and a shutdown that still waits has its watchdog armed.      *)
Watched ==
  /\ process = "running" /\ shutdown = "no" => timer \/ tick # "none"
  /\ shutdown \in {"tick", "health", "database"} => watchdog

(* Some step of a tick is possible: its timer fires, it claims, it starts  *)
(* its checks, a check ends, or it is over.                                *)
TickCanMove ==
  \/ process = "running" /\ timer
  \/ tick = "claiming" /\ Cardinality(Claimed) < BatchSize /\ Claimable # {}
  \/ tick = "claiming" /\ (Cardinality(Claimed) = BatchSize \/ Claimable = {})
  \/ tick = "checking" /\ \E s \in Sites : work[s] = "checking"
  \/ tick = "checking" /\ InBatch = {}

(* At most so many steps of its own the tick in flight has left.           *)
StepsLeft ==
  CASE tick = "none"     -> 0
    [] tick = "claiming" -> 2 * BatchSize + 2 - Cardinality(Claimed)
    [] tick = "checking" -> Cardinality(InBatch) + 1

LEMMA InitWatched == WorkerInit => Watched
BY DEF WorkerInit, Watched

LEMMA StepWatched == Batch /\ Watched /\ [WorkerNext]_workerVars => Watched'
<1> SUFFICES ASSUME Batch, Watched, [WorkerNext]_workerVars PROVE Watched'
  OBVIOUS
<1>1. CASE UNCHANGED <<process, shutdown, timer, tick, watchdog>>
  BY <1>1 DEF Watched
<1>2. ASSUME NEW how, Ends(how) PROVE Watched'
  BY <1>2 DEF Ends, Watched
<1>3. CASE Bootstrap \/ BootstrapFails \/ Restart
  BY <1>2, <1>3 DEF Bootstrap, BootstrapFails, Restart, Batch, OneTick, Watched, loopVars, shutdownVars
<1>4. CASE Killed \/ Disconnected \/ LastSocketCloses \/ WatchdogFires
  BY <1>2, <1>4 DEF Killed, Disconnected, LastSocketCloses, WatchdogFires
<1>5. CASE TimerFires \/ RunBatch
  BY <1>5 DEF TimerFires, RunBatch, Watched, exitVars, shutdownVars
<1>6. CASE FinishTick \/ ClaimFails
  BY <1>6 DEF FinishTick, ClaimFails, TickOver, Batch, OneTick, Watched, exitVars, shutdownVars
<1>7. CASE \E code \in {0, 1} : BeginShutdown(code)
  BY <1>7 DEF BeginShutdown, Watched
<1>8. CASE TickDrained \/ HealthClosed \/ DisconnectFails
  BY <1>8 DEF TickDrained, HealthClosed, DisconnectFails, Watched, exitVars, loopVars
<1>9. CASE \/ ProbeArrives \/ ProbeAnswered
           \/ \E s \in Sites : ClaimSite(s) \/ CheckDone(s) \/ BecomesDue(s) \/ LeaseExpires(s)
  BY <1>1, <1>9 DEF ProbeArrives, ProbeAnswered, ClaimSite, CheckDone, BecomesDue, LeaseExpires,
                    exitVars, loopVars, shutdownVars
<1> QED BY <1>1, <1>3, <1>4, <1>5, <1>6, <1>7, <1>8, <1>9 DEF WorkerNext, Tick, workerVars

LEMMA TickMoves ==
  ASSUME Batch, tick # "none" \/ (timer /\ process = "running")
  PROVE  TickCanMove
<1>1. CASE tick = "claiming"
  <2>1. Cardinality(Claimed) \in Nat /\ Cardinality(Claimed) <= BatchSize
    BY <1>1, BatchFinite, FS_CardinalityType DEF Batch, OneTick, BatchBoundsWork
  <2> QED BY <1>1, <2>1, BatchFinite DEF TickCanMove
<1>2. CASE tick = "checking"
  <2>1. ASSUME NEW s \in InBatch PROVE s \in Sites /\ work[s] = "checking"
    BY <1>2, <2>1 DEF InBatch, Claimed, Batch, OneTick, WorkerTypeOK
  <2> QED BY <1>2, <2>1 DEF TickCanMove
<1>3. CASE timer /\ process = "running"
  BY <1>3 DEF TickCanMove
<1> QED BY <1>1, <1>2, <1>3 DEF Batch, WorkerTypeOK

LEMMA TickAdvances ==
  ASSUME Batch, [WorkerNext]_workerVars, tick # "none"
  PROVE  StepsLeft' <= StepsLeft /\ (Tick => StepsLeft' < StepsLeft)
<1> DEFINE c == Cardinality(Claimed)
           b == Cardinality(InBatch)
<1>0. c \in Nat /\ b \in Nat /\ BatchSize \in Nat /\ b <= BatchSize /\ tick \in {"claiming", "checking"}
      /\ (tick = "claiming" => c = b) /\ ~timer
  BY BatchFinite, FS_CardinalityType DEF Batch, BatchBoundsWork, OneTick, WorkerTypeOK
<1>1. StepsLeft \in Nat /\ StepsLeft > 0
  BY <1>0 DEF StepsLeft
<1>2. CASE tick' = "none"
  <2>1. StepsLeft' = 0
    BY <1>2 DEF StepsLeft
  <2> QED BY <1>1, <2>1
<1>3. ASSUME UNCHANGED <<tick, work>> PROVE StepsLeft' = StepsLeft
  BY <1>3 DEF StepsLeft, Claimed, InBatch
<1>4. ASSUME NEW s \in Sites, ClaimSite(s) PROVE StepsLeft' < StepsLeft
  <2>1. /\ tick = "claiming" /\ tick' = "claiming" /\ s \notin leased
        /\ work' = [work EXCEPT ![s] = "claimed"]
    BY <1>4 DEF ClaimSite, Claimable, loopVars
  <2>2. s \notin Claimed /\ Claimed' = Claimed \cup {s}
    BY <2>1 DEF Claimed, InBatch, Batch, BatchBoundsWork, WorkerTypeOK
  <2>3. Cardinality(Claimed') = c + 1
    BY <2>2, BatchFinite, FS_AddElement
  <2> QED BY <1>0, <2>1, <2>3 DEF StepsLeft
<1>5. ASSUME RunBatch PROVE StepsLeft' < StepsLeft
  <2>1. tick = "claiming" /\ tick' = "checking" /\ InBatch' = InBatch
    BY <1>5 DEF RunBatch, InBatch
  <2> QED BY <1>0, <2>1 DEF StepsLeft
<1>6. ASSUME NEW s \in Sites, CheckDone(s) PROVE StepsLeft' < StepsLeft
  <2>1. tick = "checking" /\ tick' = "checking" /\ s \in InBatch /\ InBatch' = InBatch \ {s}
    BY <1>6 DEF CheckDone, loopVars, InBatch, Claimed, Batch, OneTick, WorkerTypeOK
  <2>2. Cardinality(InBatch') = b - 1
    BY <2>1, BatchFinite, FS_RemoveElement
  <2> QED BY <1>0, <2>1, <2>2 DEF StepsLeft
<1>7. CASE Tick
  <2>1. CASE TimerFires
    BY <1>0, <2>1 DEF TimerFires
  <2>2. CASE FinishTick
    <3>1. tick' = "none"
      BY <2>2 DEF FinishTick, TickOver
    <3>2. StepsLeft' = 0
      BY <3>1 DEF StepsLeft
    <3> QED BY <1>1, <3>2
  <2>3. StepsLeft' < StepsLeft
    BY <1>4, <1>5, <1>6, <1>7, <2>1, <2>2 DEF Tick
  <2>4. StepsLeft' \in Int
    <3>1. tick' \in {"none", "claiming", "checking"} /\ Cardinality(Claimed') \in Nat /\ Cardinality(InBatch') \in Nat
      <4>1. Batch'
        BY StepBatch
      <4>2. IsFiniteSet(InBatch') /\ IsFiniteSet(Claimed')
        BY WorkerAssumption, FS_Subset DEF WorkerAssumption, InBatch, Claimed
      <4> QED BY <4>1, <4>2, FS_CardinalityType DEF Batch, WorkerTypeOK
    <3> QED BY <1>0, <3>1 DEF StepsLeft
  <2> QED BY <1>1, <2>3, <2>4
<1>8. CASE ~Tick
  <2>1. tick' = "none" \/ UNCHANGED <<tick, work>>
    <3>1. ASSUME NEW how, Ends(how) PROVE tick' = "none"
      BY <3>1 DEF Ends
    <3>2. CASE Bootstrap \/ BootstrapFails \/ Restart
      BY <3>1, <3>2 DEF Bootstrap, BootstrapFails, Restart, loopVars, siteVars
    <3>3. CASE Killed \/ Disconnected \/ LastSocketCloses \/ WatchdogFires \/ ClaimFails
      BY <3>1, <3>3 DEF Killed, Disconnected, LastSocketCloses, WatchdogFires, ClaimFails, TickOver
    <3>4. CASE \/ \E code \in {0, 1} : BeginShutdown(code)
               \/ TickDrained \/ HealthClosed \/ DisconnectFails \/ ProbeArrives \/ ProbeAnswered
               \/ \E s \in Sites : BecomesDue(s) \/ LeaseExpires(s)
      BY <3>4 DEF BeginShutdown, TickDrained, HealthClosed, DisconnectFails, ProbeArrives,
                  ProbeAnswered, BecomesDue, LeaseExpires, loopVars, siteVars
    <3> QED BY <1>8, <3>2, <3>3, <3>4 DEF WorkerNext, workerVars
  <2>2. CASE tick' = "none"
    BY <1>2, <1>8, <2>2
  <2>3. CASE UNCHANGED <<tick, work>>
    BY <1>1, <1>3, <1>8, <2>3
  <2> QED BY <2>1, <2>2, <2>3
<1> QED BY <1>7, <1>8

\* For any websites and any MONITOR_CONCURRENCY, the loop is never dead: while the process
\* runs and is not told to stop, a tick is in flight or scheduled and has a step it can
\* take, and so has the tick a shutdown waits for; and no shutdown waits without its
\* watchdog.  With weak fairness of Tick and WatchdogFires this is why LoopSurvives and
\* ShutdownEnds hold.
THEOREM LoopNeverDead ==
  WorkerSpec => [](/\ Watched
                   /\ tick # "none" \/ (process = "running" /\ shutdown = "no") => TickCanMove)
<1>1. Batch /\ Watched =>
        /\ Watched
        /\ tick # "none" \/ (process = "running" /\ shutdown = "no") => TickCanMove
  BY TickMoves DEF Watched
<1> QED BY <1>1, BatchAlways, InitWatched, StepWatched, PTL DEF WorkerSpec

\* And a tick ends: it takes at most 2 * BatchSize + 2 steps of its own after its timer has
\* fired, and nothing that happens meanwhile gives it more to do.
THEOREM TicksEnd ==
  WorkerSpec =>
    /\ []((tick # "none" => StepsLeft <= 2 * BatchSize + 2))
    /\ [][tick # "none" => StepsLeft' <= StepsLeft /\ (Tick => StepsLeft' < StepsLeft)]_workerVars
<1>1. Batch => (tick # "none" => StepsLeft <= 2 * BatchSize + 2)
  <2> SUFFICES ASSUME Batch, tick # "none" PROVE StepsLeft <= 2 * BatchSize + 2
    OBVIOUS
  <2> DEFINE c == Cardinality(Claimed)
             b == Cardinality(InBatch)
  <2>1. c \in Nat /\ b \in Nat /\ BatchSize \in Nat /\ b <= BatchSize /\ tick \in {"claiming", "checking"}
    BY BatchFinite, FS_CardinalityType DEF Batch, BatchBoundsWork, WorkerTypeOK
  <2> QED BY <2>1 DEF StepsLeft
<1>2. Batch /\ [WorkerNext]_workerVars =>
        [tick # "none" => StepsLeft' <= StepsLeft /\ (Tick => StepsLeft' < StepsLeft)]_workerVars
  BY TickAdvances
<1> QED BY <1>1, <1>2, BatchAlways, PTL DEF WorkerSpec

-----------------------------------------------------------------------------
(* One check: the requests, their bounds and their lease.                  *)

LEMMA HttpBounds == MaxRedirects \in Nat /\ MaxAttempts \in Nat /\ MaxAttempts >= 1 /\ Timeout \in Nat
BY HttpAssumption DEF HttpAssumption

-----------------------------------------------------------------------------
(* Types, and that what is connected to has passed the validation.         *)

Validated == check.at \in {"connect", "ask"} => Acceptable(check.target)

Sound == HttpTypeOK /\ Validated /\ ConnectsWhereAllowed

LEMMA FailureTyped ==
  ASSUME NEW type \in ErrorTypes
  PROVE  Failure(type) \in Outcomes
BY DEF Failure, statusForError, Outcomes, ErrorTypes

LEMMA EndAttemptSound ==
  ASSUME HttpTypeOK, NEW outcome \in Outcomes, EndAttempt(outcome)
  PROVE  /\ check' \in [at : {"validate", "connect", "ask", "done"}, attempt : 1..MaxAttempts,
                        redirects : 0..MaxRedirects, target : Targets, outcome : Outcomes]
         /\ check'.at \notin {"connect", "ask"}
<1>1. origin \in Targets
  BY DEF HttpTypeOK, Targets
<1>2. CASE Final(outcome) \/ check.attempt = MaxAttempts
  <2>1. check' = [check EXCEPT !.at = "done", !.outcome = outcome]
    BY <1>2 DEF EndAttempt
  <2> QED BY <2>1 DEF HttpTypeOK
<1>3. CASE ~(Final(outcome) \/ check.attempt = MaxAttempts)
  <2>1. check' = [check EXCEPT !.at = "validate", !.attempt = @ + 1, !.redirects = 0,
                               !.target = origin]
    BY <1>3 DEF EndAttempt
  <2>2. check.attempt + 1 \in 1..MaxAttempts /\ 0 \in 0..MaxRedirects
    BY <1>3, HttpBounds DEF HttpTypeOK
  <2> QED BY <1>1, <2>1, <2>2 DEF HttpTypeOK
<1> QED BY <1>2, <1>3

LEMMA InitSound == HttpInit => Sound
BY HttpBounds DEF HttpInit, Sound, HttpTypeOK, Validated, ConnectsWhereAllowed, Ongoing, Outcomes,
                  Targets

LEMMA ValidateSound == Sound /\ ValidateHop => Sound'
<1> SUFFICES ASSUME Sound, ValidateHop PROVE Sound'
  OBVIOUS
<1>1. UNCHANGED <<allowLoopback, origin, opened, spent>>
  BY DEF ValidateHop
<1>2. CASE Acceptable(check.target)
  <2>1. check' = [check EXCEPT !.at = "connect"]
    BY <1>2 DEF ValidateHop
  <2> QED BY <1>1, <1>2, <2>1 DEF Sound, HttpTypeOK, Validated, Acceptable, ConnectsWhereAllowed
<1>3. CASE ~Acceptable(check.target)
  <2>1. PICK type \in ErrorTypes : EndAttempt(Failure(type))
    BY <1>3 DEF ValidateHop, ErrorTypes
  <2> QED BY <1>1, <2>1, FailureTyped, EndAttemptSound
          DEF Sound, HttpTypeOK, Validated, ConnectsWhereAllowed
<1> QED BY <1>2, <1>3

(* A socket is opened to an address the validation or the lookup allows.   *)
LEMMA ConnectSound == Sound /\ Connect => Sound'
<1> SUFFICES ASSUME Sound, Connect PROVE Sound'
  OBVIOUS
<1> DEFINE Allowed == {"public"} \cup (IF allowLoopback THEN {"loopback"} ELSE {})
<1>1. check.at = "connect" /\ Acceptable(check.target) /\ UNCHANGED <<allowLoopback, origin>>
  BY DEF Connect, Sound, Validated
<1>2. ASSUME NEW a \in Allowed \cap AddressKinds, Connects(a) PROVE Sound'
  <2>1. /\ check' = [check EXCEPT !.at = "ask"]
        /\ opened' = opened \cup {a}
        /\ spent' = spent
    BY <1>2 DEF Connects
  <2>2. HttpTypeOK'
    BY <1>1, <2>1 DEF Sound, HttpTypeOK
  <2>3. Validated'
    BY <1>1, <2>1 DEF Sound, HttpTypeOK, Validated, Acceptable
  <2>4. ConnectsWhereAllowed'
    BY <1>1, <2>1 DEF Sound, ConnectsWhereAllowed
  <2> QED BY <2>2, <2>3, <2>4 DEF Sound
<1>3. CASE check.target = "literal" /\ Connects("public")
  BY <1>2, <1>3 DEF AddressKinds
<1>4. CASE check.target = "loopback" /\ Connects("loopback")
  <2>1. allowLoopback
    BY <1>1, <1>4 DEF Acceptable
  <2> QED BY <1>2, <1>4, <2>1 DEF AddressKinds
<1>5. ASSUME NEW addresses \in SUBSET AddressKinds, NEW a \in Permitted(addresses), Connects(a)
      PROVE  Sound'
  BY <1>2, <1>5 DEF Permitted
<1>6. CASE /\ EndAttempt(Failure("blocked_target"))
           /\ spent' = spent + Timeout
           /\ UNCHANGED opened
  BY <1>1, <1>6, FailureTyped, EndAttemptSound, HttpBounds
  DEF Sound, HttpTypeOK, Validated, ConnectsWhereAllowed, ErrorTypes
<1> QED BY <1>3, <1>4, <1>5, <1>6 DEF Connect

LEMMA RequestFailsSound == Sound /\ RequestFails => Sound'
<1> SUFFICES ASSUME Sound, RequestFails PROVE Sound'
  OBVIOUS
<1>1. PICK type \in ErrorTypes : EndAttempt(Failure(type))
  BY DEF RequestFails, classifyError, ErrorTypes
<1>2. UNCHANGED <<allowLoopback, origin, opened>> /\ spent' = spent + Timeout
  BY DEF RequestFails
<1> QED BY <1>1, <1>2, FailureTyped, EndAttemptSound, HttpBounds
        DEF Sound, HttpTypeOK, Validated, ConnectsWhereAllowed

LEMMA AnswerCases ==
  ASSUME Answer
  PROVE  \/ \E outcome \in Outcomes : EndAttempt(outcome)
         \/ /\ check.redirects < MaxRedirects
            /\ \E next \in Targets :
                 check' = [check EXCEPT !.at = "validate", !.redirects = @ + 1, !.target = next]
<1>1. /\ [status |-> "up", errorType |-> "none"] \in Outcomes
      /\ [status |-> "down", errorType |-> "too_many_redirects"] \in Outcomes
  BY DEF Outcomes, ErrorTypes
<1>2. Failure("http_error") \in Outcomes /\ Failure("unknown") \in Outcomes
  BY FailureTyped DEF ErrorTypes
<1> QED BY <1>1, <1>2 DEF Answer, MayFollow

LEMMA AnswerSound == Sound /\ Answer => Sound'
<1> SUFFICES ASSUME Sound, Answer PROVE Sound'
  OBVIOUS
<1>1. UNCHANGED <<allowLoopback, origin, opened>> /\ spent' = spent + Timeout
  BY DEF Answer
<1>2. CASE \E outcome \in Outcomes : EndAttempt(outcome)
  BY <1>1, <1>2, EndAttemptSound, HttpBounds
  DEF Sound, HttpTypeOK, Validated, ConnectsWhereAllowed
<1>3. ASSUME check.redirects < MaxRedirects, NEW next \in Targets,
             check' = [check EXCEPT !.at = "validate", !.redirects = @ + 1, !.target = next]
      PROVE  Sound'
  <2>1. check.redirects + 1 \in 0..MaxRedirects
    BY <1>3, HttpBounds DEF Sound, HttpTypeOK
  <2>2. check' \in [at : {"validate", "connect", "ask", "done"}, attempt : 1..MaxAttempts,
                    redirects : 0..MaxRedirects, target : Targets, outcome : Outcomes]
    BY <1>3, <2>1 DEF Sound, HttpTypeOK
  <2>3. check'.at = "validate"
    BY <1>3 DEF Sound, HttpTypeOK
  <2> QED BY <1>1, <2>2, <2>3, HttpBounds DEF Sound, HttpTypeOK, Validated, ConnectsWhereAllowed
<1> QED BY <1>2, <1>3, AnswerCases

LEMMA StepSound == Sound /\ [HttpNext]_httpVars => Sound'
<1>1. Sound /\ UNCHANGED httpVars => Sound'
  BY DEF Sound, HttpTypeOK, Validated, Acceptable, ConnectsWhereAllowed, httpVars
<1> QED BY <1>1, ValidateSound, ConnectSound, RequestFailsSound, AnswerSound DEF HttpNext

LEMMA SoundAlways == HttpSpec => []Sound
BY InitSound, StepSound, PTL DEF HttpSpec

\* The variables of a check keep their types.
THEOREM HttpTyped == HttpSpec => []HttpTypeOK
BY SoundAlways, PTL DEF Sound

\* For any number of redirects and attempts, a check opens no socket to an address that is
\* not allowed (http-checker.ts validates every hop, safe-lookup.ts every resolution).
THEOREM OnlyAllowedSockets == HttpSpec => []ConnectsWhereAllowed
BY SoundAlways, PTL DEF Sound

-----------------------------------------------------------------------------
(* Time.  Every hop before the one under way has taken at most a timeout.  *)

HopsPerAttempt == MaxRedirects + 1
Hops == (check.attempt - 1) * HopsPerAttempt + check.redirects

WithinHops ==
  /\ check.at # "done" => spent <= Timeout * Hops
  /\ check.at = "done" => spent <= LeaseForRequests

LEMMA Monotone ==
  ASSUME NEW t \in Nat, NEW a \in Nat, NEW b \in Nat, a <= b
  PROVE  t * a <= t * b
<1>1. PICK k \in Nat : b = a + k
  <2>1. b - a \in Nat /\ b = a + (b - a)
    OBVIOUS
  <2> QED BY <2>1
<1>2. t * b = t * a + t * k /\ t * k \in Nat /\ t * a \in Nat
  BY <1>1
<1> QED BY <1>2

LEMMA OneMore ==
  ASSUME NEW t \in Nat, NEW h \in Nat
  PROVE  t * (h + 1) = t * h + t /\ t * h \in Nat
OBVIOUS

LEMMA HopsBound ==
  ASSUME HttpTypeOK
  PROVE  /\ Hops \in Nat /\ HopsPerAttempt \in Nat /\ check.attempt \in Nat
         /\ Hops + 1 <= check.attempt * HopsPerAttempt
         /\ check.attempt * HopsPerAttempt <= HopsPerAttempt * MaxAttempts
         /\ check.attempt * HopsPerAttempt \in Nat /\ HopsPerAttempt * MaxAttempts \in Nat
<1> DEFINE n == check.attempt
<1>1. /\ n \in Nat /\ n >= 1 /\ n <= MaxAttempts /\ HopsPerAttempt \in Nat
      /\ check.redirects \in Nat /\ check.redirects + 1 <= HopsPerAttempt
  BY HttpBounds DEF HttpTypeOK, HopsPerAttempt
<1>2. n - 1 \in Nat /\ (n - 1) + 1 = n
  BY <1>1
<1>3. /\ (n - 1) * HopsPerAttempt = HopsPerAttempt * (n - 1)
      /\ n * HopsPerAttempt = HopsPerAttempt * n
  BY <1>1, <1>2
<1>4. HopsPerAttempt * n = HopsPerAttempt * (n - 1) + HopsPerAttempt /\ HopsPerAttempt * (n - 1) \in Nat
  BY <1>1, <1>2, OneMore
<1>5. HopsPerAttempt * n <= HopsPerAttempt * MaxAttempts
  BY <1>1, HttpBounds, Monotone
<1>6. HopsPerAttempt * n \in Nat /\ HopsPerAttempt * MaxAttempts \in Nat
  BY <1>1, HttpBounds
<1>7. Hops = HopsPerAttempt * (n - 1) + check.redirects
  BY <1>3 DEF Hops
<1> HIDE DEF n
<1> QED BY <1>1, <1>3, <1>4, <1>5, <1>6, <1>7 DEF n

(* The end of an attempt, with at most one more hop on the bill.           *)
LEMMA EndAttemptInTime ==
  ASSUME HttpTypeOK, WithinHops, check.at # "done", NEW outcome, EndAttempt(outcome),
         spent' \in {spent, spent + Timeout}
  PROVE  WithinHops'
<1> DEFINE all == check.attempt * HopsPerAttempt
<1>1. spent \in Nat /\ spent' \in Nat /\ Timeout \in Nat
  BY HttpBounds DEF HttpTypeOK
<1>2. spent' <= Timeout * (Hops + 1)
  <2>1. spent <= Timeout * Hops
    BY DEF WithinHops
  <2>2. Timeout * (Hops + 1) = Timeout * Hops + Timeout /\ Timeout * Hops \in Nat
    BY <1>1, HopsBound, OneMore
  <2> QED BY <1>1, <2>1, <2>2
<1>3. spent' <= Timeout * all
  <2>1. Timeout * (Hops + 1) <= Timeout * all
    <3>1. Hops + 1 \in Nat /\ all \in Nat /\ Hops + 1 <= all
      BY HopsBound
    <3> HIDE DEF all
    <3> QED BY <1>1, <3>1, Monotone
  <2>2. Timeout * (Hops + 1) \in Nat /\ Timeout * all \in Nat
    BY <1>1, HopsBound
  <2> QED BY <1>1, <1>2, <2>1, <2>2
<1>4. spent' <= LeaseForRequests
  <2>1. Timeout * all <= Timeout * (HopsPerAttempt * MaxAttempts)
    <3>1. all \in Nat /\ HopsPerAttempt * MaxAttempts \in Nat /\ all <= HopsPerAttempt * MaxAttempts
      BY HopsBound
    <3> HIDE DEF all
    <3> QED BY <1>1, <3>1, Monotone
  <2>2. Timeout * (HopsPerAttempt * MaxAttempts) = LeaseForRequests
    BY HttpBounds DEF HopsPerAttempt, LeaseForRequests
  <2>3. Timeout * all \in Nat /\ LeaseForRequests \in Nat
    BY <1>1, <2>2, HopsBound
  <2> QED BY <1>1, <1>3, <2>1, <2>2, <2>3
<1>5. CASE Final(outcome) \/ check.attempt = MaxAttempts
  <2>1. check'.at = "done"
    BY <1>5 DEF EndAttempt, HttpTypeOK
  <2> QED BY <1>4, <2>1 DEF WithinHops, LeaseForRequests
<1>6. CASE ~(Final(outcome) \/ check.attempt = MaxAttempts)
  <2>1. check'.at = "validate" /\ check'.attempt = check.attempt + 1 /\ check'.redirects = 0
    BY <1>6 DEF EndAttempt, HttpTypeOK
  <2>2. Hops' = all
    BY <2>1, HopsBound, HttpBounds DEF Hops, HopsPerAttempt, HttpTypeOK
  <2> QED BY <1>3, <2>1, <2>2 DEF WithinHops
<1> QED BY <1>5, <1>6

LEMMA InitInTime == HttpInit => WithinHops
<1> SUFFICES ASSUME HttpInit PROVE WithinHops
  OBVIOUS
<1>1. check.at = "validate" /\ spent = 0 /\ Hops \in Nat
  BY InitSound, HopsBound DEF HttpInit, Sound
<1>2. Timeout * Hops \in Nat
  BY <1>1, HttpBounds
<1> QED BY <1>1, <1>2 DEF WithinHops

LEMMA SameHops ==
  ASSUME HttpTypeOK, WithinHops, check.at # "done", UNCHANGED spent,
         NEW place \in {"connect", "ask"}, check' = [check EXCEPT !.at = place]
  PROVE  WithinHops'
<1>1. check'.at = place /\ check'.attempt = check.attempt /\ check'.redirects = check.redirects
  BY DEF HttpTypeOK
<1>2. Hops' = Hops
  BY <1>1 DEF Hops, HopsPerAttempt
<1> QED BY <1>1, <1>2 DEF WithinHops

LEMMA StepInTime == Sound /\ WithinHops /\ [HttpNext]_httpVars => WithinHops'
<1> SUFFICES ASSUME Sound, WithinHops, [HttpNext]_httpVars PROVE WithinHops'
  OBVIOUS
<1> USE DEF Sound
<1>1. CASE UNCHANGED httpVars
  BY <1>1 DEF httpVars, WithinHops, Hops, HopsPerAttempt, LeaseForRequests
<1>2. CASE ValidateHop
  BY <1>2, SameHops, EndAttemptInTime DEF ValidateHop
<1>3. CASE Connect
  BY <1>3, SameHops, EndAttemptInTime DEF Connect, Connects
<1>4. CASE RequestFails
  BY <1>4, EndAttemptInTime DEF RequestFails
<1>5. CASE Answer
  <2>1. check.at = "ask" /\ spent' = spent + Timeout
    BY <1>5 DEF Answer
  <2>2. CASE \E outcome \in Outcomes : EndAttempt(outcome)
    BY <2>1, <2>2, EndAttemptInTime
  <2>3. ASSUME NEW next \in Targets,
               check' = [check EXCEPT !.at = "validate", !.redirects = @ + 1, !.target = next]
        PROVE  WithinHops'
    <3>1. /\ check'.at = "validate" /\ check'.attempt = check.attempt
          /\ check'.redirects = check.redirects + 1
      BY <2>3 DEF HttpTypeOK
    <3>2. Hops' = Hops + 1
      BY <3>1, HopsBound, HttpBounds DEF Hops, HopsPerAttempt, HttpTypeOK
    <3>3. Timeout * (Hops + 1) = Timeout * Hops + Timeout /\ Timeout * Hops \in Nat
      BY HopsBound, HttpBounds, OneMore
    <3>4. spent <= Timeout * Hops /\ spent \in Nat /\ Timeout \in Nat
      BY <2>1, HttpBounds DEF WithinHops, HttpTypeOK
    <3>5. spent' <= Timeout * (Hops + 1)
      BY <2>1, <3>3, <3>4
    <3> QED BY <3>1, <3>2, <3>5 DEF WithinHops
  <2> QED BY <1>5, <2>2, <2>3, AnswerCases
<1> QED BY <1>1, <1>2, <1>3, <1>4, <1>5 DEF HttpNext

\* Within the hops counted so far is within the hops the lease is made for.
LEMMA HopsFitLease == HttpTypeOK /\ WithinHops => CheckFitsLease
<1> SUFFICES ASSUME HttpTypeOK, WithinHops PROVE CheckFitsLease
  OBVIOUS
<1>1. CASE check.at = "done"
  BY <1>1 DEF WithinHops, CheckFitsLease
<1>2. CASE check.at # "done"
  <2> DEFINE most == HopsPerAttempt * MaxAttempts
  <2>1. spent <= Timeout * Hops /\ spent \in Nat
    BY <1>2 DEF WithinHops, HttpTypeOK
  <2>2. Hops \in Nat /\ most \in Nat /\ Hops <= most
    BY HopsBound
  <2>3. Timeout * most = LeaseForRequests
    BY HttpBounds DEF HopsPerAttempt, LeaseForRequests
  <2> HIDE DEF most
  <2>4. Timeout * Hops <= Timeout * most /\ Timeout * Hops \in Nat /\ Timeout * most \in Nat
    BY <2>2, HttpBounds, Monotone
  <2> QED BY <2>1, <2>3, <2>4 DEF CheckFitsLease
<1> QED BY <1>1, <1>2

\* For any number of redirects and attempts and any timeout, the requests of one check fit
\* into its lease (main.ts, LEASE_DURATION_MS).
THEOREM LeaseOutlastsRequests == HttpSpec => []CheckFitsLease
<1>1. HttpSpec => []WithinHops
  BY SoundAlways, InitInTime, StepInTime, PTL DEF HttpSpec
<1>2. HttpSpec => []HttpTypeOK
  BY HttpTyped
<1> QED BY <1>1, <1>2, HopsFitLease, PTL

-----------------------------------------------------------------------------
(***************************************************************************)
(* The announcement of an incident.                                        *)
(***************************************************************************)

Concluded(e, u) == notice[e][u] \in {"sent", "failed"}
Busy(d) == ~Waits(d, "idle")

(* Who has the flag of an event runs alone, and so far without a failure.  *)
Owns(d) ==
  LET e == dispatch[d].event
  IN /\ e \in claimed \ interrupted
     /\ e = "recovered" => outage # "open"
     /\ \A c \in Dispatchers : Busy(c) /\ dispatch[c].event = e => c = d

(* Whoever is still to be told may be told, and nobody is missing.         *)
Recipients(d) ==
  LET r == dispatch[d]
      e == r.event
  IN /\ r.at = "settings" =>
          /\ \A u \in r.todo \cap unwilling[e] : ~Wants(settings[u], e)
          /\ willing[e] \subseteq r.todo
     /\ r.at \in {"insert", "send", "record"} =>
          /\ r.todo \cap unwilling[e] = {}
          /\ \A u \in willing[e] \ r.todo : Concluded(e, u)

(* The recipient a run is at has a document of its own and no message yet. *)
AtOne(d) ==
  LET r == dispatch[d]
      e == r.event
  IN /\ r.at \notin {"send", "record"} => r.to = {}
     /\ r.at \in {"send", "record"} =>
          \E u \in r.todo :
            /\ r.to = {u}
            /\ notice[e][u] = "pending"
            /\ mailed[e][u] \in (IF r.at = "send" THEN {0} ELSE {0, 1})
            /\ r.at = "record" /\ r.result = "delivered" => mailed[e][u] = 1

Runs == \A d \in Dispatchers : AtOne(d) /\ (Busy(d) => Owns(d) /\ Recipients(d))

(* Before the claim nothing has happened, and no message is sent before    *)
(* its document is there.                                                  *)
Untouched ==
  \A e \in Events :
    /\ e \notin claimed => e \notin interrupted /\ willing[e] = {} /\ unwilling[e] = {}
    /\ \A u \in People :
         /\ e \notin claimed => notice[e][u] = "none"
         /\ notice[e][u] = "none" => mailed[e][u] = 0

(* The histories are on the right side of what the people want now.        *)
Sides ==
  \A e \in Events :
    /\ willing[e] \subseteq Listening(e, joined, settings)
    /\ unwilling[e] \cap Listening(e, joined, settings) = {}

Announced ==
  /\ NotifyTypeOK
  /\ Runs
  /\ Untouched
  /\ Sides
  /\ AtMostOneEmail
  /\ NoticesAreTrue
  /\ EverybodyTold

LEMMA WantsIsListening ==
  ASSUME NEW e \in Events, NEW u \in People, u \in joined
  PROVE  u \in Listening(e, joined, settings) <=> Wants(settings[u], e)
BY DEF Listening, Wants, Defaults, Events

(* What a step of one run leaves of the others.                            *)
LEMMA Moved ==
  ASSUME NotifyTypeOK, NEW d \in Dispatchers, NEW r, Moves(d, r)
  PROVE  /\ dispatch'[d] = r
         /\ \A c \in Dispatchers : c # d => dispatch'[c] = dispatch[c]
BY DEF NotifyTypeOK, Moves

Stages == {"idle", "incident", "members", "settings", "insert", "send", "record"}
RunRecords == [at : Stages, event : Events, todo : SUBSET People, to : SUBSET People,
               result : {"none", "delivered", "refused"}]

LEMMA MovedTyped ==
  ASSUME NotifyTypeOK, NEW d \in Dispatchers, NEW r \in RunRecords, Moves(d, r)
  PROVE  dispatch' \in [Dispatchers -> RunRecords]
BY DEF NotifyTypeOK, Moves, RunRecords, Stages, Events

LEMMA InitAnnounced == NotifyInit => Announced
<1> SUFFICES ASSUME NotifyInit PROVE Announced
  OBVIOUS
<1>1. NotifyTypeOK
  BY NotifyAssumption DEF NotifyInit, NotifyTypeOK, NotifyAssumption, NoRow, Resting, Events
<1>2. Runs
  BY DEF NotifyInit, Runs, AtOne, Busy, Waits, Resting
<1>3. Untouched /\ Sides
  BY DEF NotifyInit, Untouched, Sides, Events
<1>4. AtMostOneEmail /\ NoticesAreTrue /\ EverybodyTold
  BY DEF NotifyInit, AtMostOneEmail, NoticesAreTrue, EverybodyTold, Events
<1> QED BY <1>1, <1>2, <1>3, <1>4 DEF Announced

----------------------------------------------------------------------------
(* A run that only moves on: it claims nothing, writes nothing and sends   *)
(* nothing.                                                                *)

LEMMA MoveOn ==
  ASSUME Announced, NEW d \in Dispatchers, NEW r \in RunRecords, Moves(d, r), Busy(d),
         r.at \notin {"idle", "send", "record"}, r.event = dispatch[d].event, r.to = {},
         dispatch[d].to = {}, Recipients(d)',
         UNCHANGED <<claimed, outage, joined, settings, notice, mailed, changes, willing,
                     unwilling, interrupted>>
  PROVE  Announced'
<1>1. /\ dispatch'[d] = r
      /\ \A c \in Dispatchers : c # d => dispatch'[c] = dispatch[c]
  BY Moved DEF Announced
<1>2. NotifyTypeOK'
  BY MovedTyped DEF Announced, NotifyTypeOK, RunRecords, Stages, Events
<1>3. \A c \in Dispatchers : Busy(c)' <=> Busy(c)
  BY <1>1 DEF Busy, Waits
<1>4. \A c \in Dispatchers : dispatch'[c].event = dispatch[c].event /\ dispatch'[c].to = dispatch[c].to
  BY <1>1
<1>5. Runs'
  <2> SUFFICES ASSUME NEW c \in Dispatchers PROVE AtOne(c)' /\ (Busy(c)' => Owns(c)' /\ Recipients(c)')
    BY DEF Runs
  <2>1. AtOne(c)'
    BY <1>1 DEF Announced, Runs, AtOne
  <2>2. ASSUME Busy(c)' PROVE Owns(c)'
    BY <1>3, <1>4, <2>2 DEF Announced, Runs, Owns
  <2>3. ASSUME Busy(c)' PROVE Recipients(c)'
    <3>1. CASE c = d
      BY <3>1
    <3>2. CASE c # d
      <4>1. Recipients(c) /\ dispatch'[c] = dispatch[c]
        BY <1>1, <1>3, <2>3, <3>2 DEF Announced, Runs
      <4> QED BY <4>1 DEF Recipients, Concluded
    <3> QED BY <3>1, <3>2
  <2> QED BY <2>1, <2>2, <2>3
<1>6. Untouched' /\ Sides' /\ AtMostOneEmail'
  BY DEF Announced, Untouched, Sides, AtMostOneEmail
<1>7. NoticesAreTrue'
  BY <1>4 DEF Announced, NoticesAreTrue
<1>8. EverybodyTold'
  BY <1>3, <1>4 DEF Announced, EverybodyTold, Busy
<1> QED BY <1>2, <1>5, <1>6, <1>7, <1>8 DEF Announced

(* A run that rests, when everybody it was to tell has been told or the    *)
(* incident is gone.                                                       *)
LEMMA Rests ==
  ASSUME Announced, NEW d \in Dispatchers, Moves(d, Resting), Busy(d), dispatch[d].to = {},
         \/ outage = "deleted"
         \/ \A u \in willing[dispatch[d].event] : Concluded(dispatch[d].event, u),
         UNCHANGED <<claimed, outage, joined, settings, notice, mailed, changes, willing,
                     unwilling, interrupted>>
  PROVE  Announced'
<1>1. /\ dispatch'[d] = Resting
      /\ \A c \in Dispatchers : c # d => dispatch'[c] = dispatch[c]
  BY Moved DEF Announced
<1>2. NotifyTypeOK'
  <2>1. Resting \in RunRecords
    BY DEF Resting, RunRecords, Stages, Events
  <2> QED BY <2>1, MovedTyped DEF Announced, NotifyTypeOK, RunRecords, Stages, Events
<1>3. ~Busy(d)' /\ \A c \in Dispatchers : c # d => (Busy(c)' <=> Busy(c))
  BY <1>1 DEF Busy, Waits, Resting
<1>4. Runs'
  <2> SUFFICES ASSUME NEW c \in Dispatchers PROVE AtOne(c)' /\ (Busy(c)' => Owns(c)' /\ Recipients(c)')
    BY DEF Runs
  <2>1. CASE c = d
    BY <1>1, <1>3, <2>1 DEF AtOne, Resting
  <2>2. CASE c # d
    <3>1. dispatch'[c] = dispatch[c] /\ AtOne(c) /\ (Busy(c) => Owns(c) /\ Recipients(c))
      BY <1>1, <2>2 DEF Announced, Runs
    <3>2. AtOne(c)'
      BY <3>1 DEF AtOne
    <3>3. ASSUME Busy(c)' PROVE Owns(c)' /\ Recipients(c)'
      <4>1. Owns(c) /\ Recipients(c)
        BY <1>3, <2>2, <3>1, <3>3
      <4>2. Recipients(c)'
        BY <3>1, <4>1 DEF Recipients, Concluded
      <4>3. Owns(c)'
        BY <1>1, <1>3, <3>1, <4>1 DEF Owns
      <4> QED BY <4>2, <4>3
    <3> QED BY <3>2, <3>3
  <2> QED BY <2>1, <2>2
<1>5. Untouched' /\ Sides' /\ AtMostOneEmail'
  BY DEF Announced, Untouched, Sides, AtMostOneEmail
<1>6. NoticesAreTrue'
  BY <1>1 DEF Announced, NoticesAreTrue
<1>7. EverybodyTold'
  <2> SUFFICES ASSUME NEW e \in (claimed \ interrupted)', outage' # "deleted",
                      \A c \in Dispatchers : Waits(c, "idle")' \/ dispatch'[c].event # e
               PROVE  \A u \in willing[e]' : notice'[e][u] \in {"sent", "failed"}
    BY DEF EverybodyTold
  <2>1. CASE e = dispatch[d].event
    BY <2>1 DEF Concluded
  <2>2. CASE e # dispatch[d].event
    <3>1. \A c \in Dispatchers : Waits(c, "idle") \/ dispatch[c].event # e
      BY <1>1, <2>2 DEF Waits
    <3> QED BY <3>1 DEF Announced, EverybodyTold
  <2> QED BY <2>1, <2>2
<1> QED BY <1>2, <1>4, <1>5, <1>6, <1>7 DEF Announced

LEMMA ReadIncidentKeeps == ASSUME Announced, NEW d \in Dispatchers, ReadIncident(d) PROVE Announced'
<1> DEFINE r == dispatch[d]
<1>1. /\ r.at = "incident" /\ Busy(d) /\ r \in RunRecords /\ Owns(d) /\ r.to = {}
  BY DEF ReadIncident, Waits, Busy, Announced, NotifyTypeOK, RunRecords, Stages, Events, Runs, AtOne
<1>2. CASE outage = "deleted" \/ (r.event = "recovered" /\ outage # "resolved")
  <2>1. outage = "deleted"
    BY <1>1, <1>2 DEF Owns, Announced, NotifyTypeOK
  <2> QED BY <1>1, <1>2, <2>1, Rests DEF ReadIncident
<1>3. CASE ~(outage = "deleted" \/ (r.event = "recovered" /\ outage # "resolved"))
  <2> DEFINE next == [r EXCEPT !.at = "members"]
  <2>1. next \in RunRecords /\ next.at = "members" /\ next.event = r.event /\ next.to = {}
    BY <1>1 DEF RunRecords, Stages
  <2>2. Moves(d, next)
    BY <1>3 DEF ReadIncident
  <2>3. dispatch'[d] = next
    BY <2>2, Moved DEF Announced
  <2>4. Recipients(d)'
    BY <2>1, <2>3 DEF Recipients
  <2> QED BY <1>1, <2>1, <2>2, <2>4, MoveOn DEF ReadIncident
<1> QED BY <1>2, <1>3

LEMMA ListMembersKeeps == ASSUME Announced, NEW d \in Dispatchers, ListMembers(d) PROVE Announced'
<1> DEFINE r == dispatch[d]
           e == r.event
<1>1. /\ r.at = "members" /\ Busy(d) /\ r \in RunRecords /\ Owns(d) /\ r.to = {} /\ e \in Events
      /\ joined \subseteq People
  BY DEF ListMembers, Waits, Busy, Announced, NotifyTypeOK, RunRecords, Stages, Events, Runs, AtOne
<1>2. willing[e] \subseteq joined /\ unwilling[e] \subseteq People
  BY <1>1 DEF Announced, Sides, Listening, NotifyTypeOK
<1>3. CASE joined = {}
  BY <1>1, <1>2, <1>3, Rests DEF ListMembers
<1>4. CASE joined # {}
  <2> DEFINE next == [r EXCEPT !.at = "settings", !.todo = joined]
  <2>1. /\ next \in RunRecords /\ next.at = "settings" /\ next.event = e /\ next.to = {}
        /\ next.todo = joined
    BY <1>1 DEF RunRecords, Stages
  <2>2. Moves(d, next)
    BY <1>4 DEF ListMembers
  <2>3. dispatch'[d] = next
    BY <2>2, Moved DEF Announced
  <2>4. \A u \in joined \cap unwilling[e] : ~Wants(settings[u], e)
    BY <1>1, <1>2, WantsIsListening DEF Announced, Sides
  <2>5. Recipients(d)'
    BY <1>2, <2>1, <2>3, <2>4 DEF Recipients, ListMembers, Wants
  <2> QED BY <1>1, <2>1, <2>2, <2>5, MoveOn DEF ListMembers
<1> QED BY <1>3, <1>4

LEMMA ReadSettingsKeeps == ASSUME Announced, NEW d \in Dispatchers, ReadSettings(d) PROVE Announced'
<1> DEFINE r == dispatch[d]
           e == r.event
           told == {u \in r.todo : Wants(settings[u], e)}
<1>1. /\ r.at = "settings" /\ Busy(d) /\ r \in RunRecords /\ Owns(d) /\ r.to = {} /\ e \in Events
      /\ Recipients(d) /\ willing[e] \subseteq People
  BY DEF ReadSettings, Waits, Busy, Announced, NotifyTypeOK, RunRecords, Stages, Events, Runs, AtOne
<1>2. willing[e] \subseteq told
  <2> SUFFICES ASSUME NEW u \in willing[e] PROVE u \in told
    OBVIOUS
  <2>1. u \in r.todo /\ u \in Listening(e, joined, settings) /\ u \in joined
    BY <1>1 DEF Recipients, Announced, Sides, Listening
  <2> QED BY <1>1, <2>1, WantsIsListening
<1>3. told \cap unwilling[e] = {}
  BY <1>1 DEF Recipients
<1>4. CASE told = {}
  BY <1>1, <1>2, <1>4, Rests DEF ReadSettings
<1>5. CASE told # {}
  <2> DEFINE next == [r EXCEPT !.at = "insert", !.todo = told]
  <2>1. told \subseteq People
    BY <1>1 DEF RunRecords
  <2> HIDE DEF told
  <2>2. /\ next \in RunRecords /\ next.at = "insert" /\ next.event = e /\ next.to = {}
        /\ next.todo = told
    BY <1>1, <2>1 DEF RunRecords, Stages
  <2>3. Moves(d, next)
    BY <1>5 DEF ReadSettings, told
  <2>4. dispatch'[d] = next
    BY <2>3, Moved DEF Announced
  <2>5. Recipients(d)'
    BY <1>2, <1>3, <2>2, <2>4 DEF Recipients, ReadSettings
  <2> QED BY <1>1, <2>2, <2>3, <2>5, MoveOn DEF ReadSettings
<1> QED BY <1>4, <1>5

----------------------------------------------------------------------------
(* A run that writes about its own event leaves the other runs theirs.     *)

LEMMA OthersKeep ==
  ASSUME Announced, NEW d \in Dispatchers, Busy(d), NEW r, Moves(d, r),
         \A e \in Events : e # dispatch[d].event => notice'[e] = notice[e] /\ mailed'[e] = mailed[e],
         UNCHANGED <<claimed, outage, joined, settings, willing, unwilling, interrupted>>,
         r.event = dispatch[d].event,
         NEW c \in Dispatchers, c # d
  PROVE  AtOne(c)' /\ (Busy(c)' => Owns(c)' /\ Recipients(c)')
<1>1. /\ dispatch'[d] = r
      /\ \A x \in Dispatchers : x # d => dispatch'[x] = dispatch[x]
  BY Moved DEF Announced
<1>2. dispatch'[c] = dispatch[c] /\ AtOne(c) /\ (Busy(c) => Owns(c) /\ Recipients(c))
  BY <1>1 DEF Announced, Runs
<1>3. CASE ~Busy(c)
  <2>1. dispatch[c].at = "idle" /\ ~Busy(c)'
    BY <1>2, <1>3 DEF Busy, Waits
  <2> QED BY <1>2, <2>1 DEF AtOne
<1>4. CASE Busy(c)
  <2>1. dispatch[c].event # dispatch[d].event
    BY <1>4 DEF Announced, Runs, Owns
  <2>2. notice'[dispatch[c].event] = notice[dispatch[c].event]
        /\ mailed'[dispatch[c].event] = mailed[dispatch[c].event]
    BY <2>1 DEF Announced, NotifyTypeOK, Events
  <2>3. AtOne(c)'
    BY <1>2, <2>2 DEF AtOne
  <2>4. Recipients(c)'
    BY <1>2, <1>4, <2>2 DEF Recipients, Concluded
  <2>5. Owns(c)'
    <3>1. Owns(c)
      BY <1>2, <1>4
    <3>2. \A x \in Dispatchers : dispatch'[x].event = dispatch[x].event
      BY <1>1
    <3>3. \A x \in Dispatchers : Busy(x)' => Busy(x)
      BY <1>1 DEF Busy, Waits
    <3> QED BY <1>2, <3>1, <3>2, <3>3 DEF Owns
  <2> QED BY <2>3, <2>4, <2>5
<1> QED BY <1>3, <1>4

(* The parts of the invariant that speak of all runs, after such a step.   *)
LEMMA RunsKept ==
  ASSUME Announced, NEW d \in Dispatchers, Busy(d), NEW r, Moves(d, r),
         \A e \in Events : e # dispatch[d].event => notice'[e] = notice[e] /\ mailed'[e] = mailed[e],
         UNCHANGED <<claimed, outage, joined, settings, willing, unwilling, interrupted>>,
         r.event = dispatch[d].event, r.at # "idle",
         AtOne(d)', Recipients(d)'
  PROVE  Runs'
<1>1. /\ dispatch'[d] = r
      /\ \A c \in Dispatchers : c # d => dispatch'[c] = dispatch[c]
  BY Moved DEF Announced
<1>2. Owns(d)'
  <2>1. Owns(d)
    BY DEF Announced, Runs
  <2>2. \A x \in Dispatchers : dispatch'[x].event = dispatch[x].event /\ (Busy(x)' => Busy(x))
    BY <1>1 DEF Busy, Waits
  <2> QED BY <2>1, <2>2 DEF Owns
<1> QED BY <1>2, OthersKeep DEF Runs

(* The current recipient is settled, and the run goes on to the next one   *)
(* or rests.                                                               *)
LEMMA Proceeds ==
  ASSUME Announced, NEW d \in Dispatchers, NEW u \in People,
         dispatch[d].at \in {"insert", "record"}, u \in dispatch[d].todo,
         dispatch[d].to \subseteq {u}, Moves(d, Proceed(dispatch[d], {u})),
         NEW s \in {"none", "pending", "sent", "failed"},
         notice' = [notice EXCEPT ![dispatch[d].event][u] = s],
         s \in {"sent", "failed"}, s = "sent" => mailed[dispatch[d].event][u] = 1,
         UNCHANGED <<claimed, outage, joined, settings, mailed, changes, willing, unwilling,
                     interrupted>>
  PROVE  Announced'
<1> DEFINE r == dispatch[d]
           e == r.event
           next == Proceed(r, {u})
<1>1. /\ Busy(d) /\ r \in RunRecords /\ Owns(d) /\ Recipients(d) /\ e \in Events
      /\ willing[e] \subseteq People
  BY DEF Waits, Busy, Announced, NotifyTypeOK, RunRecords, Stages, Events, Runs
<1>2. /\ dispatch'[d] = next
      /\ \A c \in Dispatchers : c # d => dispatch'[c] = dispatch[c]
  BY Moved DEF Announced
<1>3. \/ next = Resting /\ r.todo \subseteq {u}
      \/ next = [r EXCEPT !.at = "insert", !.todo = @ \ {u}, !.to = {}, !.result = "none"]
  BY DEF Proceed
<1>4. next \in RunRecords /\ next.to = {}
  <2>1. Resting \in RunRecords /\ Resting.to = {}
    BY DEF Resting, RunRecords, Stages, Events
  <2>2. /\ [r EXCEPT !.at = "insert", !.todo = @ \ {u}, !.to = {}, !.result = "none"] \in RunRecords
        /\ [r EXCEPT !.at = "insert", !.todo = @ \ {u}, !.to = {}, !.result = "none"].to = {}
    BY <1>1 DEF RunRecords, Stages
  <2> QED BY <1>3, <2>1, <2>2
<1> HIDE DEF next
<1>5. /\ notice' \in [Events -> [People -> {"none", "pending", "sent", "failed"}]]
      /\ notice'[e][u] = s
      /\ \A f \in Events, v \in People : f # e \/ v # u => notice'[f][v] = notice[f][v]
      /\ \A f \in Events : f # e => notice'[f] = notice[f]
  BY <1>1 DEF Announced, NotifyTypeOK
<1>6. NotifyTypeOK'
  BY <1>4, <1>5, MovedTyped DEF Announced, NotifyTypeOK, RunRecords, Stages, Events, next
<1>7. \A v \in willing[e] \ (r.todo \ {u}) : notice'[e][v] \in {"sent", "failed"}
  <2> SUFFICES ASSUME NEW v \in willing[e] \ (r.todo \ {u}) PROVE notice'[e][v] \in {"sent", "failed"}
    OBVIOUS
  <2>1. v \in People
    BY <1>1
  <2>2. CASE v = u
    BY <1>5, <2>2
  <2>3. CASE v # u
    BY <1>1, <1>5, <2>1, <2>3 DEF Recipients, Concluded
  <2> QED BY <2>2, <2>3
<1>8. Runs'
  <2>1. CASE next = Resting
    <3>1. ~Busy(d)' /\ AtOne(d)'
      BY <1>2, <2>1 DEF Busy, Waits, Resting, AtOne
    <3>2. ASSUME NEW c \in Dispatchers, c # d PROVE AtOne(c)' /\ (Busy(c)' => Owns(c)' /\ Recipients(c)')
      <4>1. dispatch'[c] = dispatch[c] /\ AtOne(c) /\ (Busy(c) => Owns(c) /\ Recipients(c))
        BY <1>2, <3>2 DEF Announced, Runs
      <4>2. CASE ~Busy(c)
        <5>1. dispatch[c].at = "idle" /\ ~Busy(c)'
          BY <4>1, <4>2 DEF Busy, Waits
        <5> QED BY <4>1, <5>1 DEF AtOne
      <4>3. CASE Busy(c)
        <5>1. dispatch[c].event # e /\ dispatch[c].event \in Events
          BY <1>1, <3>2, <4>3 DEF Owns, Announced, NotifyTypeOK, Events
        <5>2. notice'[dispatch[c].event] = notice[dispatch[c].event]
          BY <1>5, <5>1
        <5>3. AtOne(c)' /\ Recipients(c)'
          BY <4>1, <4>3, <5>2 DEF AtOne, Recipients, Concluded
        <5>4. Owns(c)'
          <6>1. \A x \in Dispatchers : Busy(x)' => Busy(x) /\ dispatch'[x] = dispatch[x]
            BY <1>2, <3>1 DEF Busy, Waits
          <6> QED BY <4>1, <4>3, <6>1 DEF Owns
        <5> QED BY <5>3, <5>4
      <4> QED BY <4>2, <4>3
    <3> QED BY <3>1, <3>2 DEF Runs
  <2>2. CASE next = [r EXCEPT !.at = "insert", !.todo = @ \ {u}, !.to = {}, !.result = "none"]
    <3>1. next.at = "insert" /\ next.todo = r.todo \ {u} /\ next.event = e
      BY <1>1, <2>2 DEF RunRecords
    <3>2. AtOne(d)'
      BY <1>2, <1>4, <3>1 DEF AtOne
    <3>3. Recipients(d)'
      BY <1>1, <1>2, <1>7, <3>1 DEF Recipients, Concluded
    <3> QED BY <1>1, <1>5, <3>1, <3>2, <3>3, RunsKept DEF next
  <2> QED BY <1>3, <2>1, <2>2 DEF next
<1>9. Untouched'
  BY <1>1, <1>5 DEF Announced, Untouched, Owns
<1>10. Sides' /\ AtMostOneEmail'
  BY DEF Announced, Sides, AtMostOneEmail
<1>11. NoticesAreTrue'
  <2> SUFFICES ASSUME NEW f \in Events, NEW v \in People
               PROVE  /\ notice'[f][v] = "sent" => mailed[f][v] = 1
                      /\ notice'[f][v] = "pending" =>
                           f \in interrupted \/ \E c \in Dispatchers : dispatch'[c].event = f /\ v \in dispatch'[c].to
    BY DEF NoticesAreTrue
  <2>1. CASE f = e /\ v = u
    BY <1>5, <2>1
  <2>2. CASE ~(f = e /\ v = u)
    <3>1. notice'[f][v] = notice[f][v]
      BY <1>5, <2>2
    <3>2. ASSUME NEW c \in Dispatchers, dispatch[c].event = f, v \in dispatch[c].to
          PROVE  dispatch'[c].event = f /\ v \in dispatch'[c].to
      <4>1. c # d
        BY <2>2, <3>2
      <4> QED BY <1>2, <3>2, <4>1
    <3> QED BY <3>1, <3>2 DEF Announced, NoticesAreTrue
  <2> QED BY <2>1, <2>2
<1>12. EverybodyTold'
  <2> SUFFICES ASSUME NEW f \in (claimed \ interrupted)', outage' # "deleted",
                      \A c \in Dispatchers : Waits(c, "idle")' \/ dispatch'[c].event # f
               PROVE  \A v \in willing[f]' : notice'[f][v] \in {"sent", "failed"}
    BY DEF EverybodyTold
  <2>1. CASE f = e
    <3>1. next = Resting
      <4>1. [r EXCEPT !.at = "insert", !.todo = @ \ {u}, !.to = {}, !.result = "none"].at = "insert"
            /\ [r EXCEPT !.at = "insert", !.todo = @ \ {u}, !.to = {}, !.result = "none"].event = e
        BY <1>1 DEF RunRecords
      <4> QED BY <1>2, <1>3, <2>1, <4>1 DEF Waits
    <3>2. r.todo \subseteq {u}
      <4>1. Resting.at = "idle"
        BY DEF Resting
      <4>2. [r EXCEPT !.at = "insert", !.todo = @ \ {u}, !.to = {}, !.result = "none"].at = "insert"
        BY <1>1 DEF RunRecords
      <4> QED BY <1>3, <3>1, <4>1, <4>2
    <3> QED BY <1>7, <2>1, <3>2
  <2>2. CASE f # e
    <3>1. \A c \in Dispatchers : Waits(c, "idle") \/ dispatch[c].event # f
      BY <1>2, <2>2 DEF Waits
    <3>2. f \in Events /\ notice'[f] = notice[f]
      BY <1>5, <2>2 DEF Announced, NotifyTypeOK, Events
    <3> QED BY <3>1, <3>2 DEF Announced, EverybodyTold
  <2> QED BY <2>1, <2>2
<1> QED BY <1>6, <1>8, <1>9, <1>10, <1>11, <1>12 DEF Announced

LEMMA SameEntry ==
  ASSUME NEW S, NEW T, NEW V, NEW f \in [S -> [T -> V]], NEW e \in S, NEW u \in T
  PROVE  f = [f EXCEPT ![e][u] = f[e][u]]
<1>1. f[e] \in [T -> V]
  OBVIOUS
<1>2. f[e] = [f[e] EXCEPT ![u] = f[e][u]]
  BY <1>1
<1>3. f = [f EXCEPT ![e] = f[e]]
  OBVIOUS
<1> QED BY <1>2, <1>3

(* A document that is there before the run inserts its own is settled: one *)
(* that is pending belongs to another run, and this run is alone.          *)
LEMMA InsertSettled ==
  ASSUME Announced, NEW d \in Dispatchers, Waits(d, "insert"), NEW u \in People,
         notice[dispatch[d].event][u] # "none"
  PROVE  Concluded(dispatch[d].event, u)
<1> DEFINE e == dispatch[d].event
<1>1. e \in Events /\ Busy(d) /\ Owns(d) /\ dispatch[d].to = {}
  BY DEF Waits, Busy, Announced, NotifyTypeOK, Events, Runs, AtOne
<1>2. ASSUME notice[e][u] = "pending" PROVE FALSE
  <2>1. PICK c \in Dispatchers : dispatch[c].event = e /\ u \in dispatch[c].to
    BY <1>1, <1>2 DEF Announced, NoticesAreTrue, Owns
  <2>2. Busy(c)
    BY <2>1 DEF Busy, Waits, Announced, Runs, AtOne
  <2> QED BY <1>1, <2>1, <2>2 DEF Owns
<1> QED BY <1>1, <1>2 DEF Concluded, Announced, NotifyTypeOK

(* A step of a run at one recipient: the rest is untouched.                *)
LEMMA OneRecipient ==
  ASSUME Announced, NEW d \in Dispatchers, NEW u \in People, Busy(d),
         notice[dispatch[d].event][u] \in {"none", "pending"},
         notice' = [notice EXCEPT ![dispatch[d].event][u] = "pending"],
         NEW sent \in {0, 1},
         mailed[dispatch[d].event][u] = 0,
         mailed' = [mailed EXCEPT ![dispatch[d].event][u] = sent],
         u \notin unwilling[dispatch[d].event],
         NEW r \in RunRecords, Moves(d, r), r.event = dispatch[d].event, r.at # "idle", r.to = {u},
         dispatch[d].to \subseteq {u},
         AtOne(d)', Recipients(d)',
         UNCHANGED <<claimed, outage, joined, settings, changes, willing, unwilling, interrupted>>
  PROVE  Announced'
<1> DEFINE e == dispatch[d].event
<1>1. /\ e \in Events /\ e \in claimed
      /\ mailed[e][u] \in Nat
  BY DEF Announced, NotifyTypeOK, Events, Runs, Owns
<1>2. /\ dispatch'[d] = r
      /\ \A c \in Dispatchers : c # d => dispatch'[c] = dispatch[c]
  BY Moved DEF Announced
<1>3. /\ notice' \in [Events -> [People -> {"none", "pending", "sent", "failed"}]]
      /\ mailed' \in [Events -> [People -> Nat]]
      /\ notice'[e][u] = "pending" /\ mailed'[e][u] = sent
      /\ \A f \in Events, v \in People : f # e \/ v # u =>
           notice'[f][v] = notice[f][v] /\ mailed'[f][v] = mailed[f][v]
      /\ \A f \in Events : f # e => notice'[f] = notice[f] /\ mailed'[f] = mailed[f]
  BY <1>1 DEF Announced, NotifyTypeOK
<1>4. NotifyTypeOK'
  BY <1>3, MovedTyped DEF Announced, NotifyTypeOK, RunRecords, Stages, Events
<1>5. Runs'
  BY <1>3, RunsKept
<1>6. Untouched' /\ Sides'
  BY <1>1, <1>3 DEF Announced, Untouched, Sides
<1>7. AtMostOneEmail'
  BY <1>1, <1>3 DEF Announced, AtMostOneEmail
<1>8. NoticesAreTrue'
  <2> SUFFICES ASSUME NEW f \in Events, NEW v \in People
               PROVE  /\ notice'[f][v] = "sent" => mailed'[f][v] = 1
                      /\ notice'[f][v] = "pending" =>
                           f \in interrupted \/ \E c \in Dispatchers : dispatch'[c].event = f /\ v \in dispatch'[c].to
    BY DEF NoticesAreTrue
  <2>1. CASE f = e /\ v = u
    BY <1>2, <1>3, <2>1
  <2>2. CASE ~(f = e /\ v = u)
    <3>1. notice'[f][v] = notice[f][v] /\ mailed'[f][v] = mailed[f][v]
      BY <1>3, <2>2
    <3>2. ASSUME NEW c \in Dispatchers, dispatch[c].event = f, v \in dispatch[c].to
          PROVE  dispatch'[c].event = f /\ v \in dispatch'[c].to
      <4>1. c # d
        BY <2>2, <3>2
      <4> QED BY <1>2, <3>2, <4>1
    <3> QED BY <3>1, <3>2 DEF Announced, NoticesAreTrue
  <2> QED BY <2>1, <2>2
<1>9. EverybodyTold'
  <2> SUFFICES ASSUME NEW f \in (claimed \ interrupted)', outage' # "deleted",
                      \A c \in Dispatchers : Waits(c, "idle")' \/ dispatch'[c].event # f
               PROVE  \A v \in willing[f]' : notice'[f][v] \in {"sent", "failed"}
    BY DEF EverybodyTold
  <2>1. f # e
    BY <1>2 DEF Waits
  <2>2. \A c \in Dispatchers : Waits(c, "idle") \/ dispatch[c].event # f
    BY <1>2, <2>1 DEF Waits
  <2>3. f \in Events /\ notice'[f] = notice[f]
    BY <1>3, <2>1 DEF Announced, NotifyTypeOK, Events
  <2> QED BY <2>2, <2>3 DEF Announced, EverybodyTold
<1> QED BY <1>4, <1>5, <1>6, <1>7, <1>8, <1>9 DEF Announced

LEMMA InsertKeeps ==
  ASSUME Announced, NEW d \in Dispatchers, NEW u \in People, InsertNotice(d, u) PROVE Announced'
<1> DEFINE r == dispatch[d]
           e == r.event
           old == notice[e][u]
<1>1. /\ r.at = "insert" /\ u \in r.todo /\ Busy(d) /\ r \in RunRecords /\ Owns(d) /\ r.to = {}
      /\ e \in Events /\ Recipients(d) /\ Waits(d, "insert")
  BY DEF InsertNotice, Waits, Busy, Announced, NotifyTypeOK, RunRecords, Stages, Events, Runs, AtOne
<1>2. old \in {"none", "pending", "sent", "failed"} /\ notice = [notice EXCEPT ![e][u] = old]
  <2>1. notice \in [Events -> [People -> {"none", "pending", "sent", "failed"}]]
    BY DEF Announced, NotifyTypeOK
  <2> QED BY <1>1, <2>1, SameEntry
<1>3. CASE old # "none"
  <2>1. Concluded(e, u)
    BY <1>1, <1>3, InsertSettled
  <2>2. old = "sent" => mailed[e][u] = 1
    BY <1>1 DEF Announced, NoticesAreTrue
  <2>3. /\ notice' = notice /\ Moves(d, Proceed(r, {u}))
        /\ UNCHANGED <<claimed, outage, joined, settings, mailed, changes, willing, unwilling,
                       interrupted>>
    BY <1>3 DEF InsertNotice
  <2> QED BY <1>1, <1>2, <2>1, <2>2, <2>3, Proceeds DEF Concluded
<1>4. CASE old = "none"
  <2> DEFINE next == [r EXCEPT !.at = "send", !.to = {u}]
  <2>1. /\ next \in RunRecords /\ next.at = "send" /\ next.to = {u} /\ next.event = e
        /\ next.todo = r.todo
    BY <1>1 DEF RunRecords, Stages
  <2>2. /\ notice' = [notice EXCEPT ![e][u] = "pending"] /\ Moves(d, next)
        /\ UNCHANGED <<claimed, outage, joined, settings, mailed, changes, willing, unwilling,
                       interrupted>>
    BY <1>4 DEF InsertNotice
  <2>3. mailed[e][u] = 0 /\ mailed' = [mailed EXCEPT ![e][u] = 0]
    BY <1>1, <1>4, <2>2 DEF Announced, NotifyTypeOK, Untouched
  <2>4. dispatch'[d] = next
    BY <2>2, Moved DEF Announced
  <2>5. /\ notice'[e][u] = "pending" /\ mailed'[e][u] = 0
        /\ \A v \in People : v # u => notice'[e][v] = notice[e][v]
    BY <1>1, <2>2, <2>3 DEF Announced, NotifyTypeOK
  <2>6. AtOne(d)'
    BY <1>1, <2>1, <2>4, <2>5 DEF AtOne
  <2>7. Recipients(d)'
    <3>1. willing[e] \subseteq People
      BY <1>1 DEF Announced, NotifyTypeOK
    <3>2. \A v \in willing[e] \ r.todo : notice'[e][v] \in {"sent", "failed"}
      BY <1>1, <2>5, <3>1 DEF Recipients, Concluded
    <3> QED BY <1>1, <2>1, <2>2, <2>4, <3>2 DEF Recipients, Concluded
  <2>8. u \notin unwilling[e]
    BY <1>1 DEF Recipients
  <2> HIDE DEF next
  <2> QED BY <1>1, <1>4, <2>1, <2>2, <2>3, <2>6, <2>7, <2>8, OneRecipient
<1> QED BY <1>3, <1>4

LEMMA SendKeeps ==
  ASSUME Announced, NEW d \in Dispatchers, NEW u \in People, SendMail(d, u) PROVE Announced'
<1> DEFINE r == dispatch[d]
           e == r.event
<1>1. /\ r.at = "send" /\ Busy(d) /\ r \in RunRecords /\ Owns(d) /\ e \in Events /\ Recipients(d)
  BY DEF SendMail, Waits, Busy, Announced, NotifyTypeOK, RunRecords, Stages, Events, Runs
<1>2. r.to = {u} /\ u \in r.todo /\ notice[e][u] = "pending" /\ mailed[e][u] = 0
  BY <1>1 DEF SendMail, Announced, Runs, AtOne
<1>3. PICK sent \in MailOutcomes :
        /\ mailed' = [mailed EXCEPT ![e][u] = @ + sent.arrives]
        /\ Moves(d, [r EXCEPT !.at = "record", !.result = sent.says])
  BY DEF SendMail
<1> DEFINE next == [r EXCEPT !.at = "record", !.result = sent.says]
<1>4. /\ sent.arrives \in {0, 1} /\ sent.says \in {"delivered", "refused"}
      /\ sent.says = "delivered" => sent.arrives = 1
  BY DEF MailOutcomes
<1>5. mailed' = [mailed EXCEPT ![e][u] = sent.arrives]
  <2>1. mailed[e][u] + sent.arrives = sent.arrives
    BY <1>2, <1>4
  <2>2. mailed' = [mailed EXCEPT ![e][u] = mailed[e][u] + sent.arrives]
    BY <1>3
  <2> QED BY <2>1, <2>2
<1>6. /\ next \in RunRecords /\ next.at = "record" /\ next.to = {u} /\ next.event = e
      /\ next.todo = r.todo /\ next.result = sent.says
  BY <1>1, <1>2, <1>4 DEF RunRecords, Stages
<1>7. /\ notice' = notice /\ notice' = [notice EXCEPT ![e][u] = "pending"]
      /\ UNCHANGED <<claimed, outage, joined, settings, changes, willing, unwilling, interrupted>>
  <2>1. notice \in [Events -> [People -> {"none", "pending", "sent", "failed"}]]
    BY DEF Announced, NotifyTypeOK
  <2>2. notice = [notice EXCEPT ![e][u] = "pending"]
    BY <1>1, <1>2, <2>1, SameEntry
  <2> QED BY <2>2 DEF SendMail
<1>8. dispatch'[d] = next
  BY <1>3, Moved DEF Announced
<1>9. mailed'[e][u] = sent.arrives
  BY <1>1, <1>5 DEF Announced, NotifyTypeOK
<1>10. AtOne(d)'
  BY <1>2, <1>4, <1>6, <1>7, <1>8, <1>9 DEF AtOne
<1>11. Recipients(d)'
  BY <1>1, <1>6, <1>7, <1>8 DEF Recipients, Concluded
<1>12. u \notin unwilling[e]
  BY <1>1, <1>2 DEF Recipients
<1> HIDE DEF next
<1> QED BY <1>1, <1>2, <1>3, <1>4, <1>5, <1>6, <1>7, <1>10, <1>11, <1>12, OneRecipient DEF next

LEMMA RecordKeeps ==
  ASSUME Announced, NEW d \in Dispatchers, NEW u \in People, RecordResult(d, u) PROVE Announced'
<1> DEFINE r == dispatch[d]
           e == r.event
<1>1. /\ r.at = "record" /\ e \in Events
      /\ r.to = {u} /\ u \in r.todo /\ (r.result = "delivered" => mailed[e][u] = 1)
  BY DEF RecordResult, Waits, Announced, NotifyTypeOK, Events, Runs, AtOne
<1>2. /\ StatusOf(r.result) \in {"sent", "failed"}
      /\ StatusOf(r.result) = "sent" => mailed[e][u] = 1
  BY <1>1 DEF StatusOf
<1> QED BY <1>1, <1>2, Proceeds DEF RecordResult

----------------------------------------------------------------------------
(* The beginning and the unforeseen end of a run.                          *)

LEMMA ClaimKeeps ==
  ASSUME Announced, NEW d \in Dispatchers, NEW e \in Events, ClaimDispatch(d, e) PROVE Announced'
<1> DEFINE next == [Resting EXCEPT !.at = "incident", !.event = e]
<1>1. /\ Waits(d, "idle") /\ e \notin claimed /\ claimed' = claimed \cup {e}
      /\ outage \in {"open", "resolved"} /\ (e = "recovered" => outage = "resolved")
      /\ Moves(d, next)
      /\ willing' = [willing EXCEPT ![e] = Listening(e, joined, settings)]
      /\ unwilling' = [unwilling EXCEPT ![e] = People \ Listening(e, joined, settings)]
      /\ UNCHANGED <<outage, joined, settings, notice, mailed, changes, interrupted>>
  BY DEF ClaimDispatch
<1>2. /\ next \in RunRecords /\ next.at = "incident" /\ next.event = e /\ next.to = {}
  BY DEF Resting, RunRecords, Stages, Events
<1> HIDE DEF next
<1>3. /\ dispatch'[d] = next
      /\ \A c \in Dispatchers : c # d => dispatch'[c] = dispatch[c]
  BY <1>1, Moved DEF Announced
<1>4. Listening(e, joined, settings) \in SUBSET People
  BY DEF Announced, NotifyTypeOK, Listening
<1>5. /\ willing' \in [Events -> SUBSET People] /\ unwilling' \in [Events -> SUBSET People]
      /\ willing'[e] = Listening(e, joined, settings)
      /\ unwilling'[e] = People \ Listening(e, joined, settings)
      /\ \A f \in Events : f # e => willing'[f] = willing[f] /\ unwilling'[f] = unwilling[f]
  BY <1>1, <1>4 DEF Announced, NotifyTypeOK
<1>6. NotifyTypeOK'
  BY <1>1, <1>2, <1>5, MovedTyped DEF Announced, NotifyTypeOK, RunRecords, Stages, Events
<1>7. \A u \in People : notice[e][u] = "none" /\ mailed[e][u] = 0
  BY <1>1 DEF Announced, Untouched
<1>8. \A c \in Dispatchers : Busy(c) => dispatch[c].event # e /\ dispatch[c].event \in Events
  BY <1>1 DEF Announced, Runs, Owns, NotifyTypeOK, Events
<1>9. Runs'
  <2> SUFFICES ASSUME NEW c \in Dispatchers PROVE AtOne(c)' /\ (Busy(c)' => Owns(c)' /\ Recipients(c)')
    BY DEF Runs
  <2>1. CASE c = d
    <3>1. AtOne(d)' /\ Recipients(d)'
      BY <1>2, <1>3 DEF AtOne, Recipients
    <3>2. Owns(d)'
      <4>1. e \in claimed' \ interrupted'
        BY <1>1 DEF Announced, Untouched
      <4>2. \A x \in Dispatchers : x # d /\ Busy(x)' => dispatch'[x].event # e
        BY <1>3, <1>8 DEF Busy, Waits
      <4> QED BY <1>1, <1>2, <1>3, <4>1, <4>2 DEF Owns
    <3> QED BY <2>1, <3>1, <3>2
  <2>2. CASE c # d
    <3>1. dispatch'[c] = dispatch[c] /\ AtOne(c) /\ (Busy(c) => Owns(c) /\ Recipients(c))
      BY <1>3, <2>2 DEF Announced, Runs
    <3>2. AtOne(c)'
      BY <1>1, <3>1 DEF AtOne
    <3>3. ASSUME Busy(c)' PROVE Owns(c)' /\ Recipients(c)'
      <4>1. Busy(c)
        BY <3>1, <3>3 DEF Busy, Waits
      <4>2. dispatch[c].event # e /\ dispatch[c].event \in Events
        BY <1>8, <4>1
      <4>3. Recipients(c)'
        BY <1>1, <1>5, <3>1, <4>1, <4>2 DEF Recipients, Concluded
      <4>4. \A x \in Dispatchers : x # d => dispatch'[x] = dispatch[x] /\ (Busy(x)' <=> Busy(x))
        BY <1>3 DEF Busy, Waits
      <4>5. Owns(c)'
        BY <1>1, <1>2, <1>3, <3>1, <4>1, <4>2, <4>4 DEF Owns
      <4> QED BY <4>3, <4>5
    <3> QED BY <3>2, <3>3
  <2> QED BY <2>1, <2>2
<1>10. Untouched'
  BY <1>1, <1>5 DEF Announced, Untouched
<1>11. Sides'
  <2> SUFFICES ASSUME NEW f \in Events
               PROVE  /\ willing'[f] \subseteq Listening(f, joined, settings)
                      /\ unwilling'[f] \cap Listening(f, joined, settings) = {}
    BY <1>1 DEF Sides
  <2> QED BY <1>5 DEF Announced, Sides
<1>12. AtMostOneEmail'
  BY <1>1, <1>5, <1>7 DEF Announced, AtMostOneEmail
<1>13. NoticesAreTrue'
  <2>1. dispatch[d].to = {}
    BY <1>1 DEF Announced, Runs, AtOne, Waits
  <2>2. \A c \in Dispatchers, v \in People : v \in dispatch[c].to => dispatch'[c] = dispatch[c]
    BY <1>3, <2>1
  <2>3. \A f \in Events, v \in People :
          (\E c \in Dispatchers : dispatch[c].event = f /\ v \in dispatch[c].to)
            => \E c \in Dispatchers : dispatch'[c].event = f /\ v \in dispatch'[c].to
    BY <2>2
  <2> QED BY <1>1, <2>3 DEF Announced, NoticesAreTrue
<1>14. EverybodyTold'
  <2> SUFFICES ASSUME NEW f \in (claimed \ interrupted)', outage' # "deleted",
                      \A c \in Dispatchers : Waits(c, "idle")' \/ dispatch'[c].event # f
               PROVE  \A v \in willing[f]' : notice'[f][v] \in {"sent", "failed"}
    BY DEF EverybodyTold
  <2>1. f # e /\ f \in Events
    BY <1>1, <1>2, <1>3 DEF Waits, Announced, NotifyTypeOK, Events
  <2>2. \A c \in Dispatchers : Waits(c, "idle") \/ dispatch[c].event # f
    BY <1>1, <1>3 DEF Waits
  <2> QED BY <1>1, <1>5, <2>1, <2>2 DEF Announced, EverybodyTold
<1> QED BY <1>6, <1>9, <1>10, <1>11, <1>12, <1>13, <1>14 DEF Announced

LEMMA InterruptKeeps == ASSUME Announced, NEW d \in Dispatchers, Interrupt(d) PROVE Announced'
<1> DEFINE e == dispatch[d].event
<1>1. /\ Busy(d) /\ interrupted' = interrupted \cup {e} /\ Moves(d, Resting)
      /\ changes < MaxChanges /\ changes' = changes + 1
      /\ UNCHANGED <<claimed, outage, joined, settings, notice, mailed, willing, unwilling>>
  BY DEF Interrupt, Busy
<1>2. /\ Resting \in RunRecords /\ Resting.at = "idle" /\ Resting.to = {}
  BY DEF Resting, RunRecords, Stages, Events
<1>3. /\ dispatch'[d] = Resting
      /\ \A c \in Dispatchers : c # d => dispatch'[c] = dispatch[c]
  BY <1>1, Moved DEF Announced
<1>4. e \in Events /\ e \in claimed
  BY <1>1 DEF Announced, NotifyTypeOK, Events, Runs, Owns
<1>5. changes' \in 0..MaxChanges
  BY <1>1, NotifyAssumption DEF Announced, NotifyTypeOK, NotifyAssumption
<1>6. NotifyTypeOK'
  BY <1>1, <1>2, <1>4, <1>5, MovedTyped DEF Announced, NotifyTypeOK, RunRecords, Stages, Events
<1>7. Runs'
  <2> SUFFICES ASSUME NEW c \in Dispatchers PROVE AtOne(c)' /\ (Busy(c)' => Owns(c)' /\ Recipients(c)')
    BY DEF Runs
  <2>1. CASE c = d
    BY <1>2, <1>3, <2>1 DEF Busy, Waits, AtOne
  <2>2. CASE c # d
    <3>1. dispatch'[c] = dispatch[c] /\ AtOne(c) /\ (Busy(c) => Owns(c) /\ Recipients(c))
      BY <1>3, <2>2 DEF Announced, Runs
    <3>2. AtOne(c)'
      BY <1>1, <3>1 DEF AtOne
    <3>3. ASSUME Busy(c)' PROVE Owns(c)' /\ Recipients(c)'
      <4>1. Busy(c)
        BY <3>1, <3>3 DEF Busy, Waits
      <4>2. dispatch[c].event # e
        BY <1>1, <2>2, <4>1 DEF Announced, Runs, Owns
      <4>3. Recipients(c)'
        BY <1>1, <3>1, <4>1 DEF Recipients, Concluded
      <4>4. \A x \in Dispatchers : Busy(x)' => Busy(x) /\ dispatch'[x] = dispatch[x]
        BY <1>2, <1>3 DEF Busy, Waits
      <4>5. Owns(c)'
        BY <1>1, <3>1, <4>1, <4>2, <4>4 DEF Owns
      <4> QED BY <4>3, <4>5
    <3> QED BY <3>2, <3>3
  <2> QED BY <2>1, <2>2
<1>8. Untouched' /\ Sides' /\ AtMostOneEmail'
  BY <1>1, <1>4 DEF Announced, Untouched, Sides, AtMostOneEmail
<1>9. NoticesAreTrue'
  BY <1>1, <1>3 DEF Announced, NoticesAreTrue
<1>10. EverybodyTold'
  <2> SUFFICES ASSUME NEW f \in (claimed \ interrupted)', outage' # "deleted",
                      \A c \in Dispatchers : Waits(c, "idle")' \/ dispatch'[c].event # f
               PROVE  \A v \in willing[f]' : notice'[f][v] \in {"sent", "failed"}
    BY DEF EverybodyTold
  <2>1. f # e
    BY <1>1
  <2>2. \A c \in Dispatchers : Waits(c, "idle") \/ dispatch[c].event # f
    BY <1>3, <2>1 DEF Waits
  <2> QED BY <1>1, <2>2 DEF Announced, EverybodyTold
<1> QED BY <1>6, <1>7, <1>8, <1>9, <1>10 DEF Announced

----------------------------------------------------------------------------
(* What the API does meanwhile.                                            *)

(* Whoever changes sides leaves the histories, and only a member can turn  *)
(* an event on.                                                            *)
LEMMA WitnessKeeps ==
  ASSUME Announced,
         joined' \in SUBSET People,
         settings' \in [People -> [stored : BOOLEAN, on : SUBSET {"down", "recovered"}]],
         \A u \in People : settings'[u] = settings[u] \/ u \in joined',
         changes < MaxChanges, changes' = changes + 1,
         Witness(joined', settings'),
         UNCHANGED <<claimed, outage, notice, mailed, dispatch, interrupted>>
  PROVE  Announced'
<1>1. /\ willing' = [e \in Events |-> willing[e] \cap Listening(e, joined', settings')]
      /\ unwilling' = [e \in Events |-> unwilling[e] \ Listening(e, joined', settings')]
  BY DEF Witness
<1>2. \A e \in Events : /\ willing'[e] \subseteq willing[e] /\ unwilling'[e] \subseteq unwilling[e]
                        /\ willing[e] \in SUBSET People /\ unwilling[e] \in SUBSET People
  BY <1>1 DEF Announced, NotifyTypeOK
<1>3. NotifyTypeOK'
  <2>1. changes' \in 0..MaxChanges
    BY NotifyAssumption DEF Announced, NotifyTypeOK, NotifyAssumption
  <2>2. willing' \in [Events -> SUBSET People] /\ unwilling' \in [Events -> SUBSET People]
    BY <1>1, <1>2
  <2> QED BY <2>1, <2>2 DEF Announced, NotifyTypeOK
<1>4. Runs'
  <2> SUFFICES ASSUME NEW d \in Dispatchers PROVE AtOne(d)' /\ (Busy(d)' => Owns(d)' /\ Recipients(d)')
    BY DEF Runs
  <2> DEFINE e == dispatch[d].event
  <2>1. /\ AtOne(d) /\ (Busy(d) => Owns(d) /\ Recipients(d)) /\ e \in Events
        /\ dispatch[d].todo \in SUBSET People
    BY DEF Announced, Runs, NotifyTypeOK, Events
  <2>2. AtOne(d)' /\ (Busy(d)' => Owns(d)') /\ (Busy(d)' => Busy(d))
    BY <2>1 DEF AtOne, Owns, Busy, Waits
  <2>3. ASSUME Busy(d), dispatch[d].at = "settings"
        PROVE  \A u \in dispatch[d].todo \cap unwilling'[e] : ~Wants(settings'[u], e)
    <3> SUFFICES ASSUME NEW u \in dispatch[d].todo, u \in unwilling'[e] PROVE ~Wants(settings'[u], e)
      OBVIOUS
    <3>1. u \in People /\ u \in unwilling[e] /\ u \notin Listening(e, joined', settings')
      BY <1>1, <2>1
    <3>2. ~Wants(settings[u], e)
      BY <2>1, <2>3, <3>1 DEF Recipients
    <3>3. CASE u \in joined'
      BY <2>1, <3>1, <3>3 DEF Listening, Wants, Defaults, Events
    <3>4. CASE settings'[u] = settings[u]
      BY <3>2, <3>4
    <3> QED BY <3>1, <3>3, <3>4
  <2>4. ASSUME Busy(d) PROVE Recipients(d)'
    BY <1>2, <2>1, <2>3, <2>4 DEF Recipients, Concluded
  <2> QED BY <2>2, <2>4
<1>5. Untouched'
  BY <1>1 DEF Announced, Untouched
<1>6. Sides'
  BY <1>1 DEF Sides
<1>7. AtMostOneEmail'
  BY <1>2 DEF Announced, AtMostOneEmail, NotifyTypeOK
<1>8. NoticesAreTrue'
  BY DEF Announced, NoticesAreTrue
<1>9. EverybodyTold'
  BY <1>2 DEF Announced, EverybodyTold, Waits, NotifyTypeOK, Events
<1> QED BY <1>3, <1>4, <1>5, <1>6, <1>7, <1>8, <1>9 DEF Announced

LEMMA PreferencesKeep ==
  ASSUME Announced, NEW u \in People, NEW supplied \in SUBSET Events, NEW value \in BOOLEAN,
         UpdatePreferences(u, supplied, value)
  PROVE  Announced'
<1>1. PICK on \in SUBSET {"down", "recovered"} :
        settings' = [settings EXCEPT ![u] = [stored |-> TRUE, on |-> on]]
  <2> DEFINE before == IF settings[u].stored THEN settings[u].on ELSE Defaults
  <2>1. before \in SUBSET {"down", "recovered"} /\ supplied \in SUBSET {"down", "recovered"}
    BY DEF Announced, NotifyTypeOK, Defaults, Events
  <2> QED BY <2>1 DEF UpdatePreferences
<1>2. settings' \in [People -> [stored : BOOLEAN, on : SUBSET {"down", "recovered"}]]
  BY <1>1 DEF Announced, NotifyTypeOK
<1>3. \A v \in People : settings'[v] = settings[v] \/ v \in joined'
  BY <1>1 DEF UpdatePreferences, Announced, NotifyTypeOK
<1>4. joined' = joined /\ joined' \in SUBSET People
  BY DEF UpdatePreferences, Announced, NotifyTypeOK
<1>5. Witness(joined', settings')
  BY <1>4 DEF UpdatePreferences
<1> QED BY <1>2, <1>3, <1>4, <1>5, WitnessKeeps DEF UpdatePreferences

LEMMA ChangeMemberKeeps == ASSUME Announced, NEW u \in People, ChangeMember(u) PROVE Announced'
<1>1. /\ settings' = settings /\ joined' \in SUBSET People
      /\ settings' \in [People -> [stored : BOOLEAN, on : SUBSET {"down", "recovered"}]]
  BY DEF ChangeMember, Announced, NotifyTypeOK
<1>2. Witness(joined', settings')
  BY <1>1 DEF ChangeMember
<1> QED BY <1>1, <1>2, WitnessKeeps DEF ChangeMember

LEMMA EndOutageKeeps ==
  ASSUME Announced, NEW o \in {"resolved", "deleted"}, EndOutage(o) PROVE Announced'
<1>1. /\ outage # "deleted" /\ outage' \in {"resolved", "deleted"}
      /\ UNCHANGED <<claimed, joined, settings, notice, mailed, dispatch, changes, willing,
                     unwilling, interrupted>>
  BY DEF EndOutage
<1>2. NotifyTypeOK'
  BY <1>1 DEF Announced, NotifyTypeOK
<1>3. Runs'
  BY <1>1 DEF Announced, Runs, AtOne, Owns, Recipients, Concluded, Busy, Waits
<1>4. Untouched' /\ Sides' /\ AtMostOneEmail' /\ NoticesAreTrue'
  BY <1>1 DEF Announced, Untouched, Sides, AtMostOneEmail, NoticesAreTrue
<1>5. EverybodyTold'
  BY <1>1 DEF Announced, EverybodyTold, Waits
<1> QED BY <1>2, <1>3, <1>4, <1>5 DEF Announced

LEMMA StutterKeeps == Announced /\ UNCHANGED notifyVars => Announced'
<1> SUFFICES ASSUME Announced, UNCHANGED notifyVars PROVE Announced'
  OBVIOUS
<1>1. UNCHANGED <<claimed, outage, joined, settings, notice, mailed, dispatch, changes, willing,
                  unwilling, interrupted>>
  BY DEF notifyVars
<1>2. NotifyTypeOK'
  BY <1>1 DEF Announced, NotifyTypeOK
<1>3. Runs'
  BY <1>1 DEF Announced, Runs, AtOne, Owns, Recipients, Concluded, Busy, Waits
<1>4. Untouched' /\ Sides' /\ AtMostOneEmail' /\ NoticesAreTrue' /\ EverybodyTold'
  BY <1>1 DEF Announced, Untouched, Sides, AtMostOneEmail, NoticesAreTrue, EverybodyTold, Waits
<1> QED BY <1>2, <1>3, <1>4 DEF Announced

LEMMA StepAnnounced == Announced /\ [NotifyNext]_notifyVars => Announced'
BY StutterKeeps, ClaimKeeps, ReadIncidentKeeps, ListMembersKeeps, ReadSettingsKeeps, InsertKeeps,
   SendKeeps, RecordKeeps, InterruptKeeps, PreferencesKeep, ChangeMemberKeeps, EndOutageKeeps
DEF NotifyNext, NotifyWork

LEMMA AnnouncedAlways == NotifySpec => []Announced
BY InitAnnounced, StepAnnounced, PTL DEF NotifySpec

\* However many runs announce an incident, fail, die or interleave with the edits of the
\* people, nobody is mailed twice about an event or against a preference that stood since
\* the claim (the unique dedupeKey and claimDispatch of notification-service.ts).
THEOREM NobodyIsMailedTwice == NotifySpec => []AtMostOneEmail
BY AnnouncedAlways, PTL DEF Announced

\* A Notification document called sent has been delivered, one still pending belongs to a
\* run under way or to one that was cut short (dispatchToRecipients).
THEOREM TheCollectionIsTrue == NotifySpec => []NoticesAreTrue
BY AnnouncedAlways, PTL DEF Announced

\* A run that is not cut short settles everybody who could be told since the claim, through
\* refusals, joins, departures and preference writes (dispatchToRecipients).
THEOREM NobodyIsLeftOut == NotifySpec => []EverybodyTold
BY AnnouncedAlways, PTL DEF Announced

-----------------------------------------------------------------------------
(* The announcements and the incidents collection.                         *)

(* The one incident of Notifications as an entry of IncidentLog, the       *)
(* abstract specification that module Monitoring implements.               *)
Incident == [status |-> outage, site |-> "website", announced |-> claimed]
EntryLog ==
  INSTANCE IncidentLog WITH Websites <- {"website"}, Incidents <- {"incident"},
                            NoWebsite <- "none", log <- [i \in {"incident"} |-> Incident]

LEMMA ClaimIsAnnounced ==
  ASSUME NEW d \in Dispatchers, NEW e \in Events, ClaimDispatch(d, e)
  PROVE  EntryLog!AnnounceEntry("incident", e)
<1>1. /\ outage = "resolved" \/ (outage = "open" /\ e = "down")
      /\ e \notin claimed /\ claimed' = claimed \cup {e} /\ outage' = outage
  BY DEF ClaimDispatch
<1>2. e = "down" \/ e = "recovered"
  BY DEF Events
<1> QED BY <1>1, <1>2 DEF EntryLog!AnnounceEntry, Incident

LEMMA EndIsLogged ==
  ASSUME NEW o \in {"resolved", "deleted"}, EndOutage(o)
  PROVE  EntryLog!ResolveEntry("incident") \/ EntryLog!ForgetSite("website")
<1>1. /\ outage' = o /\ claimed' = claimed
      /\ o = "resolved" => outage = "open"
  BY DEF EndOutage
<1>2. CASE o = "resolved"
  BY <1>1, <1>2 DEF EntryLog!ResolveEntry, Incident
<1>3. CASE o = "deleted"
  BY <1>1, <1>3 DEF EntryLog!ForgetSite, Incident
<1> QED BY <1>2, <1>3

LEMMA OtherNotifySteps ==
  ASSUME NotifyNext,
         ~ \E d \in Dispatchers, e \in Events : ClaimDispatch(d, e),
         ~ \E o \in {"resolved", "deleted"} : EndOutage(o)
  PROVE  UNCHANGED <<outage, claimed>>
<1>1. ASSUME NEW d \in Dispatchers, NotifyWork(d) \/ Interrupt(d) PROVE UNCHANGED <<outage, claimed>>
  BY <1>1, Zenon DEF NotifyWork, ReadIncident, ListMembers, ReadSettings, InsertNotice, SendMail,
                     RecordResult, Interrupt
<1>2. ASSUME NEW u \in People, NEW s \in SUBSET Events, NEW v \in BOOLEAN, UpdatePreferences(u, s, v)
      PROVE  UNCHANGED <<outage, claimed>>
  BY <1>2 DEF UpdatePreferences
<1>3. ASSUME NEW u \in People, ChangeMember(u) PROVE UNCHANGED <<outage, claimed>>
  BY <1>3 DEF ChangeMember
<1> QED BY <1>1, <1>2, <1>3 DEF NotifyNext

\* The one incident of this model moves as the abstract log lets incidents move, which is
\* what the pipelines of Monitoring do to all of theirs: the flag of an event is set once,
\* that of the recovery only on a resolved incident, and a resolved one is not reopened.
\* What Monitoring takes for one step and Notifications for a run of calls is the same
\* entry of the same log.
THEOREM AnnouncementsFollowLog ==
  NotifySpec => [][EntryLog!LogNext]_[i \in {"incident"} |-> Incident]
<1>1. [NotifyNext]_notifyVars => [EntryLog!LogNext]_[i \in {"incident"} |-> Incident]
  <2> SUFFICES ASSUME [NotifyNext]_notifyVars
               PROVE  EntryLog!LogNext \/ UNCHANGED [i \in {"incident"} |-> Incident]
    OBVIOUS
  <2>1. CASE UNCHANGED <<outage, claimed>>
    BY <2>1 DEF Incident
  <2>2. ASSUME NEW d \in Dispatchers, NEW e \in Events, ClaimDispatch(d, e) PROVE EntryLog!LogNext
    BY <2>2, ClaimIsAnnounced DEF EntryLog!LogNext, EntryLog!Events, Events
  <2>3. ASSUME NEW o \in {"resolved", "deleted"}, EndOutage(o) PROVE EntryLog!LogNext
    BY <2>3, EndIsLogged DEF EntryLog!LogNext
  <2>4. CASE UNCHANGED notifyVars
    BY <2>1, <2>4 DEF notifyVars
  <2>5. CASE NotifyNext
    BY <2>1, <2>2, <2>3, <2>5, OtherNotifySteps
  <2> QED BY <2>4, <2>5
<1> QED BY <1>1, PTL DEF NotifySpec
=============================================================================
