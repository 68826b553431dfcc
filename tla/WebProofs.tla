------------------------------ MODULE WebProofs ------------------------------
(***************************************************************************)
(* Theorems about what the web application shows, for any number of        *)
(* changes, websites, incidents and rows of a page: a view at rest is no   *)
(* older than what the person has seen unless its answer was overtaken, an *)
(* empty table was read from an empty list, and the incident history is    *)
(* read without holes and repetitions.  And                                *)
(* about the API's rate limiter, for any limits and keys: what a key is    *)
(* granted and refused.  And about the pages that redirect: they come to   *)
(* an end.                                                                 *)
(***************************************************************************)
EXTENDS Navigation, Dashboard, WebsiteTable, RateLimiter, IncidentFeed, FiniteSetTheorems,
        FunctionTheorems, TLAPS

----------------------------------------------------------------------------
(* One tab of the dashboard.                                               *)

(* Nobody knows of a version that the organization never had.              *)
Known ==
  /\ told <= store.version /\ fetch.at <= store.version /\ change.at <= store.version
  /\ fetch.to # "this" => fetch.at = 0

(* Outside the settings, an answer under way that was not overtaken is as  *)
(* new as what the person has been told, and so is the cached one unless a *)
(* request is under way or has failed: whoever is told of a newer version  *)
(* has asked for it.                                                       *)
UpToDate ==
  view.on # "settings" =>
    /\ change.what # "save"
    /\ fetch.leg = "back" /\ fetch.to = "this" /\ ~fetch.overtaken => fetch.at >= told
    /\ fetch.leg = "none" /\ cache.held = "own" /\ ~cache.failed /\ ~cache.overtaken
       => cache.at >= told

DashInv == DashTypeOK /\ Known /\ UpToDate

LEMMA DashBounds == MaxVersion \in Nat
BY DashboardAssumption DEF DashboardAssumption

LEMMA EntryTyped ==
  ASSUME NEW held \in {"nothing", "own", "foreign"}, NEW at \in 0..MaxVersion
  PROVE  /\ Entry(held, at) \in [held : {"nothing", "own", "foreign"}, at : 0..MaxVersion,
                                 stale : BOOLEAN, failed : BOOLEAN, overtaken : BOOLEAN]
         /\ Entry(held, at).held = held /\ Entry(held, at).at = at /\ ~Entry(held, at).failed
         /\ \A mark \in BOOLEAN :
              LET entry == [Entry(held, at) EXCEPT !.overtaken = mark]
              IN /\ entry \in [held : {"nothing", "own", "foreign"}, at : 0..MaxVersion,
                               stale : BOOLEAN, failed : BOOLEAN, overtaken : BOOLEAN]
                 /\ entry.held = held /\ entry.at = at /\ entry.overtaken = mark
BY DEF Entry

(* A new request is for one of the organizations, and has no answer yet.   *)
LEMMA SentTyped ==
  ASSUME DashTypeOK
  PROVE  /\ Sent \in [leg : {"none", "out", "back", "refused"}, to : Orgs,
                      at : 0..MaxVersion, overtaken : BOOLEAN]
         /\ Sent.leg = "out" /\ Sent.at = 0
BY DashBounds DEF DashTypeOK, Sent, Target, Orgs

LEMMA IdleTyped ==
  /\ Idle \in [leg : {"none", "out", "back", "refused"}, to : Orgs,
               at : 0..MaxVersion, overtaken : BOOLEAN]
  /\ Idle.leg = "none" /\ Idle.to = "this" /\ Idle.at = 0
  /\ NoChange \in [phase : {"idle", "sent", "done", "refreshing"},
                   what : Permits("owner") \cup {"none"}, to : Orgs, at : 0..MaxVersion]
  /\ NoChange.at = 0 /\ NoChange.what = "none"
BY DashBounds DEF Idle, NoChange, Orgs

LEMMA InitDash == DashInit => DashInv
<1> SUFFICES ASSUME DashInit PROVE DashInv
  OBVIOUS
<1>1. 0 \in 0..MaxVersion
  BY DashBounds
<1>2. view \in [on : Views, role : Roles, mounted : BOOLEAN] /\ jar \in Orgs
  BY DEF DashInit, Orgs
<1>3. DashTypeOK
  <2>1. fetch \in [leg : {"none", "out", "back", "refused"}, to : Orgs,
                   at : 0..MaxVersion, overtaken : BOOLEAN]
    BY <1>1, <1>2 DEF DashInit, Sent, Target, Orgs
  <2>2. cache \in [held : {"nothing", "own", "foreign"}, at : 0..MaxVersion,
                   stale : BOOLEAN, failed : BOOLEAN, overtaken : BOOLEAN]
    BY <1>1, EntryTyped DEF DashInit, Empty
  <2> QED BY <1>1, <1>2, <2>1, <2>2, IdleTyped DEF DashInit, DashTypeOK, Orgs
<1>4. fetch.leg = "out" /\ fetch.at = 0 /\ change.at = 0 /\ change.what = "none"
  BY <1>3, SentTyped, IdleTyped DEF DashInit
<1> QED BY <1>3, <1>4 DEF DashInit, DashInv, Known, UpToDate

(* The steps that change neither what is known nor what is asked for.      *)
LEMMA TabMoves ==
  ASSUME DashInv, DashTypeOK', view'.on = view.on,
         UNCHANGED <<store, cache, fetch, change, told>>
  PROVE  DashInv'
BY DEF DashInv, Known, UpToDate

LEMMA MovesKeep ==
  ASSUME DashInv, NEW org \in Orgs, Select(org) \/ OtherTab(org) \/ Leave
  PROVE  DashInv'
<1>1. /\ view' \in [on : Views, role : Roles, mounted : BOOLEAN] /\ view'.on = view.on
      /\ shown' \in Orgs /\ jar' \in Orgs /\ pending' \in BOOLEAN
      /\ UNCHANGED <<store, cache, fetch, change, told>>
  BY DEF DashInv, DashTypeOK, Select, OtherTab, Leave
<1>2. DashTypeOK'
  BY <1>1 DEF DashInv, DashTypeOK
<1> QED BY <1>1, <1>2, TabMoves

(* A new request, or none.                                                 *)
LEMMA AsksAgain ==
  ASSUME DashInv, DashTypeOK', fetch' = Sent \/ fetch' = fetch, view'.on = view.on,
         cache' = cache, UNCHANGED <<store, change, told>>
  PROVE  DashInv'
<1>1. CASE fetch' = Sent
  <2>1. fetch'.leg = "out" /\ fetch'.at = 0
    BY <1>1, SentTyped DEF DashInv
  <2>2. store'.version \in Nat
    BY DashBounds DEF DashTypeOK
  <2> QED BY <2>1, <2>2 DEF DashInv, Known, UpToDate
<1>2. CASE fetch' = fetch
  BY <1>2 DEF DashInv, Known, UpToDate
<1> QED BY <1>1, <1>2

LEMMA RequestsKeep ==
  ASSUME DashInv, NEW org \in Orgs, Refetch \/ Refreshed(org) \/ Return
  PROVE  DashInv'
<1>1. /\ view' \in [on : Views, role : Roles, mounted : BOOLEAN] /\ view'.on = view.on
      /\ shown' \in Orgs /\ jar' \in Orgs /\ pending' \in BOOLEAN
      /\ UNCHANGED <<store, cache, change, told>>
      /\ fetch' = Sent \/ fetch' = fetch
  BY DEF DashInv, DashTypeOK, Refetch, Refreshed, Return, Observe, tab
<1>2. fetch' \in [leg : {"none", "out", "back", "refused"}, to : Orgs,
                  at : 0..MaxVersion, overtaken : BOOLEAN]
  BY <1>1, SentTyped DEF DashInv, DashTypeOK
<1>3. DashTypeOK'
  BY <1>1, <1>2 DEF DashInv, DashTypeOK
<1> QED BY <1>1, <1>3, AsksAgain

(* An answer tells of the newest version, and nobody has been told more.   *)
LEMMA ServeKeeps == ASSUME DashInv, Serve PROVE DashInv'
<1>1. UNCHANGED <<view, shown, jar, pending, store, cache, change, told>> /\ fetch.leg = "out"
  BY DEF Serve, tab
<1>2. CASE fetch' = [Idle EXCEPT !.leg = "refused"]
  <2>1. /\ fetch' \in [leg : {"none", "out", "back", "refused"}, to : Orgs,
                       at : 0..MaxVersion, overtaken : BOOLEAN]
        /\ fetch'.leg = "refused" /\ fetch'.to = "this" /\ fetch'.at = 0
    <3>1. fetch' = [leg |-> "refused", to |-> "this", at |-> 0, overtaken |-> FALSE]
      BY <1>2 DEF Idle
    <3>2. 0 \in 0..MaxVersion
      BY DashBounds
    <3> QED BY <3>1, <3>2 DEF Orgs
  <2>2. store.version \in Nat
    BY DashBounds DEF DashInv, DashTypeOK
  <2>3. DashTypeOK'
    BY <1>1, <2>1 DEF DashInv, DashTypeOK
  <2> QED BY <1>1, <2>1, <2>2, <2>3 DEF DashInv, Known, UpToDate
<1>3. CASE fetch' = [fetch EXCEPT !.leg = "back",
                                  !.at = IF fetch.to = "this" THEN store.version ELSE 0]
  <2>1. /\ fetch' \in [leg : {"none", "out", "back", "refused"}, to : Orgs,
                       at : 0..MaxVersion, overtaken : BOOLEAN]
        /\ fetch'.leg = "back" /\ fetch'.to = fetch.to
        /\ fetch'.at = IF fetch.to = "this" THEN store.version ELSE 0
    <3>1. fetch \in [leg : {"none", "out", "back", "refused"}, to : Orgs,
                     at : 0..MaxVersion, overtaken : BOOLEAN]
      BY DEF DashInv, DashTypeOK
    <3>2. (IF fetch.to = "this" THEN store.version ELSE 0) \in 0..MaxVersion
      BY DashBounds DEF DashInv, DashTypeOK
    <3> QED BY <1>3, <3>1, <3>2
  <2>2. store.version \in Nat
    BY DashBounds DEF DashInv, DashTypeOK
  <2>3. DashTypeOK'
    BY <1>1, <2>1 DEF DashInv, DashTypeOK
  <2> QED BY <1>1, <2>1, <2>2, <2>3 DEF DashInv, Known, UpToDate
<1> QED BY <1>2, <1>3 DEF Serve

(* A request that ends lets go of the change that waited for it.           *)
LEMMA SettleTyped ==
  ASSUME DashTypeOK, NEW key \in Orgs, Settle(key)
  PROVE  /\ view' \in [on : Views, role : Roles, mounted : BOOLEAN] /\ view'.on = view.on
         /\ change' \in [phase : {"idle", "sent", "done", "refreshing"},
                         what : Permits("owner") \cup {"none"}, to : Orgs, at : 0..MaxVersion]
         /\ change' = NoChange \/ change' = change
<1>1. CASE change.phase = "refreshing" /\ change.to = key
  <2>1. view' = [view EXCEPT !.mounted = @ /\ change.what # "delete"] /\ change' = NoChange
    BY <1>1 DEF Settle
  <2>2. view \in [on : Views, role : Roles, mounted : BOOLEAN]
    BY DEF DashTypeOK
  <2>3. view' \in [on : Views, role : Roles, mounted : BOOLEAN] /\ view'.on = view.on
    BY <2>1, <2>2
  <2> QED BY <2>1, <2>3, IdleTyped
<1>2. CASE ~(change.phase = "refreshing" /\ change.to = key)
  BY <1>2 DEF Settle, DashTypeOK
<1> QED BY <1>1, <1>2

LEMMA ArriveKeeps == ASSUME DashInv, Arrive PROVE DashInv'
<1>1. /\ fetch' = Idle /\ Settle("this") /\ UNCHANGED <<shown, jar, pending, store>>
      /\ fetch.leg = "back"
      /\ told' = IF view.mounted /\ shown = "this" /\ fetch.at > told THEN fetch.at ELSE told
  BY DEF Arrive
<1>2. /\ fetch.at \in 0..MaxVersion /\ told \in 0..MaxVersion /\ fetch.to \in Orgs
      /\ store.version \in 0..MaxVersion
  BY DEF DashInv, DashTypeOK
<1>3. "this" \in Orgs
  BY DEF Orgs
<1>4. /\ view' \in [on : Views, role : Roles, mounted : BOOLEAN] /\ view'.on = view.on
      /\ change' \in [phase : {"idle", "sent", "done", "refreshing"},
                      what : Permits("owner") \cup {"none"}, to : Orgs, at : 0..MaxVersion]
      /\ change' = NoChange \/ change' = change
  BY <1>1, <1>3, SettleTyped DEF DashInv
<1>5. /\ cache' \in [held : {"nothing", "own", "foreign"}, at : 0..MaxVersion,
                     stale : BOOLEAN, failed : BOOLEAN, overtaken : BOOLEAN]
      /\ cache'.held = IF fetch.to = "this" THEN "own" ELSE "foreign"
      /\ cache'.at = fetch.at /\ cache'.overtaken = fetch.overtaken
  <2>1. fetch.overtaken \in BOOLEAN
    BY DEF DashInv, DashTypeOK
  <2> QED BY <1>2, <2>1, EntryTyped DEF Arrive
<1>6. DashTypeOK'
  BY <1>1, <1>2, <1>4, <1>5, IdleTyped DEF DashInv, DashTypeOK
<1>7. fetch.to # "this" => fetch.at = 0
  BY DEF DashInv, Known
<1>8. Known'
  BY <1>1, <1>2, <1>4, DashBounds, IdleTyped DEF DashInv, Known
<1>9. UpToDate'
  BY <1>1, <1>2, <1>4, <1>5, <1>7, DashBounds, IdleTyped DEF DashInv, UpToDate
<1> QED BY <1>6, <1>8, <1>9 DEF DashInv

LEMMA GivenUp ==
  ASSUME DashInv, GiveUp, UNCHANGED <<shown, jar, pending, store, told>>
  PROVE  DashInv'
<1>1. "this" \in Orgs
  BY DEF Orgs
<1>2. /\ view' \in [on : Views, role : Roles, mounted : BOOLEAN] /\ view'.on = view.on
      /\ change' \in [phase : {"idle", "sent", "done", "refreshing"},
                      what : Permits("owner") \cup {"none"}, to : Orgs, at : 0..MaxVersion]
      /\ change' = NoChange \/ change' = change
  BY <1>1, SettleTyped DEF DashInv, GiveUp
<1>3. /\ cache' \in [held : {"nothing", "own", "foreign"}, at : 0..MaxVersion,
                     stale : BOOLEAN, failed : BOOLEAN, overtaken : BOOLEAN]
      /\ cache'.failed /\ fetch' = Idle
  BY DEF DashInv, DashTypeOK, GiveUp
<1>4. DashTypeOK'
  BY <1>2, <1>3, IdleTyped DEF DashInv, DashTypeOK
<1>5. store.version \in Nat
  BY DashBounds DEF DashInv, DashTypeOK
<1> QED BY <1>2, <1>3, <1>4, <1>5, IdleTyped DEF DashInv, Known, UpToDate

LEMMA FailuresKeep ==
  ASSUME DashInv, Refused \/ AttemptFails
  PROVE  DashInv'
<1>1. UNCHANGED <<shown, jar, pending, store, told>>
  BY DEF Refused, AttemptFails
<1>2. CASE GiveUp
  BY <1>1, <1>2, GivenUp
<1>3. CASE fetch' = Sent /\ UNCHANGED <<cache, change, view>>
  <2>1. fetch' \in [leg : {"none", "out", "back", "refused"}, to : Orgs,
                    at : 0..MaxVersion, overtaken : BOOLEAN]
    BY <1>3, SentTyped DEF DashInv
  <2>2. DashTypeOK'
    BY <1>1, <1>3, <2>1 DEF DashInv, DashTypeOK
  <2> QED BY <1>1, <1>3, <2>2, AsksAgain
<1> QED BY <1>2, <1>3 DEF Refused, AttemptFails

LEMMA StaleKeeps == ASSUME DashInv, GoesStale PROVE DashInv'
<1>1. /\ cache' = [cache EXCEPT !.stale = TRUE]
      /\ UNCHANGED <<view, shown, jar, pending, store, fetch, change, told>>
  BY DEF GoesStale, tab
<1>2. /\ cache' \in [held : {"nothing", "own", "foreign"}, at : 0..MaxVersion,
                     stale : BOOLEAN, failed : BOOLEAN, overtaken : BOOLEAN]
      /\ cache'.held = cache.held /\ cache'.at = cache.at /\ cache'.failed = cache.failed
  BY <1>1 DEF DashInv, DashTypeOK
<1>3. DashTypeOK'
  BY <1>1, <1>2 DEF DashInv, DashTypeOK
<1> QED BY <1>1, <1>2, <1>3 DEF DashInv, Known, UpToDate

(* Only the settings view saves.                                           *)
LEMMA OnlySettingsSave ==
  ASSUME view.on \in {"overview", "incidents", "websites", "website", "members", "settings"},
         view.on # "settings", NEW shows \in {"loading", "error", "data"},
         NEW what \in Controls(shows)
  PROVE  what # "save"
BY DEF Controls, OverviewControls, IncidentsControls, TableControls, DetailControls, MembersControls

LEMMA ViewsKnown ==
  ASSUME DashTypeOK
  PROVE  view.on \in {"overview", "incidents", "websites", "website", "members", "settings"}
BY DashboardAssumption DEF DashboardAssumption, DashTypeOK

LEMMA ChangeKeeps ==
  ASSUME DashInv, NEW what \in Permits("owner"), Change(what)
  PROVE  DashInv'
<1>1. /\ change' = [phase |-> "sent", what |-> what, to |-> Target(shown), at |-> 0]
      /\ UNCHANGED <<view, shown, jar, pending, store, cache, fetch, told>>
  BY DEF Change, tab
<1>2. Target(shown) \in Orgs /\ 0 \in 0..MaxVersion
  BY DashBounds DEF DashInv, DashTypeOK, Target
<1>3. /\ change' \in [phase : {"idle", "sent", "done", "refreshing"},
                      what : Permits("owner") \cup {"none"}, to : Orgs, at : 0..MaxVersion]
      /\ change'.what = what /\ change'.at = 0
  BY <1>1, <1>2
<1>4. view.on # "settings" => what # "save"
  BY OnlySettingsSave, ViewsKnown DEF Change, DashInv
<1>5. DashTypeOK'
  BY <1>1, <1>3 DEF DashInv, DashTypeOK
<1>6. store.version \in Nat
  BY DashBounds DEF DashInv, DashTypeOK
<1> QED BY <1>1, <1>3, <1>4, <1>5, <1>6 DEF DashInv, Known, UpToDate

LEMMA CommitKeeps == ASSUME DashInv, Commit PROVE DashInv'
<1> DEFINE at == IF change.to = "this" THEN store.version + 1 ELSE 0
<1>1. /\ store' = [version |-> IF change.to = "this" THEN at ELSE store.version,
                   gone |-> store.gone \/ change.what = "delete"]
      /\ change' = [change EXCEPT !.phase = "done", !.at = at]
      /\ at <= MaxVersion
      /\ UNCHANGED <<view, shown, jar, pending, cache, fetch, told>>
  BY DEF Commit, tab
<1>2. store.version \in 0..MaxVersion /\ at \in 0..MaxVersion
  BY <1>1, DashBounds DEF DashInv, DashTypeOK
<1>3. /\ store' \in [version : 0..MaxVersion, gone : BOOLEAN]
      /\ store'.version >= store.version /\ store'.version >= at
  <2>1. (IF change.to = "this" THEN at ELSE store.version) \in 0..MaxVersion
    BY <1>2
  <2>2. (store.gone \/ change.what = "delete") \in BOOLEAN
    OBVIOUS
  <2> QED BY <1>1, <1>2, <2>1, <2>2, DashBounds
<1>4. /\ change' \in [phase : {"idle", "sent", "done", "refreshing"},
                      what : Permits("owner") \cup {"none"}, to : Orgs, at : 0..MaxVersion]
      /\ change'.what = change.what /\ change'.at = at
  BY <1>1, <1>2 DEF DashInv, DashTypeOK
<1> HIDE DEF at
<1>5. DashTypeOK'
  BY <1>1, <1>3, <1>4 DEF DashInv, DashTypeOK
<1>6. /\ told \in 0..MaxVersion /\ fetch.at \in 0..MaxVersion /\ store'.version \in Nat
  BY <1>3, DashBounds DEF DashInv, DashTypeOK
<1>7. Known'
  BY <1>1, <1>2, <1>3, <1>4, <1>6, DashBounds DEF DashInv, Known
<1>8. UpToDate'
  BY <1>1, <1>4 DEF DashInv, UpToDate
<1> QED BY <1>5, <1>7, <1>8 DEF DashInv

(* What stays under way while the person is told that a version is saved   *)
(* is of its type, and whatever answer is older is marked.                 *)
LEMMA StaysTyped ==
  ASSUME DashTypeOK, NEW saved \in 0..MaxVersion
  PROVE  /\ Stays(saved) \in [leg : {"none", "out", "back", "refused"}, to : Orgs,
                              at : 0..MaxVersion, overtaken : BOOLEAN]
         /\ Stays(saved).leg = fetch.leg /\ Stays(saved).to = fetch.to /\ Stays(saved).at = fetch.at
         /\ Stays(saved).overtaken = (fetch.overtaken \/ (fetch.leg = "back" /\ fetch.at < saved))
<1>1. fetch \in [leg : {"none", "out", "back", "refused"}, to : Orgs,
                 at : 0..MaxVersion, overtaken : BOOLEAN]
  BY DEF DashTypeOK
<1>2. (fetch.overtaken \/ (fetch.leg = "back" /\ fetch.at < saved)) \in BOOLEAN
  OBVIOUS
<1> QED BY <1>1, <1>2 DEF Stays

(* The answer to a change outside the settings: whoever is told of it asks *)
(* again, and a request under way, which might have been answered before,  *)
(* is given up or marked.                                                  *)
LEMMA ChangeAnsweredKeeps == ASSUME DashInv, ChangeAnswered PROVE DashInv'
<1> DEFINE saved == IF view.mounted /\ change.to = "this" THEN change.at ELSE 0
<1>1. /\ UNCHANGED <<view, shown, jar, pending, store>>
      /\ change' = IF view.mounted /\ change.what \notin {"save", "invite"}
                   THEN [change EXCEPT !.phase = "refreshing", !.to = shown, !.at = 0]
                   ELSE NoChange
      /\ told' = IF saved > told THEN saved ELSE told
  BY DEF ChangeAnswered, tab
<1>2. /\ change.at \in 0..MaxVersion /\ told \in 0..MaxVersion
      /\ store.version \in 0..MaxVersion /\ shown \in Orgs /\ saved \in 0..MaxVersion
      /\ saved <= store.version /\ (saved # 0 => view.mounted)
  BY DashBounds DEF DashInv, DashTypeOK, Known
<1>3. /\ change' \in [phase : {"idle", "sent", "done", "refreshing"},
                      what : Permits("owner") \cup {"none"}, to : Orgs, at : 0..MaxVersion]
      /\ change'.at = 0 /\ change'.what \in {change.what, "none"}
  <2>1. 0 \in 0..MaxVersion
    BY DashBounds
  <2>2. CASE change' = NoChange
    BY <2>2, IdleTyped
  <2>3. CASE change' = [change EXCEPT !.phase = "refreshing", !.to = shown, !.at = 0]
    BY <2>1, <2>3, <1>2 DEF DashInv, DashTypeOK
  <2> QED BY <1>1, <2>2, <2>3
<1>4. told' \in 0..MaxVersion /\ told' <= store.version /\ (told' = told \/ told' = saved)
  BY <1>1, <1>2, DashBounds DEF DashInv, Known
<1>5. CASE shown # "this"
  <2>1. /\ cache' = [cache EXCEPT !.overtaken = @ \/ cache.at < saved]
        /\ fetch' = Stays(saved)
    BY <1>5 DEF ChangeAnswered
  <2> HIDE DEF saved
  <2>2. /\ cache' \in [held : {"nothing", "own", "foreign"}, at : 0..MaxVersion,
                       stale : BOOLEAN, failed : BOOLEAN, overtaken : BOOLEAN]
        /\ cache'.held = cache.held /\ cache'.at = cache.at /\ cache'.failed = cache.failed
        /\ cache'.overtaken = (cache.overtaken \/ cache.at < saved)
    <3>1. (cache.overtaken \/ cache.at < saved) \in BOOLEAN
      OBVIOUS
    <3> QED BY <2>1, <3>1 DEF DashInv, DashTypeOK
  <2>3. /\ fetch' \in [leg : {"none", "out", "back", "refused"}, to : Orgs,
                       at : 0..MaxVersion, overtaken : BOOLEAN]
        /\ fetch'.leg = fetch.leg /\ fetch'.to = fetch.to /\ fetch'.at = fetch.at
        /\ fetch'.overtaken = (fetch.overtaken \/ (fetch.leg = "back" /\ fetch.at < saved))
    BY <1>2, <2>1, StaysTyped DEF DashInv
  <2>4. DashTypeOK'
    BY <1>1, <1>3, <1>4, <2>2, <2>3 DEF DashInv, DashTypeOK
  <2>5. Known'
    BY <1>1, <1>2, <1>3, <1>4, <2>3, DashBounds DEF DashInv, Known
  <2>6. UpToDate'
    <3>1. cache.at \in Nat /\ fetch.at \in Nat /\ saved \in Nat /\ told \in Nat
      BY <1>2, DashBounds DEF DashInv, DashTypeOK
    <3> QED BY <1>1, <1>3, <1>4, <2>2, <2>3, <3>1 DEF DashInv, UpToDate
  <2> QED BY <2>4, <2>5, <2>6 DEF DashInv
<1>6. CASE shown = "this" /\ change.what = "save"
  <2>1. fetch' = fetch /\ view.on = "settings"
    BY <1>6 DEF ChangeAnswered, DashInv, UpToDate
  <2>2. cache' \in [held : {"nothing", "own", "foreign"}, at : 0..MaxVersion,
                    stale : BOOLEAN, failed : BOOLEAN, overtaken : BOOLEAN]
    BY <1>2, <1>6, EntryTyped DEF ChangeAnswered
  <2>3. DashTypeOK'
    BY <1>1, <1>3, <1>4, <2>1, <2>2 DEF DashInv, DashTypeOK
  <2> QED BY <1>1, <1>2, <1>3, <1>4, <2>1, <2>3, DashBounds DEF DashInv, Known, UpToDate
<1>7. CASE shown = "this" /\ change.what # "save"
  <2>1. /\ cache' = [cache EXCEPT !.stale = TRUE]
        /\ fetch' = IF view.mounted /\ (cache.held # "nothing" \/ fetch.leg = "none")
                    THEN Sent ELSE Stays(saved)
    BY <1>7 DEF ChangeAnswered, Invalidate
  <2> HIDE DEF saved
  <2>2. /\ cache' \in [held : {"nothing", "own", "foreign"}, at : 0..MaxVersion,
                       stale : BOOLEAN, failed : BOOLEAN, overtaken : BOOLEAN]
        /\ cache'.held = cache.held /\ cache'.at = cache.at /\ cache'.failed = cache.failed
        /\ cache'.overtaken = cache.overtaken
    BY <2>1 DEF DashInv, DashTypeOK
  <2>3. /\ fetch' \in [leg : {"none", "out", "back", "refused"}, to : Orgs,
                       at : 0..MaxVersion, overtaken : BOOLEAN]
        /\ \/ fetch'.leg = "out" /\ fetch'.at = 0
           \/ /\ saved # 0 => cache.held = "nothing" /\ fetch.leg # "none"
              /\ fetch'.leg = fetch.leg /\ fetch'.to = fetch.to /\ fetch'.at = fetch.at
              /\ fetch'.overtaken = (fetch.overtaken \/ (fetch.leg = "back" /\ fetch.at < saved))
    <3>1. CASE view.mounted /\ (cache.held # "nothing" \/ fetch.leg = "none")
      BY <2>1, <3>1, SentTyped DEF DashInv
    <3>2. CASE ~(view.mounted /\ (cache.held # "nothing" \/ fetch.leg = "none"))
      BY <1>2, <2>1, <3>2, StaysTyped DEF DashInv
    <3> QED BY <3>1, <3>2
  <2>4. DashTypeOK'
    BY <1>1, <1>3, <1>4, <2>2, <2>3 DEF DashInv, DashTypeOK
  <2>5. Known'
    BY <1>1, <1>2, <1>3, <1>4, <2>3, DashBounds DEF DashInv, Known
  <2>6. UpToDate'
    <3>1. cache.at \in Nat /\ fetch.at \in Nat /\ saved \in Nat /\ told \in Nat
      BY <1>2, DashBounds DEF DashInv, DashTypeOK
    <3> QED BY <1>1, <1>2, <1>3, <1>4, <2>2, <2>3, <3>1 DEF DashInv, UpToDate
  <2> QED BY <2>4, <2>5, <2>6 DEF DashInv
<1> QED BY <1>5, <1>6, <1>7

LEMMA ChangeEndsKeeps ==
  ASSUME DashInv, OtherSettles \/ ChangeFails
  PROVE  DashInv'
<1>1. UNCHANGED <<shown, jar, pending, store, cache, fetch, told>>
  BY DEF OtherSettles, ChangeFails, tab
<1>2. /\ view' \in [on : Views, role : Roles, mounted : BOOLEAN] /\ view'.on = view.on
      /\ change' \in [phase : {"idle", "sent", "done", "refreshing"},
                      what : Permits("owner") \cup {"none"}, to : Orgs, at : 0..MaxVersion]
      /\ change' = NoChange \/ change' = change
  <2>1. "other" \in Orgs
    BY DEF Orgs
  <2>2. CASE OtherSettles
    BY <2>1, <2>2, SettleTyped DEF DashInv, OtherSettles
  <2>3. CASE ChangeFails
    BY <2>3, IdleTyped DEF DashInv, DashTypeOK, ChangeFails, tab
  <2> QED BY <2>2, <2>3
<1>3. DashTypeOK'
  BY <1>1, <1>2 DEF DashInv, DashTypeOK
<1>4. store.version \in Nat
  BY DashBounds DEF DashInv, DashTypeOK
<1> QED BY <1>1, <1>2, <1>3, <1>4, IdleTyped DEF DashInv, Known, UpToDate

LEMMA OthersEditKeeps == ASSUME DashInv, OthersEdit PROVE DashInv'
<1>1. PICK gone \in {store.gone, view.on = "website"} :
        store' = [version |-> store.version + 1, gone |-> store.gone \/ gone]
  BY DEF OthersEdit
<1>2. /\ UNCHANGED <<view, shown, jar, pending, cache, fetch, change, told>>
      /\ store.version \in 0..MaxVersion /\ store.version < MaxVersion
      /\ fetch.at \in 0..MaxVersion /\ change.at \in 0..MaxVersion /\ told \in 0..MaxVersion
  BY DEF OthersEdit, tab, DashInv, DashTypeOK
<1>3. store' \in [version : 0..MaxVersion, gone : BOOLEAN] /\ store'.version = store.version + 1
  <2>1. (store.gone \/ gone) \in BOOLEAN
    OBVIOUS
  <2>2. store.version + 1 \in 0..MaxVersion
    BY <1>2, DashBounds
  <2> QED BY <1>1, <2>1, <2>2
<1>4. DashTypeOK'
  BY <1>2, <1>3 DEF DashInv, DashTypeOK
<1>5. Known'
  BY <1>2, <1>3, DashBounds DEF DashInv, Known
<1>6. UpToDate'
  BY <1>2 DEF DashInv, UpToDate
<1> QED BY <1>4, <1>5, <1>6 DEF DashInv

LEMMA DashStep == DashInv /\ [DashNext]_dashVars => DashInv'
<1> SUFFICES ASSUME DashInv, [DashNext]_dashVars PROVE DashInv'
  OBVIOUS
<1>1. CASE Serve
  BY <1>1, ServeKeeps
<1>2. CASE Arrive
  BY <1>2, ArriveKeeps
<1>3. CASE Refused \/ AttemptFails
  BY <1>3, FailuresKeep
<1>4. CASE GoesStale
  BY <1>4, StaleKeeps
<1>5. CASE \E org \in Orgs : Select(org) \/ Refreshed(org) \/ OtherTab(org)
  BY <1>5, MovesKeep, RequestsKeep
<1>6. CASE Refetch \/ Leave \/ Return
  <2>1. "this" \in Orgs
    BY DEF Orgs
  <2> QED BY <1>6, <2>1, MovesKeep, RequestsKeep
<1>7. CASE \E what \in Permits("owner") : Change(what)
  BY <1>7, ChangeKeeps
<1>8. CASE Commit
  BY <1>8, CommitKeeps
<1>9. CASE ChangeAnswered
  BY <1>9, ChangeAnsweredKeeps
<1>10. CASE OtherSettles \/ ChangeFails
  BY <1>10, ChangeEndsKeeps
<1>11. CASE OthersEdit
  BY <1>11, OthersEditKeeps
<1>12. CASE UNCHANGED dashVars
  BY <1>12 DEF dashVars, DashInv, DashTypeOK, Known, UpToDate
<1> QED BY <1>1, <1>2, <1>3, <1>4, <1>5, <1>6, <1>7, <1>8, <1>9, <1>10, <1>11, <1>12 DEF DashNext

(* The tab is only in states that make sense, however often it polls, is   *)
(* left, changes its organization or is refused.                           *)
THEOREM DashTyped == DashSpec => []DashTypeOK
<1>1. DashInv => DashTypeOK
  BY DEF DashInv
<1> QED BY <1>1, InitDash, DashStep, PTL DEF DashSpec

(* A view at rest never shows less than the person has been shown, or has  *)
(* been told is saved, unless its answer was overtaken: an answer served   *)
(* before a change (a poll, a retry, a request sent for another            *)
(* organization) never replaces a newer one, the first load of a table to  *)
(* which a website is being added and a change confirmed after a switch to *)
(* another organization excepted, until the next answer.                   *)
THEOREM NothingGoesBack == DashSpec => []NeverGoesBack
<1>1. DashInv => NeverGoesBack
  BY DEF DashInv, UpToDate, NeverGoesBack, Screen
<1> QED BY <1>1, InitDash, DashStep, PTL DEF DashSpec

----------------------------------------------------------------------------
(* The table of websites.                                                  *)

LEMMA TableBounds == MaxWebsites \in Nat /\ RowsPerPage \in Nat \ {0}
BY TableAssumption DEF TableAssumption

(* The pages of a total are just enough to hold it.                        *)
LEMMA PagesSuffice ==
  ASSUME NEW total \in Nat
  PROVE  /\ PagesOf(total) \in Nat
         /\ \A page \in Nat : page < PagesOf(total) => page * RowsPerPage < total
BY TableBounds DEF PagesOf

(* More websites have no fewer pages.                                      *)
LEMMA PagesGrow ==
  ASSUME NEW total \in 0..MaxWebsites
  PROVE  PagesOf(total) \in 0..PagesOf(MaxWebsites)
<1>1. total \in Nat /\ total <= MaxWebsites /\ MaxWebsites \in Nat
  BY TableBounds
<1>2. PagesOf(total) <= PagesOf(MaxWebsites)
  BY <1>1, TableBounds DEF PagesOf
<1> QED BY <1>1, <1>2, PagesSuffice

(* The table asks for a page that exists.                                  *)
AsksForRows ==
  wanted.page = 1 \/ Matching > (wanted.page - 1) * RowsPerPage

(* The request finds the page, and counts no more than there is by now.    *)
ReadsRows ==
  reading.going => /\ reading.rows # "beyond"
                   /\ reading.counted => reading.total <= Matching

(* So does the answer, and every page that its buttons lead to exists.     *)
ShowsRows ==
  Settled => /\ screen.rows # "beyond"
             /\ \A page \in Nat : page < screen.pages => page * RowsPerPage < Matching

TableInv ==
  /\ TableTypeOK
  /\ Settled => reading.rows = "unread"
  /\ ~shrunk => AsksForRows /\ ReadsRows /\ ShowsRows

LEMMA UnreadTyped ==
  /\ Unread \in [going : BOOLEAN, rows : {"unread", "none", "some", "beyond"},
                 counted : BOOLEAN, total : 0..MaxWebsites]
  /\ Unread.going /\ Unread.rows = "unread" /\ ~Unread.counted
  /\ NotReading \in [going : BOOLEAN, rows : {"unread", "none", "some", "beyond"},
                     counted : BOOLEAN, total : 0..MaxWebsites]
  /\ ~NotReading.going /\ NotReading.rows = "unread"
<1>1. 0 \in 0..MaxWebsites
  BY TableBounds
<1>2. /\ Unread \in [going : BOOLEAN, rows : {"unread", "none", "some", "beyond"},
                     counted : BOOLEAN, total : 0..MaxWebsites]
      /\ Unread.going /\ Unread.rows = "unread" /\ ~Unread.counted
  BY <1>1 DEF Unread
<1>3. /\ NotReading \in [going : BOOLEAN, rows : {"unread", "none", "some", "beyond"},
                         counted : BOOLEAN, total : 0..MaxWebsites]
      /\ ~NotReading.going /\ NotReading.rows = "unread"
  BY <1>2 DEF NotReading
<1> QED BY <1>2, <1>3

LEMMA MatchingTyped ==
  ASSUME TableTypeOK
  PROVE  Matching \in 0..MaxWebsites /\ wanted.page \in Nat \ {0}
<1>1. PagesOf(MaxWebsites) \in Nat
  BY TableBounds, PagesSuffice
<1> QED BY <1>1 DEF TableTypeOK, Matching

LEMMA InitTable == TableInit => TableInv
<1> SUFFICES ASSUME TableInit PROVE TableInv
  OBVIOUS
<1>1. PagesOf(MaxWebsites) \in Nat
  BY TableBounds, PagesSuffice
<1>2. reading = Unread /\ wanted.page = 1 /\ ~wanted.filtered
  BY DEF TableInit
<1>3. TableTypeOK
  <2>1. screen \in [rows : {"unread", "none", "some", "beyond"}, pages : 0..PagesOf(MaxWebsites)]
    BY <1>1 DEF TableInit, NoAnswer
  <2>2. wanted.filtered \in BOOLEAN /\ wanted.page \in 1..PagesOf(MaxWebsites) + 1
    BY <1>1 DEF TableInit
  <2> QED BY <2>1, <2>2, UnreadTyped DEF TableInit, TableTypeOK
<1> QED BY <1>2, <1>3, UnreadTyped DEF TableInv, AsksForRows, ReadsRows, ShowsRows, Settled

(* A new request for a page that exists.                                   *)
LEMMA AskKeeps ==
  ASSUME TableInv, NEW filtered \in BOOLEAN, NEW page \in 1..PagesOf(MaxWebsites) + 1,
         Ask(filtered, page),
         sites' \in [all : 0..MaxWebsites, some : 0..MaxWebsites], sites'.some <= sites'.all,
         ~shrunk => page = 1 \/ Matching' > (page - 1) * RowsPerPage
  PROVE  TableInv'
<1>1. /\ wanted'.filtered = filtered /\ wanted'.page = page
      /\ reading' = Unread /\ UNCHANGED <<screen, shrunk>>
  BY DEF Ask
<1>2. TableTypeOK'
  BY <1>1, UnreadTyped DEF TableInv, TableTypeOK
<1>3. ~shrunk' => AsksForRows'
  BY <1>1 DEF AsksForRows
<1> QED BY <1>1, <1>2, <1>3, UnreadTyped DEF TableInv, ReadsRows, ShowsRows, Settled

LEMMA FilterKeeps == ASSUME TableInv, TypeFilter \/ ClearFilters PROVE TableInv'
<1>1. 1 \in 1..PagesOf(MaxWebsites) + 1
  BY TableBounds, PagesSuffice
<1>2. PICK filtered \in BOOLEAN : Ask(filtered, 1)
  BY DEF TypeFilter, ClearFilters, Filter
<1>3. sites' \in [all : 0..MaxWebsites, some : 0..MaxWebsites] /\ sites'.some <= sites'.all
  <2>1. CASE UNCHANGED sites
    BY <2>1 DEF TableInv, TableTypeOK
  <2>2. CASE sites' \in [all : {sites.all}, some : 0..sites.all]
    BY <2>2, TableBounds DEF TableInv, TableTypeOK
  <2> QED BY <2>1, <2>2 DEF TypeFilter, ClearFilters
<1> QED BY <1>1, <1>2, <1>3, AskKeeps

(* Turning the page, or reading it again.                                  *)
LEMMA PagingKeeps ==
  ASSUME TableInv, NextPage \/ PreviousPage \/ ReadListAgain
  PROVE  TableInv'
<1> DEFINE last == PagesOf(MaxWebsites)
<1>1. last \in Nat /\ wanted.page \in 1..last + 1 /\ wanted.filtered \in BOOLEAN
  BY TableBounds, PagesSuffice DEF TableInv, TableTypeOK
<1>2. Matching \in Nat /\ RowsPerPage \in Nat
  BY MatchingTyped, TableBounds DEF TableInv
<1>3. /\ sites' \in [all : 0..MaxWebsites, some : 0..MaxWebsites] /\ sites'.some <= sites'.all
      /\ UNCHANGED sites
  BY DEF TableInv, TableTypeOK, NextPage, PreviousPage, ReadListAgain
<1>4. ASSUME NEW page, Ask(wanted.filtered, page) PROVE Matching' = Matching
  BY <1>3, <1>4 DEF Ask, Matching
<1>5. screen.pages \in 0..last
  BY DEF TableInv, TableTypeOK
<1>6. CASE NextPage
  <2>1. /\ Ask(wanted.filtered, wanted.page + 1) /\ Settled
        /\ wanted.page < screen.pages
    BY <1>6 DEF NextPage
  <2>2. wanted.page + 1 \in 1..last + 1
    BY <1>1, <1>5, <2>1
  <2>3. ~shrunk => wanted.page * RowsPerPage < Matching
    BY <1>1, <2>1 DEF TableInv, ShowsRows
  <2>4. wanted.page + 1 - 1 = wanted.page
    BY <1>1
  <2>5. ~shrunk => Matching' > (wanted.page + 1 - 1) * RowsPerPage
    BY <1>1, <1>2, <1>4, <2>1, <2>3, <2>4
  <2> QED BY <1>1, <1>3, <2>1, <2>2, <2>5, AskKeeps
<1>7. CASE PreviousPage
  <2>1. Ask(wanted.filtered, wanted.page - 1) /\ wanted.page > 1
    BY <1>7 DEF PreviousPage
  <2>2. wanted.page - 1 \in 1..last + 1
    BY <1>1, <2>1
  <2>3. ~shrunk => Matching > (wanted.page - 1) * RowsPerPage
    BY <1>1, <2>1 DEF TableInv, AsksForRows
  <2>4. (wanted.page - 1) * RowsPerPage = (wanted.page - 1 - 1) * RowsPerPage + RowsPerPage
    BY <1>1, <1>2
  <2>5. (wanted.page - 1) * RowsPerPage \in Nat /\ (wanted.page - 1 - 1) * RowsPerPage \in Nat
    <3>1. wanted.page - 1 \in Nat /\ wanted.page - 1 - 1 \in Nat
      BY <1>1, <2>1
    <3> QED BY <1>2, <3>1
  <2>6. ~shrunk => Matching' > (wanted.page - 1 - 1) * RowsPerPage
    BY <1>2, <1>4, <2>1, <2>3, <2>4, <2>5
  <2> QED BY <1>1, <1>3, <2>1, <2>2, <2>6, AskKeeps
<1>8. CASE ReadListAgain
  <2>1. Ask(wanted.filtered, wanted.page)
    BY <1>8 DEF ReadListAgain
  <2>2. ~shrunk => wanted.page = 1 \/ Matching' > (wanted.page - 1) * RowsPerPage
    BY <1>4, <2>1 DEF TableInv, AsksForRows
  <2> QED BY <1>1, <1>3, <2>1, <2>2, AskKeeps
<1> QED BY <1>6, <1>7, <1>8

LEMMA ReadRowsKeeps == ASSUME TableInv, ReadRows PROVE TableInv'
<1> DEFINE found == CASE Matching = 0 -> "none"
                      [] Matching > (wanted.page - 1) * RowsPerPage -> "some"
                      [] OTHER -> "beyond"
<1>1. /\ reading' = [reading EXCEPT !.rows = found] /\ reading.going
      /\ UNCHANGED <<sites, wanted, screen, shrunk>>
  BY DEF ReadRows
<1>2. found \in {"none", "some", "beyond"}
  OBVIOUS
<1>3. ~shrunk => found # "beyond"
  <2>1. Matching \in Nat /\ RowsPerPage \in Nat /\ wanted.page \in Nat
    BY MatchingTyped, TableBounds DEF TableInv
  <2>2. ASSUME wanted.page = 1 PROVE (wanted.page - 1) * RowsPerPage = 0
    BY <2>1, <2>2
  <2>3. ASSUME ~shrunk PROVE Matching = 0 \/ Matching > (wanted.page - 1) * RowsPerPage
    BY <2>1, <2>2, <2>3 DEF TableInv, AsksForRows
  <2> QED BY <2>3
<1> HIDE DEF found
<1>4. /\ reading' \in [going : BOOLEAN, rows : {"unread", "none", "some", "beyond"},
                       counted : BOOLEAN, total : 0..MaxWebsites]
      /\ reading'.going /\ reading'.rows = found
      /\ reading'.counted = reading.counted /\ reading'.total = reading.total
  BY <1>1, <1>2 DEF TableInv, TableTypeOK
<1>5. TableTypeOK'
  BY <1>1, <1>4 DEF TableInv, TableTypeOK
<1> QED BY <1>1, <1>3, <1>4, <1>5
     DEF TableInv, AsksForRows, ReadsRows, ShowsRows, Settled, Matching

LEMMA ReadTotalKeeps == ASSUME TableInv, ReadTotal PROVE TableInv'
<1>1. /\ reading' = [reading EXCEPT !.counted = TRUE, !.total = Matching] /\ reading.going
      /\ UNCHANGED <<sites, wanted, screen, shrunk>>
  BY DEF ReadTotal
<1>2. Matching \in 0..MaxWebsites /\ Matching \in Nat
  BY MatchingTyped DEF TableInv
<1>3. /\ reading' \in [going : BOOLEAN, rows : {"unread", "none", "some", "beyond"},
                       counted : BOOLEAN, total : 0..MaxWebsites]
      /\ reading'.going /\ reading'.rows = reading.rows /\ reading'.total = Matching
  BY <1>1, <1>2 DEF TableInv, TableTypeOK
<1>4. TableTypeOK'
  BY <1>1, <1>3 DEF TableInv, TableTypeOK
<1>5. Matching' = Matching
  BY <1>1 DEF Matching
<1>6. ~shrunk' => AsksForRows' /\ ReadsRows'
  BY <1>1, <1>2, <1>3, <1>5 DEF TableInv, AsksForRows, ReadsRows
<1> QED BY <1>1, <1>3, <1>4, <1>6 DEF TableInv, ShowsRows, Settled

LEMMA AnsweredKeeps == ASSUME TableInv, Answered PROVE TableInv'
<1>1. /\ reading' = NotReading /\ UNCHANGED <<sites, wanted, shrunk>>
      /\ screen' = [rows |-> reading.rows, pages |-> PagesOf(reading.total)]
      /\ reading.rows # "unread" /\ reading.counted
  BY DEF Answered
<1>2. reading.total \in 0..MaxWebsites /\ reading.total \in Nat
  BY DEF TableInv, TableTypeOK
<1>3. TableTypeOK'
  <2>1. screen' \in [rows : {"unread", "none", "some", "beyond"}, pages : 0..PagesOf(MaxWebsites)]
    BY <1>1, <1>2, PagesGrow DEF TableInv, TableTypeOK
  <2> QED BY <1>1, <2>1, UnreadTyped DEF TableInv, TableTypeOK
<1>4. reading.going
  BY <1>1 DEF TableInv, Settled
<1>5. ASSUME ~shrunk PROVE AsksForRows' /\ ReadsRows' /\ ShowsRows'
  <2>1. reading.rows # "beyond" /\ reading.total <= Matching /\ AsksForRows
    BY <1>1, <1>4, <1>5 DEF TableInv, ReadsRows
  <2>2. screen'.rows = reading.rows /\ screen'.pages = PagesOf(reading.total)
    BY <1>1
  <2>3. Matching' = Matching /\ Matching \in Nat /\ RowsPerPage \in Nat
    BY <1>1, MatchingTyped, TableBounds DEF TableInv, Matching
  <2>4. ASSUME NEW page \in Nat, page < screen'.pages PROVE page * RowsPerPage < Matching'
    <3>1. page * RowsPerPage < reading.total
      BY <1>2, <2>2, <2>4, PagesSuffice
    <3>2. page * RowsPerPage \in Nat
      BY <2>3
    <3> QED BY <1>2, <2>1, <2>3, <3>1, <3>2
  <2>5. AsksForRows' /\ ReadsRows'
    BY <1>1, <2>1, <2>3, UnreadTyped DEF AsksForRows, ReadsRows
  <2>6. ShowsRows'
    BY <2>1, <2>2, <2>4 DEF ShowsRows
  <2> QED BY <2>5, <2>6
<1> QED BY <1>1, <1>3, <1>5, UnreadTyped DEF TableInv, Settled

LEMMA GrowKeeps == ASSUME TableInv, Grow PROVE TableInv'
<1>1. /\ sites' \in [all : {sites.all, sites.all + 1}, some : {sites.some, sites.some + 1}]
      /\ sites'.all <= MaxWebsites /\ sites'.some <= sites'.all
      /\ UNCHANGED <<wanted, reading, screen, shrunk>>
  BY DEF Grow
<1>2. sites.all \in Nat /\ sites.some \in Nat
  BY DEF TableInv, TableTypeOK
<1>3. sites' \in [all : 0..MaxWebsites, some : 0..MaxWebsites]
  <2>1. sites'.all \in 0..MaxWebsites /\ sites'.some \in 0..MaxWebsites
    BY <1>1, <1>2, TableBounds
  <2> QED BY <1>1, <2>1
<1>4. TableTypeOK'
  BY <1>1, <1>3 DEF TableInv, TableTypeOK
<1>5. Matching \in Nat /\ Matching' \in Nat /\ Matching <= Matching'
  BY <1>1, <1>2 DEF Matching
<1>6. RowsPerPage \in Nat /\ wanted.page - 1 \in Nat
  BY TableBounds, MatchingTyped DEF TableInv
<1>7. \A page \in Nat : page * RowsPerPage < Matching => page * RowsPerPage < Matching'
  <2>1. \A page \in Nat : page * RowsPerPage \in Nat
    BY <1>6
  <2> QED BY <1>5, <2>1
<1>8. AsksForRows => AsksForRows'
  BY <1>1, <1>5, <1>6, <1>7 DEF AsksForRows
<1>9. ReadsRows => ReadsRows'
  <2>1. reading.total \in Nat
    BY DEF TableInv, TableTypeOK
  <2> QED BY <1>1, <1>5, <2>1 DEF ReadsRows
<1>10. ShowsRows => ShowsRows'
  BY <1>1, <1>7 DEF ShowsRows, Settled
<1> QED BY <1>1, <1>4, <1>8, <1>9, <1>10 DEF TableInv, Settled

LEMMA ShrinkKeeps == ASSUME TableInv, Shrink PROVE TableInv'
<1>1. /\ sites' \in [all : {sites.all, sites.all - 1}, some : {sites.some, sites.some - 1}]
      /\ sites'.some \in 0..sites'.all /\ shrunk'
      /\ UNCHANGED <<wanted, reading, screen>> /\ shrunk' \in BOOLEAN
  BY DEF Shrink
<1>2. /\ sites.all \in 0..MaxWebsites /\ sites.some \in 0..MaxWebsites
  BY DEF TableInv, TableTypeOK
<1>3. sites' \in [all : 0..MaxWebsites, some : 0..MaxWebsites] /\ sites'.some <= sites'.all
  <2>1. sites'.all \in {sites.all, sites.all - 1}
    BY <1>1
  <2>2. sites'.all \in 0..MaxWebsites /\ sites'.some \in 0..MaxWebsites
    BY <1>1, <1>2, <2>1, TableBounds
  <2> QED BY <1>1, <1>2, <2>1, <2>2, TableBounds
<1>4. TableTypeOK'
  BY <1>1, <1>3 DEF TableInv, TableTypeOK
<1> QED BY <1>1, <1>4 DEF TableInv, Settled

LEMMA TableStep == TableInv /\ [TableNext]_tableVars => TableInv'
<1> SUFFICES ASSUME TableInv, [TableNext]_tableVars PROVE TableInv'
  OBVIOUS
<1>1. CASE UNCHANGED tableVars
  BY <1>1 DEF tableVars, TableInv, TableTypeOK, AsksForRows, ReadsRows, ShowsRows, Settled, Matching
<1> QED BY <1>1, ReadRowsKeeps, ReadTotalKeeps, AnsweredKeeps, FilterKeeps, PagingKeeps,
           GrowKeeps, ShrinkKeeps DEF TableNext

(* An empty table tells what was read: whatever was typed, turned or added *)
(* while an answer was awaited, no page past the end is asked for, so that *)
(* the table says that there are no websites only when the list its rows   *)
(* were read from had none.                                                *)
THEOREM EmptyIsTrue == TableSpec => []NothingIsTrue
<1>1. TableInv => NothingIsTrue
  BY DEF TableInv, TableTypeOK, ShowsRows, NothingIsTrue, Says
<1> QED BY <1>1, InitTable, TableStep, PTL DEF TableSpec

----------------------------------------------------------------------------
(* The rate limiter.                                                       *)

(* What the followed key was allowed before each time, and its window.     *)
Before == [t \in Nat |-> AllowedBefore(t)]
Length == Window(followed[1])
Budget == Limit(followed[1])
Counted == windows[followed]
Open == Counted.resetAt > now
Opened == Counted.resetAt - Length

(* The history grows with time, and nothing is allowed in the future.      *)
HistoryGrows ==
  /\ \A t, u \in Nat : t <= u => Before[t] <= Before[u]
  /\ \A t \in Nat : t > now => Before[t] = Before[now + 1]

(* An open window has allowed what it counts, up to the budget; the time   *)
(* before it that one window's length reaches from within, one budget.     *)
WhileOpen ==
  Open => /\ Opened \in 0..now
          /\ Before[now + 1] - Before[Opened] = IF Counted.count > Budget THEN Budget ELSE Counted.count
          /\ \A t \in 0..Opened : Opened < t + Length => Before[Opened] - Before[t] <= Budget

(* Without one, nothing has been allowed now, and one budget lately.       *)
WhileClosed ==
  ~Open => /\ Before[now + 1] = Before[now]
           /\ \A t \in 0..now : now < t + Length => Before[now] - Before[t] <= Budget

(* The part of the property that is about two windows.                     *)
TwoBudgets == \A from \in 0..now : Before[from + Length] - Before[from] <= 2 * Budget

LimiterInv ==
  /\ LimiterTypeOK /\ HistoryGrows /\ WhileOpen /\ WhileClosed /\ TwoBudgets
  /\ refused => Open /\ Counted.count > Budget

LEMMA LimiterBounds == MaxTime \in Nat
BY LimiterAssumption DEF LimiterAssumption

LEMMA KeyBounds ==
  ASSUME NEW key \in Keys
  PROVE  Window(key[1]) \in 1..3 /\ Limit(key[1]) \in Nat \ {0}
BY LimiterAssumption DEF LimiterAssumption, Window, Limit, Larger

(* The values that the invariant speaks of are numbers.                    *)
LEMMA LimiterNumbers ==
  ASSUME LimiterTypeOK
  PROVE  /\ Before \in [Nat -> Nat] /\ now \in 0..MaxTime /\ now \in Nat
         /\ Length \in 1..3 /\ Budget \in Nat \ {0}
         /\ Counted.count \in Nat /\ Counted.resetAt \in Nat
<1>1. /\ followed \in Keys /\ granted \in [0..MaxTime -> Nat] /\ now \in 0..MaxTime
      /\ windows[followed].count \in 0..(Limit(followed[1]) + 1)
      /\ windows[followed].resetAt \in 0..(MaxTime + Window(followed[1]))
  BY DEF LimiterTypeOK
<1>2. Window(followed[1]) \in 1..3 /\ Limit(followed[1]) \in Nat \ {0}
  BY <1>1, KeyBounds
<1>3. ASSUME NEW t \in Nat PROVE AllowedBefore(t) \in Nat
  BY <1>1, LimiterBounds DEF AllowedBefore
<1>4. Before \in [Nat -> Nat]
  BY <1>3 DEF Before
<1>5. Counted.count \in Nat /\ Counted.resetAt \in Nat
  BY <1>1, <1>2, LimiterBounds DEF Counted
<1>6. Length \in 1..3 /\ Budget \in Nat \ {0}
  BY <1>2 DEF Length, Budget
<1>7. now \in Nat
  BY <1>1, LimiterBounds
<1> QED BY <1>1, <1>4, <1>5, <1>6, <1>7

LEMMA InitLimiter == LimiterInit => LimiterInv
<1> SUFFICES ASSUME LimiterInit PROVE LimiterInv
  OBVIOUS
<1>1. \A key \in Keys : windows[key].count = 0 /\ windows[key].resetAt = 0
  BY DEF LimiterInit, NoWindow
<1>2. LimiterTypeOK
  <2>1. ASSUME NEW key \in Keys
        PROVE  /\ windows[key].count \in 0..(Limit(key[1]) + 1)
               /\ windows[key].resetAt \in 0..(MaxTime + Window(key[1]))
    BY <1>1, KeyBounds, LimiterBounds
  <2>2. granted \in [0..MaxTime -> Nat]
    BY DEF LimiterInit
  <2>3. now \in 0..MaxTime /\ lastSweep \in 0..MaxTime /\ followed \in Keys /\ refused \in BOOLEAN
    <3>1. 0 \in 0..MaxTime
      BY LimiterBounds
    <3> QED BY <3>1 DEF LimiterInit
  <2>4. windows \in [Keys -> [count : Nat, resetAt : Nat]]
    BY DEF LimiterInit, NoWindow
  <2> QED BY <2>1, <2>2, <2>3, <2>4 DEF LimiterTypeOK
<1>3. Before = [t \in Nat |-> 0]
  BY LimiterBounds DEF LimiterInit, Before, AllowedBefore
<1>4. Counted.resetAt = 0 /\ now = 0 /\ ~refused
  BY <1>1 DEF LimiterInit, Counted
<1>5. Length \in 1..3 /\ Budget \in Nat
  BY <1>2, LimiterNumbers
<1>6. ~Open
  BY <1>4 DEF Open
<1> QED BY <1>2, <1>3, <1>4, <1>5, <1>6
     DEF LimiterInv, HistoryGrows, WhileOpen, WhileClosed, TwoBudgets

LEMMA PassKeeps == ASSUME LimiterInv, Pass PROVE LimiterInv'
<1>1. /\ now' = now + 1 /\ now < MaxTime /\ refused' = FALSE
      /\ UNCHANGED <<windows, lastSweep, followed, granted>>
  BY DEF Pass
<1>2. /\ Before \in [Nat -> Nat] /\ now \in 0..MaxTime /\ now \in Nat
      /\ Length \in 1..3 /\ Budget \in Nat \ {0}
      /\ Counted.count \in Nat /\ Counted.resetAt \in Nat
  BY LimiterNumbers DEF LimiterInv
<1>3. Before' = Before /\ Length' = Length /\ Budget' = Budget /\ Counted' = Counted
  BY <1>1 DEF Before, AllowedBefore, Length, Budget, Counted
<1>4. LimiterTypeOK'
  <2>1. now' \in 0..MaxTime
    BY <1>1, <1>2, LimiterBounds
  <2> QED BY <1>1, <2>1 DEF LimiterInv, LimiterTypeOK
<1>5. Before[now + 2] = Before[now + 1]
  BY <1>2 DEF LimiterInv, HistoryGrows
<1>6. HistoryGrows'
  BY <1>1, <1>2, <1>3, <1>5 DEF LimiterInv, HistoryGrows
<1>7. TwoBudgets'
  <2>1. Before[now + 1 + Length] = Before[now + 1]
    BY <1>2 DEF LimiterInv, HistoryGrows
  <2> QED BY <1>1, <1>2, <1>3, <2>1 DEF LimiterInv, TwoBudgets
<1>8. WhileOpen'
  BY <1>1, <1>2, <1>3, <1>5 DEF LimiterInv, WhileOpen, Open, Opened
<1>9. ASSUME ~Open' PROVE WhileClosed'
  <2>1. CASE Open
    <3>1. Counted.resetAt = now + 1 /\ Opened = now + 1 - Length /\ Opened \in Nat
      BY <1>1, <1>2, <1>3, <1>9, <2>1 DEF Open, Opened, LimiterInv, WhileOpen
    <3>2. Before[now + 1] - Before[Opened] <= Budget
      BY <1>2, <2>1 DEF LimiterInv, WhileOpen
    <3>3. ASSUME NEW t \in 0..now + 1, now + 1 < t + Length PROVE Before[now + 1] - Before[t] <= Budget
      <4>1. t \in Nat /\ Opened <= t
        BY <1>2, <3>1, <3>3
      <4>2. Before[Opened] <= Before[t]
        BY <3>1, <4>1 DEF LimiterInv, HistoryGrows
      <4> QED BY <1>2, <3>1, <3>2, <4>1, <4>2
    <3> QED BY <1>1, <1>2, <1>3, <1>5, <3>3 DEF WhileClosed
  <2>2. CASE ~Open
    <3>1. Before[now + 1] = Before[now]
      BY <2>2 DEF LimiterInv, WhileClosed
    <3>2. ASSUME NEW t \in 0..now + 1, now + 1 < t + Length PROVE Before[now + 1] - Before[t] <= Budget
      BY <1>2, <2>2, <3>1, <3>2 DEF LimiterInv, WhileClosed
    <3> QED BY <1>1, <1>2, <1>3, <1>5, <3>2 DEF WhileClosed
  <2> QED BY <2>1, <2>2
<1>10. WhileClosed'
  BY <1>9 DEF WhileClosed
<1> QED BY <1>1, <1>4, <1>6, <1>7, <1>8, <1>10 DEF LimiterInv

(* A sweep forgets no open window.                                         *)
LEMMA SweptTyped ==
  ASSUME LimiterTypeOK, NEW key \in Keys
  PROVE  /\ Swept \in [Keys -> [count : Nat, resetAt : Nat]]
         /\ Swept[key].count \in 0..(Limit(key[1]) + 1)
         /\ Swept[key].resetAt \in 0..(MaxTime + Window(key[1]))
         /\ Swept[key].resetAt > now <=> windows[key].resetAt > now
         /\ windows[key].resetAt > now => Swept[key] = windows[key]
<1>1. /\ windows[key].count \in 0..(Limit(key[1]) + 1)
      /\ windows[key].resetAt \in 0..(MaxTime + Window(key[1]))
      /\ now \in 0..MaxTime
  BY DEF LimiterTypeOK
<1>2. Window(key[1]) \in 1..3 /\ Limit(key[1]) \in Nat \ {0}
  BY KeyBounds
<1>3. Swept[key] = windows[key] \/ (Swept[key] = NoWindow /\ windows[key].resetAt <= now)
  BY DEF Swept
<1>4. NoWindow.count = 0 /\ NoWindow.resetAt = 0
  BY DEF NoWindow
<1>5. 0 \in 0..(Limit(key[1]) + 1) /\ 0 \in 0..(MaxTime + Window(key[1]))
  BY <1>2, LimiterBounds
<1>6. ~(0 > now)
  BY <1>1
<1>7. windows[key].resetAt <= now => ~(windows[key].resetAt > now)
  BY <1>1, <1>2, LimiterBounds
<1>8. Swept \in [Keys -> [count : Nat, resetAt : Nat]]
  <2>1. NoWindow \in [count : Nat, resetAt : Nat] /\ windows \in [Keys -> [count : Nat, resetAt : Nat]]
    BY DEF NoWindow, LimiterTypeOK
  <2> QED BY <2>1 DEF Swept
<1>9. CASE Swept[key] = windows[key]
  BY <1>1, <1>8, <1>9
<1>10. CASE Swept[key] = NoWindow /\ windows[key].resetAt <= now
  BY <1>4, <1>5, <1>6, <1>7, <1>8, <1>10
<1> QED BY <1>3, <1>9, <1>10

(* What a request does to its own window, and to no other that is open.    *)
LEMMA Consumed ==
  ASSUME LimiterTypeOK, NEW key \in Keys, Consume(key),
         windows[key].count <= Limit(key[1]) \/ windows[key].resetAt <= now
  PROVE  /\ windows' \in [Keys -> [count : Nat, resetAt : Nat]]
         /\ windows[key].resetAt > now => /\ windows'[key].count = windows[key].count + 1
                                         /\ windows'[key].resetAt = windows[key].resetAt
         /\ ~(windows[key].resetAt > now) => /\ windows'[key].count = 1
                                            /\ windows'[key].resetAt = now + Window(key[1])
         /\ \A other \in Keys \ {key} : windows'[other] = Swept[other]
         /\ LimiterTypeOK'
<1> DEFINE open == windows[key].resetAt > now
           window == IF open THEN [windows[key] EXCEPT !.count = @ + 1]
                     ELSE [count |-> 1, resetAt |-> now + Window(key[1])]
<1>1. /\ Swept \in [Keys -> [count : Nat, resetAt : Nat]]
      /\ Swept[key].resetAt > now <=> windows[key].resetAt > now
      /\ windows[key].resetAt > now => Swept[key] = windows[key]
  BY SweptTyped
<1>2. windows' = [Swept EXCEPT ![key] = window]
  BY <1>1 DEF Consume
<1>3. /\ windows[key] \in [count : Nat, resetAt : Nat]
      /\ windows[key].count \in 0..(Limit(key[1]) + 1)
      /\ windows[key].resetAt \in 0..(MaxTime + Window(key[1]))
      /\ now \in 0..MaxTime /\ lastSweep \in 0..MaxTime
      /\ followed \in Keys /\ granted \in [0..MaxTime -> Nat] /\ refused \in BOOLEAN
  BY DEF LimiterTypeOK
<1>4. Window(key[1]) \in 1..3 /\ Limit(key[1]) \in Nat \ {0} /\ MaxTime \in Nat
  BY KeyBounds, LimiterBounds
<1>5. now + Window(key[1]) \in Nat
  BY <1>3, <1>4
<1>6. window \in [count : Nat, resetAt : Nat]
  BY <1>3, <1>5
<1>7. /\ windows[key].resetAt > now => /\ window.count = windows[key].count + 1
                                      /\ window.resetAt = windows[key].resetAt
      /\ ~(windows[key].resetAt > now) => /\ window.count = 1
                                         /\ window.resetAt = now + Window(key[1])
  BY <1>3
<1> HIDE DEF window
<1>8. /\ windows' \in [Keys -> [count : Nat, resetAt : Nat]] /\ windows'[key] = window
      /\ \A other \in Keys \ {key} : windows'[other] = Swept[other]
  BY <1>1, <1>2, <1>6
<1>9. /\ window.count \in 0..(Limit(key[1]) + 1)
      /\ window.resetAt \in 0..(MaxTime + Window(key[1]))
  <2>1. CASE open
    <3>1. windows[key].count <= Limit(key[1])
      BY <1>3, <1>4, <2>1
    <3>2. window.count = windows[key].count + 1 /\ window.resetAt = windows[key].resetAt
      BY <1>7, <2>1
    <3> QED BY <1>3, <1>4, <3>1, <3>2
  <2>2. CASE ~open
    <3>1. window.count = 1 /\ window.resetAt = now + Window(key[1])
      BY <1>7, <2>2
    <3> QED BY <1>3, <1>4, <3>1
  <2> QED BY <2>1, <2>2
<1>10. ASSUME NEW other \in Keys
       PROVE  /\ windows'[other].count \in 0..(Limit(other[1]) + 1)
              /\ windows'[other].resetAt \in 0..(MaxTime + Window(other[1]))
  BY <1>8, <1>9, SweptTyped
<1>11. /\ now' \in 0..MaxTime /\ lastSweep' \in 0..MaxTime /\ followed' \in Keys
  BY <1>3 DEF Consume
<1>12. granted' \in [0..MaxTime -> Nat]
  BY <1>3 DEF Consume
<1>13. refused' \in BOOLEAN
  BY DEF Consume
<1>14. LimiterTypeOK'
  BY <1>8, <1>10, <1>11, <1>12, <1>13 DEF LimiterTypeOK
<1> QED BY <1>7, <1>8, <1>14

(* What a request adds to the history.                                     *)
LEMMA Remembered ==
  ASSUME LimiterTypeOK, NEW key \in Keys, Consume(key)
  PROVE  /\ UNCHANGED <<now, followed>>
         /\ key # followed => Before' = Before /\ refused' = refused
         /\ key = followed /\ (windows[key].resetAt > now => windows[key].count + 1 <= Limit(key[1])) =>
              /\ Before' = [t \in Nat |-> Before[t] + IF t > now THEN 1 ELSE 0]
              /\ refused' = refused
         /\ key = followed /\ windows[key].resetAt > now /\ ~(windows[key].count + 1 <= Limit(key[1])) =>
              Before' = Before /\ refused'
<1> DEFINE allowed == windows[key].resetAt > now => windows[key].count + 1 <= Limit(key[1])
<1>1. /\ granted' = IF allowed /\ key = followed
                    THEN [t \in 0..MaxTime |-> granted[t] + IF t < now THEN 0 ELSE 1] ELSE granted
      /\ refused' = (refused \/ (key = followed /\ ~allowed))
      /\ UNCHANGED <<now, followed>>
  <2>1. /\ Swept[key].resetAt > now <=> windows[key].resetAt > now
        /\ windows[key].resetAt > now => Swept[key] = windows[key]
        /\ windows[key] \in [count : Nat, resetAt : Nat]
    BY SweptTyped DEF LimiterTypeOK
  <2>2. windows[key].resetAt > now => [Swept[key] EXCEPT !.count = @ + 1].count = windows[key].count + 1
    BY <2>1
  <2> QED BY <2>1, <2>2 DEF Consume
<1>2. refused \in BOOLEAN /\ allowed \in BOOLEAN
  BY DEF LimiterTypeOK
<1> HIDE DEF allowed
<1>3. /\ allowed \/ key # followed => refused' = refused
      /\ ~allowed /\ key = followed => refused'
  BY <1>1, <1>2
<1>4. now \in 0..MaxTime /\ granted \in [0..MaxTime -> Nat] /\ MaxTime \in Nat
  BY LimiterBounds DEF LimiterTypeOK
<1>5. CASE allowed /\ key = followed
  <2>1. ASSUME NEW t \in Nat
        PROVE  AllowedBefore(t)' = AllowedBefore(t) + IF t > now THEN 1 ELSE 0
    <3>1. granted' = [u \in 0..MaxTime |-> granted[u] + IF u < now THEN 0 ELSE 1]
      BY <1>1, <1>5
    <3>2. CASE t = 0
      BY <1>4, <3>2 DEF AllowedBefore
    <3>3. CASE t # 0
      <4> DEFINE u == IF t > MaxTime THEN MaxTime ELSE t - 1
      <4>1. u \in 0..MaxTime /\ (u < now <=> ~(t > now))
        BY <1>4, <3>3
      <4>2. AllowedBefore(t) = granted[u] /\ AllowedBefore(t)' = granted'[u]
        BY <3>3 DEF AllowedBefore
      <4> HIDE DEF u
      <4> QED BY <3>1, <4>1, <4>2
    <3> QED BY <3>2, <3>3
  <2>2. Before' = [t \in Nat |-> Before[t] + IF t > now THEN 1 ELSE 0]
    BY <2>1 DEF Before
  <2> QED BY <1>1, <1>5, <1>3, <2>2 DEF allowed
<1>6. CASE ~(allowed /\ key = followed)
  <2>1. Before' = Before
    BY <1>1, <1>6 DEF Before, AllowedBefore
  <2> QED BY <1>1, <1>6, <1>3, <2>1 DEF allowed
<1> QED BY <1>5, <1>6

LEMMA ConsumeKeeps ==
  ASSUME LimiterInv, NEW key \in Keys, Consume(key),
         windows[key].count <= Limit(key[1]) \/ windows[key].resetAt <= now
  PROVE  LimiterInv'
<1> DEFINE more == [t \in Nat |-> Before[t] + IF t > now THEN 1 ELSE 0]
<1>1. /\ Before \in [Nat -> Nat] /\ now \in Nat
      /\ Length \in 1..3 /\ Budget \in Nat \ {0}
      /\ Counted.count \in Nat /\ Counted.resetAt \in Nat
  BY LimiterNumbers DEF LimiterInv
<1>2. LimiterTypeOK' /\ followed \in Keys
  BY Consumed DEF LimiterInv, LimiterTypeOK
<1>3. now' = now /\ followed' = followed
  BY Remembered DEF LimiterInv
<1>4. Length' = Length /\ Budget' = Budget
  BY <1>3 DEF Length, Budget
<1>5. /\ \A t, u \in Nat : t <= u => Before[t] <= Before[u]
      /\ \A t \in Nat : t > now => Before[t] = Before[now + 1]
  BY DEF LimiterInv, HistoryGrows
<1>6. ASSUME key # followed PROVE LimiterInv'
  <2>1. Before' = Before /\ refused' = refused
    BY <1>6, Remembered DEF LimiterInv
  <2>2. Counted' = Swept[followed]
    BY <1>2, <1>3, <1>6, Consumed DEF LimiterInv, Counted
  <2>3. (Open' <=> Open) /\ (Open => Counted' = Counted)
    BY <1>2, <1>3, <2>2, SweptTyped DEF LimiterInv, Open, Counted
  <2>4. HistoryGrows' /\ TwoBudgets' /\ WhileClosed'
    BY <1>3, <1>4, <2>1, <2>3 DEF LimiterInv, HistoryGrows, TwoBudgets, WhileClosed
  <2>5. WhileOpen'
    BY <1>3, <1>4, <2>1, <2>3 DEF LimiterInv, WhileOpen, Opened
  <2> QED BY <1>2, <1>4, <2>1, <2>3, <2>4, <2>5 DEF LimiterInv
<1>7. ASSUME key = followed, Open, Counted.count + 1 > Budget PROVE LimiterInv'
  <2>1. Before' = Before /\ refused'
    <3>1. windows[key].resetAt > now /\ ~(windows[key].count + 1 <= Limit(key[1]))
      <4>1. ~(Counted.count + 1 <= Budget)
        BY <1>1, <1>7
      <4> QED BY <1>7, <4>1 DEF Open, Counted, Budget
    <3> QED BY <1>7, <3>1, Remembered DEF LimiterInv
  <2>2. Counted'.count = Counted.count + 1 /\ Counted'.resetAt = Counted.resetAt
    BY <1>3, <1>7, Consumed DEF LimiterInv, Open, Counted
  <2>3. Open' /\ Counted'.count > Budget' /\ Opened' = Opened
    BY <1>3, <1>4, <1>7, <2>2 DEF Open, Opened
  <2>4. HistoryGrows' /\ TwoBudgets' /\ WhileClosed'
    BY <1>3, <1>4, <2>1, <2>3 DEF LimiterInv, HistoryGrows, TwoBudgets, WhileClosed
  <2>5. (IF Counted'.count > Budget THEN Budget ELSE Counted'.count)
        = IF Counted.count > Budget THEN Budget ELSE Counted.count
    BY <1>1, <1>7, <2>2
  <2>6. WhileOpen'
    BY <1>3, <1>4, <1>7, <2>1, <2>3, <2>5 DEF LimiterInv, WhileOpen
  <2> QED BY <1>2, <2>3, <2>4, <2>6 DEF LimiterInv
<1>8. ASSUME key = followed, ~Open \/ Counted.count + 1 <= Budget PROVE LimiterInv'
  <2>1. Before' = more /\ refused' = refused
    <3>1. windows[key].resetAt > now => windows[key].count + 1 <= Limit(key[1])
      BY <1>8 DEF Open, Counted, Budget
    <3> QED BY <1>8, <3>1, Remembered DEF LimiterInv
  <2>2. /\ \A t \in Nat : Before'[t] = Before[t] + IF t > now THEN 1 ELSE 0
    BY <2>1
  <2> HIDE DEF more
  <2>3. HistoryGrows'
    BY <1>1, <1>3, <1>5, <2>2 DEF HistoryGrows
  <2>4. ASSUME Open PROVE LimiterInv'
    <3>1. /\ Opened \in Nat /\ Opened <= now
          /\ Before[now + 1] - Before[Opened] = Counted.count
          /\ \A t \in 0..Opened : Opened < t + Length => Before[Opened] - Before[t] <= Budget
      BY <1>1, <1>8, <2>4 DEF LimiterInv, WhileOpen
    <3>2. Counted'.count = Counted.count + 1 /\ Counted'.resetAt = Counted.resetAt
      BY <1>3, <1>8, <2>4, Consumed DEF LimiterInv, Open, Counted
    <3>3. Open' /\ Opened' = Opened /\ Counted'.count <= Budget
      BY <1>3, <1>4, <1>8, <2>4, <3>2 DEF Open, Opened
    <3>4. Before'[now + 1] - Before'[Opened] = Counted'.count
      BY <1>1, <2>2, <3>1, <3>2
    <3>5. \A t \in 0..Opened : Before'[t] = Before[t]
      BY <1>1, <2>2, <3>1
    <3>6. Before'[Opened] = Before[Opened]
      BY <3>1, <3>5
    <3>7. (IF Counted'.count > Budget THEN Budget ELSE Counted'.count) = Counted'.count
      BY <1>1, <3>2, <3>3
    <3>8. WhileOpen' /\ WhileClosed'
      BY <1>3, <1>4, <3>1, <3>3, <3>4, <3>5, <3>6, <3>7 DEF WhileOpen, WhileClosed
    <3>9. ASSUME NEW from \in 0..now PROVE Before'[from + Length] - Before'[from] <= 2 * Budget
      <4>1. /\ from \in Nat /\ from + Length \in Nat /\ now + 1 \in Nat
            /\ Before'[from] = Before[from] /\ Before[from] \in Nat /\ Before[from + Length] \in Nat
        BY <1>1, <2>2
      <4>2. CASE from + Length <= now
        <5>1. Before'[from + Length] = Before[from + Length]
          BY <1>1, <2>2, <4>1, <4>2
        <5> QED BY <4>1, <5>1 DEF LimiterInv, TwoBudgets
      <4>3. CASE from + Length > now
        <5>1. Before'[from + Length] = Before'[now + 1] /\ Before'[now + 1] \in Nat
          BY <1>1, <1>5, <2>2, <4>1, <4>3
        <5>2. Before'[now + 1] - Before[Opened] <= Budget /\ Before[Opened] \in Nat
          BY <1>1, <3>1, <3>3, <3>4, <3>6
        <5>3. Before[Opened] - Before[from] <= Budget
          <6>1. CASE from <= Opened
            BY <1>1, <3>1, <4>1, <4>3, <6>1
          <6>2. CASE Opened <= from
            <7>1. Before[Opened] <= Before[from]
              BY <1>5, <3>1, <4>1, <6>2
            <7> QED BY <1>1, <4>1, <5>2, <7>1
          <6> QED BY <3>1, <4>1, <6>1, <6>2
        <5> QED BY <1>1, <4>1, <5>1, <5>2, <5>3
      <4> QED BY <1>1, <4>1, <4>2, <4>3
    <3>10. TwoBudgets'
      BY <1>3, <1>4, <3>9 DEF TwoBudgets
    <3>11. ~refused'
      BY <1>1, <1>8, <2>1, <2>4 DEF LimiterInv
    <3> QED BY <1>2, <2>3, <3>8, <3>10, <3>11 DEF LimiterInv
  <2>5. ASSUME ~Open PROVE LimiterInv'
    <3>1. /\ Before[now + 1] = Before[now]
          /\ \A t \in 0..now : now < t + Length => Before[now] - Before[t] <= Budget
      BY <2>5 DEF LimiterInv, WhileClosed
    <3>2. Counted'.count = 1 /\ Counted'.resetAt = now + Length
      BY <1>3, <1>8, <2>5, Consumed DEF LimiterInv, Open, Counted, Length
    <3>3. Open' /\ Opened' = now /\ ~(Counted'.count > Budget)
      BY <1>1, <1>3, <1>4, <3>2 DEF Open, Opened
    <3>4. \A t \in 0..now : Before'[t] = Before[t]
      BY <1>1, <2>2
    <3>5. Before'[now] = Before[now] /\ Before'[now + 1] - Before'[now] = 1
      BY <1>1, <2>2, <3>1
    <3>6. WhileOpen' /\ WhileClosed'
      BY <1>1, <1>3, <1>4, <3>1, <3>2, <3>3, <3>4, <3>5 DEF WhileOpen, WhileClosed
    <3>7. ASSUME NEW from \in 0..now PROVE Before'[from + Length] - Before'[from] <= 2 * Budget
      <4>1. /\ from \in Nat /\ from + Length \in Nat /\ now + 1 \in Nat
            /\ Before'[from] = Before[from] /\ Before[from] \in Nat /\ Before[from + Length] \in Nat
        BY <1>1, <2>2
      <4>2. CASE from + Length <= now
        <5>1. Before'[from + Length] = Before[from + Length]
          BY <1>1, <2>2, <4>1, <4>2
        <5> QED BY <4>1, <5>1 DEF LimiterInv, TwoBudgets
      <4>3. CASE from + Length > now
        <5>1. Before'[from + Length] = Before[now] + 1 /\ Before[now] \in Nat
          BY <1>1, <1>5, <2>2, <3>1, <4>1, <4>3
        <5>2. Before[now] - Before[from] <= Budget
          BY <1>1, <3>1, <4>1, <4>3
        <5> QED BY <1>1, <4>1, <5>1, <5>2
      <4> QED BY <1>1, <4>1, <4>2, <4>3
    <3>8. TwoBudgets'
      BY <1>3, <1>4, <3>7 DEF TwoBudgets
    <3>9. ~refused'
      BY <2>1, <2>5 DEF LimiterInv
    <3> QED BY <1>2, <2>3, <3>6, <3>8, <3>9 DEF LimiterInv
  <2> QED BY <2>4, <2>5
<1> QED BY <1>1, <1>6, <1>7, <1>8

LEMMA LimiterStep == LimiterInv /\ [LimiterNext]_limiterVars => LimiterInv'
<1> SUFFICES ASSUME LimiterInv, [LimiterNext]_limiterVars PROVE LimiterInv'
  OBVIOUS
<1>1. CASE Pass
  BY <1>1, PassKeeps
<1>2. ASSUME NEW route \in Routes, NEW client \in Clients, Request(route, client)
      PROVE  LimiterInv'
  <2> DEFINE key == <<ScopeOf(route), client>>
  <2>1. key \in Keys /\ key[1] = ScopeOf(route)
    BY DEF Keys, Scopes
  <2>2. /\ Consume(key)
        /\ windows[key].count <= Limit(key[1]) \/ windows[key].resetAt <= now
    BY <1>2 DEF Request
  <2> HIDE DEF key
  <2> QED BY <2>1, <2>2, ConsumeKeeps
<1>3. CASE UNCHANGED limiterVars
  <2>1. /\ UNCHANGED <<now, windows, lastSweep, followed, granted, refused>>
    BY <1>3 DEF limiterVars
  <2>2. Before' = Before /\ Length' = Length /\ Budget' = Budget /\ Counted' = Counted
    BY <2>1 DEF Before, AllowedBefore, Length, Budget, Counted
  <2>3. LimiterTypeOK'
    BY <2>1 DEF LimiterInv, LimiterTypeOK
  <2> QED BY <2>1, <2>2, <2>3
       DEF LimiterInv, HistoryGrows, WhileOpen, WhileClosed, TwoBudgets, Open, Opened
<1> QED BY <1>1, <1>2, <1>3 DEF LimiterNext

(* No client gets more than twice a budget within the length of its        *)
(* window, wherever that falls, whichever routes of a scope it takes; and  *)
(* one that is refused has had its whole budget within that length: for    *)
(* any limits, any number of clients and any interval between two sweeps.  *)
THEOREM BudgetsHold == LimiterSpec => []BudgetRespected
<1>1. ASSUME LimiterInv PROVE BudgetRespected
  <2>1. /\ Before \in [Nat -> Nat] /\ now \in Nat
        /\ Length \in 1..3 /\ Budget \in Nat \ {0}
        /\ Counted.count \in Nat /\ Counted.resetAt \in Nat
    BY <1>1, LimiterNumbers DEF LimiterInv
  <2>2. \A from, to \in Nat : AllowedBetween(from, to) = Before[to + 1] - Before[from]
    BY DEF Before, AllowedBetween
  <2>3. ASSUME NEW from \in 0..now PROVE AllowedBetween(from, from + Length - 1) <= 2 * Budget
    <3>1. from \in Nat /\ from + Length - 1 \in Nat /\ from + Length - 1 + 1 = from + Length
      BY <2>1
    <3>2. AllowedBetween(from, from + Length - 1) = Before[from + Length] - Before[from]
      BY <2>2, <3>1
    <3> QED BY <1>1, <2>3, <3>2 DEF LimiterInv, TwoBudgets
  <2>4. ASSUME refused PROVE \E from \in 0..now : now < from + Length /\ AllowedBetween(from, now) >= Budget
    <3>1. Open /\ Counted.count > Budget
      BY <1>1, <2>4 DEF LimiterInv
    <3>2. Opened \in 0..now /\ Before[now + 1] - Before[Opened] = Budget
      BY <1>1, <3>1 DEF LimiterInv, WhileOpen
    <3>3. AllowedBetween(Opened, now) = Budget
      BY <2>1, <2>2, <3>2
    <3>4. now < Opened + Length
      BY <2>1, <3>1 DEF Open, Opened
    <3> QED BY <2>1, <3>2, <3>3, <3>4
  <2> QED BY <2>3, <2>4 DEF BudgetRespected, Length, Budget
<1> QED BY <1>1, InitLimiter, LimiterStep, PTL DEF LimiterSpec

----------------------------------------------------------------------------
(* The incident history.                                                   *)

(* The order of the feed, of the incidents started as in st.               *)
Precedes(st, i, j) == st[i] > st[j] \/ (st[i] = st[j] /\ i > j)

(* What a cursor has not passed yet.                                       *)
Beyond(st, cursor, i) ==
  cursor = First \/ st[i] < cursor[1] \/ (st[i] = cursor[1] /\ i < cursor[2])

LEMMA FeedBounds == MaxIncidents \in Nat /\ MaxStart \in Nat \ {0} /\ PageSize \in Nat \ {0}
BY FeedAssumption DEF FeedAssumption

(* No two incidents share a place, and every place is taken.               *)
LEMMA Places ==
  ASSUME started \in Seq(1..MaxStart), NEW rows \in SUBSET DOMAIN started
  PROVE  /\ IsFiniteSet(rows) /\ Cardinality(rows) \in Nat
         /\ \A i \in rows : Place(i, rows) \in 1..Cardinality(rows)
         /\ \A i, j \in rows : Newer(i, j) => Place(i, rows) < Place(j, rows)
         /\ \A i, j \in rows : i # j => Newer(i, j) \/ Newer(j, i)
         /\ \A n \in 1..Cardinality(rows) : \E i \in rows : Place(i, rows) = n
<1>1. started \in [1..Len(started) -> 1..MaxStart] /\ Len(started) \in Nat /\ MaxStart \in Nat
      /\ DOMAIN started = 1..Len(started)
  BY FeedBounds
<1>2. /\ \A i \in rows : i \in Nat /\ started[i] \in Nat
  BY <1>1
<1>3. IsFiniteSet(rows) /\ Cardinality(rows) \in Nat
  <2>1. IsFiniteSet(1..Len(started))
    BY <1>1, FS_Interval
  <2>2. IsFiniteSet(rows)
    BY <1>1, <2>1, FS_Subset
  <2> QED BY <2>2, FS_CardinalityType
<1>4. \A i, j \in rows : i # j => Newer(i, j) \/ Newer(j, i)
  BY <1>2 DEF Newer
<1>5. \A i, j, k \in rows : Newer(i, j) /\ Newer(j, k) => Newer(i, k)
  BY <1>2 DEF Newer
<1>6. \A i \in rows : ~Newer(i, i)
  BY <1>2 DEF Newer
<1> DEFINE above(i) == {j \in rows : Newer(j, i)}
<1>7. ASSUME NEW i \in rows
      PROVE  /\ IsFiniteSet(above(i)) /\ Cardinality(above(i)) \in Nat
             /\ i \notin above(i) /\ Cardinality(above(i) \cup {i}) = Cardinality(above(i)) + 1
  <2>1. above(i) \in SUBSET rows /\ i \notin above(i)
    BY <1>6
  <2>2. IsFiniteSet(above(i))
    BY <1>3, <2>1, FS_Subset
  <2> HIDE DEF above
  <2> QED BY <2>1, <2>2, FS_CardinalityType, FS_AddElement
<1>8. ASSUME NEW i \in rows PROVE Place(i, rows) \in 1..Cardinality(rows)
  <2>1. above(i) \cup {i} \in SUBSET rows
    OBVIOUS
  <2>2. Cardinality(above(i) \cup {i}) <= Cardinality(rows)
    BY <1>3, <2>1, FS_Subset
  <2>3. Place(i, rows) = Cardinality(above(i)) + 1
    BY DEF Place
  <2> HIDE DEF above
  <2> QED BY <1>3, <1>7, <2>2, <2>3
<1>9. ASSUME NEW i \in rows, NEW j \in rows, Newer(i, j) PROVE Place(i, rows) < Place(j, rows)
  <2>1. above(i) \cup {i} \in SUBSET above(j)
    BY <1>5, <1>9
  <2>2. Cardinality(above(i) \cup {i}) <= Cardinality(above(j))
    <3>1. IsFiniteSet(above(j))
      BY <1>7
    <3> HIDE DEF above
    <3> QED BY <2>1, <3>1, FS_Subset
  <2>3. Place(i, rows) = Cardinality(above(i)) + 1 /\ Place(j, rows) = Cardinality(above(j)) + 1
    BY DEF Place
  <2>4. /\ Cardinality(above(i)) \in Nat /\ Cardinality(above(j)) \in Nat
        /\ Cardinality(above(i) \cup {i}) = Cardinality(above(i)) + 1
    BY <1>7
  <2> HIDE DEF above
  <2> QED BY <2>2, <2>3, <2>4
<1>10. ASSUME NEW n \in 1..Cardinality(rows) PROVE \E i \in rows : Place(i, rows) = n
  <2> DEFINE rank == [i \in rows |-> Place(i, rows)]
             places == 1..Cardinality(rows)
  <2>1. rank \in [rows -> places] /\ \A i \in rows : rank[i] = Place(i, rows)
    BY <1>8
  <2>2. \A i, j \in rows : rank[i] = rank[j] => i = j
    <3>1. ASSUME NEW i \in rows, NEW j \in rows, i # j PROVE rank[i] # rank[j]
      <4>1. Place(i, rows) < Place(j, rows) \/ Place(j, rows) < Place(i, rows)
        BY <1>4, <1>9, <3>1
      <4>2. Place(i, rows) \in Nat /\ Place(j, rows) \in Nat
        BY <1>3, <1>8
      <4> QED BY <2>1, <4>1, <4>2
    <3> QED BY <3>1
  <2>3. IsFiniteSet(places) /\ Cardinality(places) = Cardinality(rows)
    BY <1>3, FS_Interval
  <2> HIDE DEF rank, places
  <2>4. rank \in Injection(rows, places)
    BY <2>1, <2>2, Fun_IsInj
  <2>5. rank \in Surjection(rows, places)
    BY <2>3, <2>4, FS_Injection
  <2>6. \E i \in rows : rank[i] = n
    <3>1. n \in places
      BY DEF places
    <3> QED BY <2>5, <3>1, Fun_SurjectionProperties
  <2> QED BY <2>1, <2>6
<1> QED BY <1>3, <1>4, <1>8, <1>9, <1>10

(* A page holds the first rows behind its cursor, in order, and either all *)
(* of them, or its own cursor is at the last one and the rest behind it.   *)
LEMMA PageRead ==
  ASSUME started \in Seq(1..MaxStart), kept \subseteq DOMAIN started, NEW cursor,
         NEW rows, rows = {i \in kept : Beyond(started, cursor, i)}, NEW page, page = Page(cursor)
  PROVE  /\ page.rows \in Seq(rows)
         /\ \A m, n \in DOMAIN page.rows : m < n => Precedes(started, page.rows[m], page.rows[n])
         /\ \/ /\ page.next = End
               /\ \A i \in rows : \E n \in DOMAIN page.rows : page.rows[n] = i
            \/ /\ Len(page.rows) > 0
               /\ page.next = <<started[page.rows[Len(page.rows)]], page.rows[Len(page.rows)]>>
               /\ \A i \in rows : \/ \E n \in DOMAIN page.rows : page.rows[n] = i
                                  \/ Precedes(started, page.rows[Len(page.rows)], i)
<1> DEFINE found == {i \in kept : After(cursor, i)}
           all == Cardinality(found)
           count == IF all > PageSize THEN PageSize + 1 ELSE all
           fetched == Fetched(cursor)
           more == Len(fetched) > PageSize
           items == IF more THEN SubSeq(fetched, 1, PageSize) ELSE fetched
           len == IF all > PageSize THEN PageSize ELSE all
<1>1. rows = found /\ rows \in SUBSET DOMAIN started
  BY DEF After, Beyond
<1>2. /\ all \in Nat
      /\ \A i \in rows : Place(i, rows) \in 1..all
      /\ \A i, j \in rows : Newer(i, j) => Place(i, rows) < Place(j, rows)
      /\ \A i, j \in rows : i # j => Newer(i, j) \/ Newer(j, i)
      /\ \A n \in 1..all : \E i \in rows : Place(i, rows) = n
  BY <1>1, Places
<1>3. PageSize \in Nat /\ PageSize > 0
  BY FeedBounds
<1>4. fetched = [n \in 1..count |-> CHOOSE i \in found : Place(i, found) = n]
  BY DEF Fetched
<1>5. page.rows = items
      /\ page.next = IF more THEN <<started[Last(items)], Last(items)>> ELSE End
  BY DEF Page
<1> HIDE DEF all, fetched, found
<1>6. ASSUME NEW n \in 1..count PROVE fetched[n] \in rows /\ Place(fetched[n], rows) = n
  <2>1. n \in 1..all
    BY <1>2, <1>3
  <2>2. \E i \in rows : Place(i, rows) = n
    BY <1>2, <2>1
  <2>3. fetched[n] = CHOOSE i \in found : Place(i, found) = n
    BY <1>4
  <2> QED BY <1>1, <2>2, <2>3
<1>7. fetched \in Seq(rows) /\ Len(fetched) = count /\ count \in Nat
  <2>1. count \in Nat
    BY <1>2, <1>3
  <2>2. fetched \in [1..count -> rows]
    BY <1>4, <1>6
  <2> HIDE DEF count
  <2> QED BY <2>1, <2>2
<1>8. more <=> all > PageSize
  BY <1>2, <1>3, <1>7
<1>9. /\ items \in Seq(rows) /\ Len(items) = len /\ len \in Nat /\ DOMAIN items = 1..len
      /\ \A n \in 1..len : items[n] = fetched[n]
  <2>1. CASE all > PageSize
    BY <1>2, <1>3, <1>7, <1>8, <2>1
  <2>2. CASE ~(all > PageSize)
    BY <1>2, <1>3, <1>7, <1>8, <2>2
  <2> QED BY <2>1, <2>2
<1> HIDE DEF items, more
<1>10. ASSUME NEW n \in 1..len PROVE items[n] \in rows /\ Place(items[n], rows) = n
  <2>1. n \in 1..count
    BY <1>2, <1>3
  <2> QED BY <1>6, <1>9, <2>1
<1>11. ASSUME NEW i \in rows, NEW j \in rows, Place(i, rows) < Place(j, rows)
       PROVE  Precedes(started, i, j)
  <2>1. Place(i, rows) \in Nat /\ Place(j, rows) \in Nat
    BY <1>2
  <2>2. i # j /\ ~Newer(j, i)
    BY <1>2, <1>11, <2>1
  <2>3. Newer(i, j)
    BY <1>2, <2>2
  <2> QED BY <2>3 DEF Newer, Precedes
<1>12. ASSUME NEW m \in 1..len, NEW n \in 1..len, m < n PROVE Precedes(started, items[m], items[n])
  BY <1>10, <1>11, <1>12
<1>13. ASSUME NEW i \in rows, Place(i, rows) <= len PROVE \E n \in 1..len : items[n] = i
  <2> DEFINE n == Place(i, rows)
  <2>1. n \in 1..len /\ n \in Nat
    BY <1>2, <1>9, <1>13
  <2>2. items[n] \in rows /\ Place(items[n], rows) = Place(i, rows)
    BY <1>10, <2>1
  <2>3. items[n] = i
    <3>1. ASSUME items[n] # i PROVE FALSE
      <4>1. Place(items[n], rows) < Place(i, rows) \/ Place(i, rows) < Place(items[n], rows)
        BY <1>2, <2>2, <3>1
      <4> QED BY <2>1, <2>2, <4>1
    <3> QED BY <3>1
  <2> QED BY <2>1, <2>3
<1>14. CASE all > PageSize
  <2>1. len = PageSize /\ len \in 1..len /\ more
    BY <1>3, <1>8, <1>14
  <2>2. Last(items) = items[len]
    BY <1>9 DEF Last
  <2>3. ASSUME NEW i \in rows
        PROVE  (\E n \in 1..len : items[n] = i) \/ Precedes(started, items[len], i)
    <3>1. Place(i, rows) \in Nat
      BY <1>2
    <3>2. CASE Place(i, rows) <= len
      BY <1>13, <3>2
    <3>3. CASE Place(items[len], rows) < Place(i, rows)
      BY <1>10, <1>11, <2>1, <3>3
    <3> QED BY <1>9, <1>10, <2>1, <3>1, <3>2, <3>3
  <2> HIDE DEF len
  <2> QED BY <1>3, <1>5, <1>9, <1>12, <2>1, <2>2, <2>3
<1>15. CASE ~(all > PageSize)
  <2>1. len = all /\ ~more
    BY <1>8, <1>15
  <2>2. \A i \in rows : \E n \in 1..len : items[n] = i
    <3>1. ASSUME NEW i \in rows PROVE Place(i, rows) <= len
      BY <1>2, <2>1
    <3> QED BY <1>13, <3>1
  <2> HIDE DEF len
  <2> QED BY <1>5, <1>9, <1>12, <2>1, <2>2
<1> QED BY <1>14, <1>15

(* A list read as far as `next`: every incident of `from` that is still    *)
(* there is in it, or behind its cursor.                                   *)
ReadSoFar(st, there, rows, next, from) ==
  /\ rows \in Seq(DOMAIN st) /\ from \subseteq DOMAIN st
  /\ \A m, n \in DOMAIN rows : m < n => Precedes(st, rows[m], rows[n])
  /\ \/ next = First /\ Len(rows) = 0
     \/ next = End
     \/ Len(rows) > 0 /\ next = <<st[rows[Len(rows)]], rows[Len(rows)]>>
  /\ \A i \in from \cap there :
       (\E n \in DOMAIN rows : rows[n] = i) \/ (next # End /\ Beyond(st, next, i))

FeedInv ==
  /\ started \in Seq(1..MaxStart) /\ kept \subseteq DOMAIN started
  /\ listed \in [rows : Seq(Nat), pages : Nat, next : Nat \X Nat, failed : BOOLEAN]
  /\ reread \in [rows : Seq(Nat), pages : Nat, next : Nat \X Nat, base : SUBSET Nat, upTo : Nat]
  /\ listed.pages = 0 => listed.next = First
  /\ reread.pages = 0 => reread.next = First
  /\ reread.next # End
  /\ ReadSoFar(started, kept, listed.rows, listed.next, base)
  /\ ReadSoFar(started, kept, reread.rows, reread.next, reread.base)

(* One page more.  The list still to be read behind the first cursor may   *)
(* be of other incidents by the time it is: whoever reads it then decides. *)
LEMMA PageContinues ==
  ASSUME started \in Seq(1..MaxStart), kept \subseteq DOMAIN started,
         NEW rows, NEW next, NEW from, ReadSoFar(started, kept, rows, next, from), next # End,
         NEW base2, base2 = from \/ (base2 = kept /\ next = First)
  PROVE  /\ ReadSoFar(started, kept, rows \o Page(next).rows, Page(next).next, base2)
         /\ rows \o Page(next).rows \in Seq(Nat) /\ Page(next).next \in Nat \X Nat
         /\ Page(next).next # First
<1> DEFINE rest == {i \in kept : Beyond(started, next, i)}
           page == Page(next)
           both == rows \o page.rows
<1>1. /\ page.rows \in Seq(rest)
      /\ \A m, n \in DOMAIN page.rows : m < n => Precedes(started, page.rows[m], page.rows[n])
      /\ \/ /\ page.next = End
            /\ \A i \in rest : \E n \in DOMAIN page.rows : page.rows[n] = i
         \/ /\ Len(page.rows) > 0
            /\ page.next = <<started[page.rows[Len(page.rows)]], page.rows[Len(page.rows)]>>
            /\ \A i \in rest : \/ \E n \in DOMAIN page.rows : page.rows[n] = i
                               \/ Precedes(started, page.rows[Len(page.rows)], i)
  BY PageRead
<1>2. /\ rows \in Seq(DOMAIN started) /\ from \subseteq DOMAIN started
      /\ \A m, n \in DOMAIN rows : m < n => Precedes(started, rows[m], rows[n])
      /\ \/ next = First /\ Len(rows) = 0
         \/ Len(rows) > 0 /\ next = <<started[rows[Len(rows)]], rows[Len(rows)]>>
      /\ \A i \in from \cap kept : (\E n \in DOMAIN rows : rows[n] = i) \/ i \in rest
  BY DEF ReadSoFar
<1>3. /\ DOMAIN started \subseteq Nat \ {0} /\ \A i \in DOMAIN started : started[i] \in Nat \ {0}
      /\ DOMAIN started = 1..Len(started)
  BY FeedBounds
<1>4. rest \subseteq DOMAIN started
  OBVIOUS
<1>5. page.rows \in Seq(DOMAIN started)
  BY <1>1, <1>4
<1>6. \A i \in rest : next = First \/ started[i] < next[1] \/ (started[i] = next[1] /\ i < next[2])
  BY DEF Beyond
<1>7. \A i \in base2 \cap kept : (\E n \in DOMAIN rows : rows[n] = i) \/ i \in rest
  BY <1>2 DEF Beyond
<1> HIDE DEF rest, page
<1>8. /\ both \in Seq(DOMAIN started) /\ Len(both) = Len(rows) + Len(page.rows)
      /\ Len(rows) \in Nat /\ Len(page.rows) \in Nat
      /\ DOMAIN rows = 1..Len(rows) /\ DOMAIN page.rows = 1..Len(page.rows)
      /\ DOMAIN both = 1..Len(both)
      /\ \A n \in 1..Len(rows) : both[n] = rows[n]
      /\ \A n \in Len(rows) + 1..Len(both) : both[n] = page.rows[n - Len(rows)]
      /\ \A n \in 1..Len(page.rows) : Len(rows) + n \in 1..Len(both) /\ both[Len(rows) + n] = page.rows[n]
  BY <1>2, <1>5
<1> HIDE DEF both
<1>9. \A i, j, k \in DOMAIN started :
        Precedes(started, i, j) /\ Precedes(started, j, k) => Precedes(started, i, k)
  BY <1>3 DEF Precedes
<1>10. ASSUME NEW m \in 1..Len(rows), NEW i \in rest PROVE Precedes(started, rows[m], i)
  <2>1. Len(rows) > 0 /\ next = <<started[rows[Len(rows)]], rows[Len(rows)]>>
    BY <1>2, <1>8
  <2> DEFINE last == rows[Len(rows)]
  <2>2. last \in DOMAIN started /\ rows[m] \in DOMAIN started /\ i \in DOMAIN started
    BY <1>2, <1>4, <1>8, <2>1
  <2>3. next # First
    BY <1>3, <2>1, <2>2 DEF First
  <2>4. next[1] = started[last] /\ next[2] = last
    BY <2>1
  <2>5. Precedes(started, last, i)
    BY <1>3, <1>6, <2>2, <2>3, <2>4 DEF Precedes
  <2>6. m = Len(rows) \/ Precedes(started, rows[m], last)
    <3>1. /\ m \in Nat /\ m <= Len(rows) /\ Len(rows) \in Nat
          /\ Len(rows) \in DOMAIN rows /\ m \in DOMAIN rows
      BY <1>8, <2>1
    <3>2. m = Len(rows) \/ m < Len(rows)
      BY <3>1
    <3> QED BY <1>2, <3>1, <3>2
  <2> QED BY <1>9, <2>2, <2>5, <2>6
<1>11. ASSUME NEW m \in DOMAIN both, NEW n \in DOMAIN both, m < n
       PROVE  Precedes(started, both[m], both[n])
  <2>1. m \in Nat /\ n \in Nat /\ m \in 1..Len(both) /\ n \in 1..Len(both)
    BY <1>8
  <2> DEFINE a == Len(rows)
             b == Len(page.rows)
  <2>2. a \in Nat /\ b \in Nat /\ m \in 1..a + b /\ n \in 1..a + b /\ Len(both) = a + b
    BY <1>8, <2>1
  <2>3. CASE n <= Len(rows)
    <3>1. m \in 1..Len(rows) /\ n \in 1..Len(rows)
      BY <1>8, <1>11, <2>1, <2>3
    <3> QED BY <1>2, <1>8, <1>11, <3>1
  <2>4. CASE m <= Len(rows) /\ n > Len(rows)
    <3>1. m \in 1..a /\ n \in a + 1..Len(both) /\ n - a \in 1..b
      <4> HIDE DEF a, b
      <4> QED BY <2>4, <2>2 DEF a
    <3>2. both[m] = rows[m] /\ both[n] = page.rows[n - a]
      BY <1>8, <3>1
    <3>3. page.rows[n - a] \in rest
      BY <1>1, <1>8, <3>1
    <3> QED BY <1>10, <3>1, <3>2, <3>3
  <2>5. CASE m > Len(rows)
    <3>1. /\ m - a \in 1..b /\ n - a \in 1..b /\ m - a < n - a
          /\ m \in a + 1..Len(both) /\ n \in a + 1..Len(both)
      <4> HIDE DEF a, b
      <4> QED BY <1>11, <2>5, <2>2 DEF a
    <3>2. both[m] = page.rows[m - a] /\ both[n] = page.rows[n - a]
      BY <1>8, <3>1
    <3> QED BY <1>1, <1>8, <3>1, <3>2
  <2> QED BY <1>8, <2>1, <2>3, <2>4, <2>5
<1>12. \/ page.next = End
       \/ Len(both) > 0 /\ page.next = <<started[both[Len(both)]], both[Len(both)]>>
  <2>1. ASSUME Len(page.rows) > 0 PROVE Len(both) > 0 /\ both[Len(both)] = page.rows[Len(page.rows)]
    <3>1. Len(page.rows) \in 1..Len(page.rows)
      BY <1>8, <2>1
    <3>2. both[Len(rows) + Len(page.rows)] = page.rows[Len(page.rows)]
      BY <1>8, <3>1, Zenon
    <3>3. Len(both) = Len(rows) + Len(page.rows)
      BY <1>8, Zenon
    <3>4. Len(both) > 0
      BY ONLY <1>8, <2>1, <3>3
    <3> QED BY ONLY <3>2, <3>3, <3>4, Zenon
  <2> QED BY <1>1, <2>1
<1>13. page.next \in Nat \X Nat /\ page.next # First
  <2>1. CASE page.next = End
    BY <2>1 DEF End, First
  <2>2. CASE Len(both) > 0 /\ page.next = <<started[both[Len(both)]], both[Len(both)]>>
    <3>1. both[Len(both)] \in DOMAIN started
      BY <1>8, <2>2
    <3> QED BY <1>3, <2>2, <3>1 DEF First
  <2> QED BY <1>12, <2>1, <2>2
<1>14. ASSUME NEW i \in base2 \cap kept
       PROVE  (\E n \in DOMAIN both : both[n] = i) \/ (page.next # End /\ Beyond(started, page.next, i))
  <2>1. CASE \E n \in DOMAIN rows : rows[n] = i
    BY <1>8, <2>1
  <2>2. CASE \E n \in DOMAIN page.rows : page.rows[n] = i
    BY <1>8, <2>2
  <2>3. CASE /\ Len(page.rows) > 0 /\ i \in rest
             /\ page.next = <<started[page.rows[Len(page.rows)]], page.rows[Len(page.rows)]>>
             /\ Precedes(started, page.rows[Len(page.rows)], i)
    <3> DEFINE last == page.rows[Len(page.rows)]
    <3>1. last \in DOMAIN started
      BY <1>5, <1>8, <2>3
    <3>2. page.next # End
      BY <1>3, <2>3, <3>1 DEF End
    <3>3. page.next[1] = started[last] /\ page.next[2] = last
      BY <2>3
    <3>4. i \in DOMAIN started
      BY <1>4, <2>3
    <3>5. Beyond(started, page.next, i)
      BY <1>3, <2>3, <3>1, <3>3, <3>4 DEF Beyond, Precedes
    <3> QED BY <3>2, <3>5
  <2> QED BY <1>1, <1>7, <2>1, <2>2, <2>3
<1>15. both \in Seq(Nat)
  BY <1>3, <1>8
<1>16. ReadSoFar(started, kept, both, page.next, base2)
  BY <1>2, <1>8, <1>11, <1>12, <1>14 DEF ReadSoFar
<1> QED BY <1>13, <1>15, <1>16 DEF both, page

LEMMA InitFeed == FeedInit => FeedInv
<1> SUFFICES ASSUME FeedInit PROVE FeedInv
  OBVIOUS
<1>1. started \in Seq(1..MaxStart) /\ kept = DOMAIN started
  <2>1. PICK n \in 0..MaxIncidents : started \in [1..n -> 1..MaxStart]
    BY DEF FeedInit
  <2>2. n \in Nat
    BY <2>1, FeedBounds
  <2>3. started \in Seq(1..MaxStart)
    <3>1. ASSUME NEW S, NEW f \in [1..n -> S] PROVE f \in Seq(S)
      BY <2>2
    <3> QED BY <2>1, <3>1
  <2> QED BY <2>3 DEF FeedInit
<1>2. First \in Nat \X Nat /\ <<>> \in Seq(Nat) /\ <<>> \in Seq(DOMAIN started) /\ Len(<<>>) = 0
  BY DEF First
<1>3. ReadSoFar(started, kept, <<>>, First, {})
  BY <1>2 DEF ReadSoFar
<1>4. /\ listed \in [rows : Seq(Nat), pages : Nat, next : Nat \X Nat, failed : BOOLEAN]
      /\ listed.rows = <<>> /\ listed.next = First
  BY <1>2 DEF FeedInit
<1>5. /\ reread \in [rows : Seq(Nat), pages : Nat, next : Nat \X Nat, base : SUBSET Nat, upTo : Nat]
      /\ reread.rows = <<>> /\ reread.next = First /\ reread.base = {}
  BY <1>2 DEF FeedInit, Nothing
<1>6. base = {} /\ First # End
  BY DEF FeedInit, First, End
<1> QED BY <1>1, <1>3, <1>4, <1>5, <1>6 DEF FeedInv

(* A list of which nothing has been read.                                  *)
LEMMA NothingRead ==
  ASSUME NEW st, NEW there, NEW from \in SUBSET DOMAIN st
  PROVE  /\ ReadSoFar(st, there, <<>>, First, from)
         /\ <<>> \in Seq(Nat) /\ First \in Nat \X Nat /\ First # End
         /\ Nothing \in [rows : Seq(Nat), pages : Nat, next : Nat \X Nat, base : SUBSET Nat, upTo : Nat]
         /\ Nothing.rows = <<>> /\ Nothing.next = First /\ Nothing.base = {}
<1>1. First \in Nat \X Nat /\ First # End
  BY DEF First, End
<1>2. <<>> \in Seq(Nat) /\ <<>> \in Seq(DOMAIN st) /\ Len(<<>>) = 0
  OBVIOUS
<1>3. ReadSoFar(st, there, <<>>, First, from)
  BY <1>1, <1>2 DEF ReadSoFar, Beyond
<1> QED BY <1>1, <1>2, <1>3 DEF Nothing

LEMMA RereadNothing ==
  ASSUME FeedInv, reread' = Nothing
  PROVE  /\ reread' \in [rows : Seq(Nat), pages : Nat, next : Nat \X Nat, base : SUBSET Nat, upTo : Nat]
         /\ reread'.next = First /\ First # End
         /\ ReadSoFar(started, kept, reread'.rows, reread'.next, reread'.base)
<1>1. {} \in SUBSET DOMAIN started
  OBVIOUS
<1>2. /\ ReadSoFar(started, kept, <<>>, First, {}) /\ First # End
      /\ Nothing \in [rows : Seq(Nat), pages : Nat, next : Nat \X Nat, base : SUBSET Nat, upTo : Nat]
      /\ Nothing.rows = <<>> /\ Nothing.next = First /\ Nothing.base = {}
  BY <1>1, NothingRead
<1> QED BY <1>2

LEMMA LoadMoreKeeps == ASSUME FeedInv, LoadMore PROVE FeedInv'
<1> DEFINE page == Page(listed.next)
           both == listed.rows \o page.rows
<1>1. /\ listed.next # End /\ UNCHANGED <<started, kept>> /\ reread' = Nothing
      /\ listed' = [listed EXCEPT !.rows = both, !.pages = @ + 1, !.next = page.next]
      /\ base' = IF listed.pages = 0 THEN kept ELSE base
  BY DEF LoadMore
<1>2. base' = base \/ (base' = kept /\ listed.next = First)
  BY <1>1 DEF FeedInv
<1>3. /\ ReadSoFar(started, kept, both, page.next, base')
      /\ both \in Seq(Nat) /\ page.next \in Nat \X Nat /\ page.next # First
  BY <1>1, <1>2, PageContinues DEF FeedInv
<1> HIDE DEF page, both
<1>4. /\ listed' \in [rows : Seq(Nat), pages : Nat, next : Nat \X Nat, failed : BOOLEAN]
      /\ listed'.rows = both /\ listed'.next = page.next /\ listed'.pages # 0
  <2>1. listed \in [rows : Seq(Nat), pages : Nat, next : Nat \X Nat, failed : BOOLEAN]
    BY DEF FeedInv
  <2>2. listed.pages + 1 \in Nat \ {0}
    BY <2>1
  <2> QED BY <1>1, <1>3, <2>1, <2>2
<1>5. /\ reread' \in [rows : Seq(Nat), pages : Nat, next : Nat \X Nat, base : SUBSET Nat, upTo : Nat]
      /\ reread'.next = First /\ First # End
      /\ ReadSoFar(started, kept, reread'.rows, reread'.next, reread'.base)
  BY <1>1, RereadNothing
<1>6. started \in Seq(1..MaxStart) /\ kept \subseteq DOMAIN started
  BY DEF FeedInv
<1> QED BY <1>1, <1>3, <1>4, <1>5, <1>6 DEF FeedInv

LEMMA StartOverKeeps == ASSUME FeedInv, StartOver PROVE FeedInv'
<1>1. /\ reread' = [Nothing EXCEPT !.base = kept, !.upTo = listed.pages]
      /\ UNCHANGED <<started, kept, listed, base>>
  BY DEF StartOver
<1>2. kept \in SUBSET DOMAIN started /\ kept \in SUBSET Nat /\ listed.pages \in Nat
  BY DEF FeedInv
<1>3. /\ reread' \in [rows : Seq(Nat), pages : Nat, next : Nat \X Nat, base : SUBSET Nat, upTo : Nat]
      /\ reread'.rows = <<>> /\ reread'.next = First /\ reread'.base = kept
  BY <1>1, <1>2, NothingRead
<1> QED BY <1>1, <1>2, <1>3, NothingRead DEF FeedInv

LEMMA ReadAgainKeeps == ASSUME FeedInv, ReadAgain PROVE FeedInv'
<1> DEFINE page == Page(reread.next)
           both == reread.rows \o page.rows
           first == IF reread.pages = 0 THEN kept ELSE reread.base
<1>1. /\ reread.upTo > 0 /\ UNCHANGED <<started, kept>>
      /\ IF reread.pages + 1 = reread.upTo \/ page.next = End
         THEN /\ listed' = [rows |-> both, pages |-> reread.pages + 1, next |-> page.next,
                            failed |-> FALSE]
              /\ base' = first /\ reread' = Nothing
         ELSE /\ reread' = [reread EXCEPT !.rows = both, !.pages = reread.pages + 1,
                                          !.next = page.next, !.base = first]
              /\ UNCHANGED <<listed, base>>
  BY DEF ReadAgain
<1>2. first = reread.base \/ (first = kept /\ reread.next = First)
  BY DEF FeedInv
<1>3. /\ ReadSoFar(started, kept, both, page.next, first)
      /\ both \in Seq(Nat) /\ page.next \in Nat \X Nat /\ page.next # First
  <2>1. reread.next # End /\ started \in Seq(1..MaxStart) /\ kept \subseteq DOMAIN started
        /\ ReadSoFar(started, kept, reread.rows, reread.next, reread.base)
    BY DEF FeedInv
  <2> HIDE DEF first
  <2> QED BY <1>2, <2>1, PageContinues
<1>4. /\ reread \in [rows : Seq(Nat), pages : Nat, next : Nat \X Nat, base : SUBSET Nat, upTo : Nat]
      /\ reread.pages + 1 \in Nat \ {0} /\ first \in SUBSET Nat
  <2>1. reread \in [rows : Seq(Nat), pages : Nat, next : Nat \X Nat, base : SUBSET Nat, upTo : Nat]
    BY DEF FeedInv
  <2>2. kept \in SUBSET Nat
    BY DEF FeedInv
  <2> QED BY <2>1, <2>2
<1>5. started \in Seq(1..MaxStart) /\ kept \subseteq DOMAIN started
  BY DEF FeedInv
<1> HIDE DEF page, both, first
<1>6. CASE reread.pages + 1 = reread.upTo \/ page.next = End
  <2>1. /\ listed' \in [rows : Seq(Nat), pages : Nat, next : Nat \X Nat, failed : BOOLEAN]
        /\ listed'.rows = both /\ listed'.next = page.next /\ listed'.pages # 0
        /\ base' = first /\ reread' = Nothing
    <3>1. /\ listed' = [rows |-> both, pages |-> reread.pages + 1, next |-> page.next,
                        failed |-> FALSE]
          /\ base' = first /\ reread' = Nothing
      BY <1>1, <1>6
    <3> QED BY <1>3, <1>4, <3>1
  <2>2. /\ reread' \in [rows : Seq(Nat), pages : Nat, next : Nat \X Nat, base : SUBSET Nat, upTo : Nat]
        /\ reread'.next = First /\ First # End
        /\ ReadSoFar(started, kept, reread'.rows, reread'.next, reread'.base)
    BY <2>1, RereadNothing
  <2> QED BY <1>1, <1>3, <1>5, <2>1, <2>2 DEF FeedInv
<1>7. CASE ~(reread.pages + 1 = reread.upTo \/ page.next = End)
  <2>1. /\ reread' \in [rows : Seq(Nat), pages : Nat, next : Nat \X Nat, base : SUBSET Nat, upTo : Nat]
        /\ reread'.rows = both /\ reread'.next = page.next /\ reread'.pages # 0
        /\ reread'.base = first /\ UNCHANGED <<listed, base>>
    <3>1. /\ reread' = [reread EXCEPT !.rows = both, !.pages = reread.pages + 1,
                                      !.next = page.next, !.base = first]
          /\ UNCHANGED <<listed, base>>
      BY <1>1, <1>7
    <3> QED BY <1>3, <1>4, <3>1
  <2> QED BY <1>1, <1>3, <1>5, <1>7, <2>1 DEF FeedInv
<1> QED BY <1>6, <1>7

LEMMA ReadFailsKeeps == ASSUME FeedInv, ReadFails PROVE FeedInv'
<1>1. /\ reread' = Nothing /\ listed' = [listed EXCEPT !.failed = TRUE]
      /\ UNCHANGED <<started, kept, base>>
  BY DEF ReadFails
<1>2. /\ listed' \in [rows : Seq(Nat), pages : Nat, next : Nat \X Nat, failed : BOOLEAN]
      /\ listed'.rows = listed.rows /\ listed'.next = listed.next /\ listed'.pages = listed.pages
  BY <1>1 DEF FeedInv
<1>3. /\ reread' \in [rows : Seq(Nat), pages : Nat, next : Nat \X Nat, base : SUBSET Nat, upTo : Nat]
      /\ reread'.next = First /\ First # End
      /\ ReadSoFar(started, kept, reread'.rows, reread'.next, reread'.base)
  BY <1>1, RereadNothing
<1> QED BY <1>1, <1>2, <1>3 DEF FeedInv

(* An incident that is opened is on no list yet.                           *)
LEMMA OpeningKeepsLists ==
  ASSUME NEW st, st \in Seq(1..MaxStart), NEW start \in 1..MaxStart, NEW there \in SUBSET DOMAIN st,
         NEW rows, NEW next, NEW from, ReadSoFar(st, there, rows, next, from)
  PROVE  ReadSoFar(Append(st, start), there \cup {Len(st) + 1}, rows, next, from)
<1> DEFINE new == Append(st, start)
<1>1. /\ DOMAIN st = 1..Len(st) /\ Len(st) \in Nat /\ DOMAIN new = 1..Len(st) + 1
      /\ \A i \in DOMAIN st : new[i] = st[i]
  OBVIOUS
<1>2. DOMAIN st \subseteq DOMAIN new /\ Len(st) + 1 \notin DOMAIN st
  BY <1>1
<1>3. /\ rows \in Seq(DOMAIN st) /\ from \subseteq DOMAIN st
      /\ \A m, n \in DOMAIN rows : m < n => Precedes(st, rows[m], rows[n])
      /\ \/ next = First /\ Len(rows) = 0
         \/ next = End
         \/ Len(rows) > 0 /\ next = <<st[rows[Len(rows)]], rows[Len(rows)]>>
      /\ \A i \in from \cap there :
           (\E n \in DOMAIN rows : rows[n] = i) \/ (next # End /\ Beyond(st, next, i))
  BY DEF ReadSoFar
<1> HIDE DEF new
<1>4. rows \in Seq(DOMAIN new) /\ from \subseteq DOMAIN new
  BY <1>2, <1>3
<1>5. ASSUME NEW m \in DOMAIN rows, NEW n \in DOMAIN rows, m < n
      PROVE  Precedes(new, rows[m], rows[n])
  <2>1. rows[m] \in DOMAIN st /\ rows[n] \in DOMAIN st
    BY <1>3
  <2> QED BY <1>1, <1>3, <1>5, <2>1 DEF Precedes
<1>6. Len(rows) > 0 => new[rows[Len(rows)]] = st[rows[Len(rows)]]
  <2>1. ASSUME Len(rows) > 0 PROVE rows[Len(rows)] \in DOMAIN st
    BY <1>3, <2>1
  <2> QED BY <1>1, <2>1
<1>7. ASSUME NEW i \in from \cap (there \cup {Len(st) + 1})
      PROVE  (\E n \in DOMAIN rows : rows[n] = i) \/ (next # End /\ Beyond(new, next, i))
  <2>1. i \in from \cap there /\ i \in DOMAIN st
    BY <1>2, <1>3
  <2> QED BY <1>1, <1>3, <2>1 DEF Beyond
<1> QED BY <1>3, <1>4, <1>5, <1>6, <1>7 DEF ReadSoFar, new

LEMMA OpensKeeps ==
  ASSUME FeedInv, NEW start \in 1..MaxStart, IncidentOpens(start)
  PROVE  FeedInv'
<1>1. /\ started' = Append(started, start) /\ kept' = kept \cup {Len(started')}
      /\ UNCHANGED <<listed, reread, base>>
  BY DEF IncidentOpens
<1>2. started \in Seq(1..MaxStart) /\ kept \in SUBSET DOMAIN started
  BY DEF FeedInv
<1>3. /\ started' \in Seq(1..MaxStart) /\ Len(started') = Len(started) + 1
      /\ kept' \subseteq DOMAIN started'
  BY <1>1, <1>2
<1>4. /\ ReadSoFar(started', kept', listed.rows, listed.next, base)
      /\ ReadSoFar(started', kept', reread.rows, reread.next, reread.base)
  BY <1>1, <1>2, <1>3, OpeningKeepsLists DEF FeedInv
<1> QED BY <1>1, <1>3, <1>4 DEF FeedInv

LEMMA GoesKeeps == ASSUME FeedInv, NEW i, IncidentGoes(i) PROVE FeedInv'
<1>1. kept' \subseteq kept /\ UNCHANGED <<started, listed, reread, base>>
  BY DEF IncidentGoes
<1>2. ASSUME NEW rows, NEW next, NEW from, ReadSoFar(started, kept, rows, next, from)
      PROVE  ReadSoFar(started, kept', rows, next, from)
  BY <1>1, <1>2 DEF ReadSoFar
<1> QED BY <1>1, <1>2 DEF FeedInv

LEMMA FeedStep == FeedInv /\ [FeedNext]_feedVars => FeedInv'
<1> SUFFICES ASSUME FeedInv, [FeedNext]_feedVars PROVE FeedInv'
  OBVIOUS
<1>1. CASE UNCHANGED feedVars
  BY <1>1 DEF feedVars, FeedInv
<1> QED BY <1>1, LoadMoreKeeps, StartOverKeeps, ReadAgainKeeps, ReadFailsKeeps, OpensKeeps, GoesKeeps
     DEF FeedNext

(* The history lists every incident at most once, newest first, and at its *)
(* end every one there was when its first page was read that is still      *)
(* there: for any number of incidents, of equal starts and rows of a page, *)
(* whatever is opened, deleted or read again between two pages.            *)
THEOREM ReadOnce == FeedSpec => []IncidentsReadOnce
<1>1. ASSUME FeedInv PROVE IncidentsReadOnce
  <2>1. /\ \A m, n \in DOMAIN listed.rows : m < n => Newer(listed.rows[m], listed.rows[n])
        /\ listed.next = End =>
             \A i \in base \cap kept : \E n \in DOMAIN listed.rows : listed.rows[n] = i
    BY <1>1 DEF FeedInv, ReadSoFar, Precedes, Newer
  <2> QED BY <2>1 DEF IncidentsReadOnce, ToSet
<1> QED BY <1>1, InitFeed, FeedStep, PTL DEF FeedSpec

----------------------------------------------------------------------------
(* The pages that redirect.                                                *)

(* Where a request for a page leads with the credentials of the moment:    *)
(* the middleware redirects, or the page does, or the page is shown.       *)
LeadsTo(page) == IF Middleware(page) # page THEN Middleware(page) ELSE Rendered(page)

(* The requests a navigation still takes.                                  *)
RequestsLeft ==
  IF place.shown THEN 0
  ELSE IF LeadsTo(place.page) = place.page THEN 1
  ELSE IF LeadsTo(LeadsTo(place.page)) = LeadsTo(place.page) THEN 2
  ELSE 3

LEMMA NavStart == NavInit => NavTypeOK
<1> SUFFICES ASSUME NavInit PROVE NavTypeOK
  OBVIOUS
<1>1. (account = "verified") \in BOOLEAN
  OBVIOUS
<1>2. cookie \in BOOLEAN /\ enrolled \in BOOLEAN /\ session \in BOOLEAN
  BY <1>1 DEF NavInit
<1>3. place \in [page : Pages, shown : BOOLEAN, next : Pages]
  BY DEF NavInit, Pages
<1> QED BY <1>2, <1>3 DEF NavInit, NavTypeOK

LEMMA FollowTyped == NavTypeOK /\ Follow => NavTypeOK'
<1> SUFFICES ASSUME NavTypeOK, Follow PROVE NavTypeOK'
  OBVIOUS
<1> DEFINE passed == Middleware(place.page)
           target == IF passed # place.page THEN passed ELSE Rendered(place.page)
<1>1. place \in [page : Pages, shown : BOOLEAN, next : Pages]
  BY DEF NavTypeOK
<1>2. target \in Pages
  BY <1>1 DEF Middleware, Rendered, DashboardLayout, OnboardingPage, SignedOutOnly, Pages
<1>3. \/ place' = [place EXCEPT !.shown = TRUE]
      \/ GoTo(target, IF target = "login" THEN place.page ELSE "dashboard")
  BY DEF Follow
<1>4. place' \in [page : Pages, shown : BOOLEAN, next : Pages]
  <2> HIDE DEF target
  <2>1. "dashboard" \in Pages
    BY DEF Pages
  <2>2. CASE place' = [place EXCEPT !.shown = TRUE]
    BY <1>1, <2>2
  <2>3. CASE GoTo(target, IF target = "login" THEN place.page ELSE "dashboard")
    <3>1. PICK next \in Pages : GoTo(target, next)
      BY <1>1, <2>1, <2>3
    <3> QED BY <1>2, <3>1 DEF GoTo
  <2> QED BY <1>3, <2>2, <2>3
<1> QED BY <1>4 DEF Follow, NavTypeOK, credentials

LEMMA NavStep == NavTypeOK /\ [NavNext]_navVars => NavTypeOK'
<1> SUFFICES ASSUME NavTypeOK, [NavNext]_navVars PROVE NavTypeOK'
  OBVIOUS
<1>1. /\ place \in [page : Pages, shown : BOOLEAN, next : Pages]
      /\ cookie \in BOOLEAN /\ session \in BOOLEAN /\ enrolled \in BOOLEAN
      /\ account \in {"none", "unverified", "verified"} /\ invite \in {"none", "mine", "others"}
  BY DEF NavTypeOK
<1>2. ASSUME NEW page \in Pages, NEW next \in Pages, GoTo(page, next)
      PROVE  place' \in [page : Pages, shown : BOOLEAN, next : Pages]
  BY <1>2 DEF GoTo
<1>3. {"dashboard", "verify", "confirmed", "login", "accept"} \subseteq Pages
  BY DEF Pages
<1>4. CASE Follow
  BY <1>4, FollowTyped
<1>5. ASSUME NEW page \in Pages, Visit(page) PROVE NavTypeOK'
  BY <1>1, <1>2, <1>3, <1>5 DEF Visit, credentials, NavTypeOK
<1>6. CASE Forms
  <2>1. place' \in [page : Pages, shown : BOOLEAN, next : Pages]
    BY <1>1, <1>2, <1>3, <1>6 DEF Forms, SignIn, SignInUnverified, Register, Confirm, ResetPassword,
       SignOut, CreateOrganization, Accept, AcceptElsewhere
  <2>2. /\ cookie' \in BOOLEAN /\ session' \in BOOLEAN /\ enrolled' \in BOOLEAN
        /\ account' \in {"none", "unverified", "verified"} /\ invite' \in {"none", "mine", "others"}
    BY <1>1, <1>6 DEF Forms, SignIn, SignInUnverified, Register, Confirm, ResetPassword,
       SignOut, CreateOrganization, Accept, AcceptElsewhere, credentials
  <2> QED BY <2>1, <2>2 DEF NavTypeOK
<1>7. CASE SessionEnds \/ CookieEnds \/ MembershipChanges
  BY <1>1, <1>7 DEF SessionEnds, CookieEnds, MembershipChanges, NavTypeOK
<1>8. CASE UNCHANGED navVars
  BY <1>1, <1>8 DEF navVars, NavTypeOK
<1> QED BY <1>4, <1>5, <1>6, <1>7, <1>8 DEF NavNext

LEMMA NavAlways == NavSpec => []NavTypeOK
BY NavStart, NavStep, PTL DEF NavSpec

(* Where the cookie names a session that is alive, the second redirect of  *)
(* a navigation is the last: what middleware and pages decide agrees.      *)
LEMMA TwoRedirects ==
  ASSUME NavTypeOK, cookie => session, NEW page \in Pages
  PROVE  LeadsTo(LeadsTo(LeadsTo(page))) = LeadsTo(LeadsTo(page))
<1>1. CASE ~cookie
  <2>1. /\ LeadsTo("login") = "login"
        /\ LeadsTo(page) \in {page, "login"}
    BY <1>1 DEF LeadsTo, Middleware, Rendered, DashboardLayout, OnboardingPage, SignedIn,
                SignedOutOnly, Pages
  <2>2. CASE LeadsTo(page) = page
    BY <2>2
  <2>3. CASE LeadsTo(page) = "login"
    BY <2>1, <2>3
  <2> QED BY <2>1, <2>2, <2>3
<1>2. CASE cookie
  <2> DEFINE landing == IF account # "verified" THEN "verify"
                        ELSE IF enrolled THEN "dashboard" ELSE "onboarding"
  <2>1. SignedIn
    BY <1>2 DEF SignedIn
  <2>2. LeadsTo("dashboard") = landing /\ LeadsTo(landing) = landing
    BY <1>2, <2>1 DEF LeadsTo, Middleware, Rendered, DashboardLayout, OnboardingPage, SignedOutOnly
  <2>3. LeadsTo(page) \in {page, "dashboard", landing}
    BY <1>2, <2>1 DEF LeadsTo, Middleware, Rendered, DashboardLayout, OnboardingPage,
                      SignedOutOnly, Pages
  <2> HIDE DEF landing
  <2>4. CASE LeadsTo(page) = page
    BY <2>4
  <2>5. CASE LeadsTo(page) = "dashboard"
    BY <2>2, <2>5
  <2>6. CASE LeadsTo(page) = landing
    BY <2>2, <2>6
  <2> QED BY <2>3, <2>4, <2>5, <2>6
<1> QED BY <1>1, <1>2

LEMMA FollowAdvances ==
  ASSUME NavTypeOK, cookie => session, Follow
  PROVE  RequestsLeft' < RequestsLeft
<1> DEFINE page == place.page
           next == LeadsTo(page)
<1>1. page \in Pages /\ place.shown = FALSE
  BY DEF NavTypeOK, Follow
<1>2. /\ \/ next = page /\ place' = [place EXCEPT !.shown = TRUE]
         \/ next # page /\ place'.page = next /\ place'.shown = FALSE
      /\ UNCHANGED credentials
  BY DEF Follow, LeadsTo, GoTo
<1>3. ASSUME NEW p PROVE LeadsTo(p)' = LeadsTo(p)
  BY <1>2 DEF credentials, LeadsTo, Middleware, Rendered, DashboardLayout, OnboardingPage, SignedIn
<1>4. LeadsTo(LeadsTo(next)) = LeadsTo(next)
  BY <1>1, TwoRedirects
<1>5. RequestsLeft = IF next = page THEN 1 ELSE IF LeadsTo(next) = next THEN 2 ELSE 3
  BY <1>1 DEF RequestsLeft
<1>6. CASE next = page /\ place' = [place EXCEPT !.shown = TRUE]
  <2>1. place'.shown = TRUE
    BY <1>6 DEF NavTypeOK
  <2>2. RequestsLeft' = 0
    BY <2>1 DEF RequestsLeft
  <2> QED BY <1>5, <1>6, <2>2
<1>7. CASE next # page /\ place'.page = next /\ place'.shown = FALSE
  <2>1. RequestsLeft' = IF LeadsTo(next) = next THEN 1
                        ELSE IF LeadsTo(LeadsTo(next)) = LeadsTo(next) THEN 2 ELSE 3
    BY <1>3, <1>7 DEF RequestsLeft
  <2> QED BY <1>4, <1>5, <1>7, <2>1
<1> QED BY <1>2, <1>6, <1>7

\* While the cookie names a session that is alive, a navigation takes at most two redirects
\* and the request that shows the page: every request a browser follows brings it nearer,
\* whatever the account is and wherever it was going (middleware.ts, dashboard/layout.tsx).
\* With weak fairness of Follow this is why HonestNavigationEnds holds.
THEOREM RedirectsRunOut ==
  NavSpec => [][(cookie => session) /\ Follow => RequestsLeft <= 3 /\ RequestsLeft' < RequestsLeft]_navVars
<1>1. RequestsLeft <= 3
  BY DEF RequestsLeft
<1>2. NavTypeOK =>
        [(cookie => session) /\ Follow => RequestsLeft <= 3 /\ RequestsLeft' < RequestsLeft]_navVars
  BY <1>1, FollowAdvances
<1> QED BY <1>2, NavAlways, PTL DEF NavSpec
=============================================================================
