# SiteOps: a TLA+ model of website monitoring, its worker, API and dashboard

SiteOps monitors websites. A worker process claims websites that are due, requests them, confirms
outages and recoveries over several checks, keeps incidents, and sends email. An API process lets
the members of an organization administer websites, members and invitations, and a web application
in the browser shows what the API answers. Worker and API share nothing but a MongoDB database, and
several workers may run at once.

This directory models the parts of it where the order of events matters, and the pure algorithms on
which they rest, checks them with TLC on small instances, and proves the main safety properties
with TLAPS for every instance. Paths below are relative to the repository; `PROJECT.json` maps every
definition to its lines.

## 1. Inventory

| Component | Where | State | Operations | Module |
|---|---|---|---|---|
| Incident rules | `apps/worker/src/monitoring/incident-rules.ts` | none (pure) | `deriveCounters`, `decideIncidentTransition`, `deriveDisplayStatus` | `IncidentRules` |
| Monitoring pipeline | `apps/worker/src/monitoring/{scheduler,check-runner,result-processor,incident-service}.ts` | `websites`, `websitechecks`, `incidents`; a snapshot in memory per check | claim, check, record, open, adopt, resolve, count, save, release | `Monitoring` |
| Incident collection | `packages/database/src/models/incident.ts` | `incidents` and its partial unique index | open, resolve, announce, purge | `IncidentLog` (abstract) |
| Website edits | `apps/api/src/websites/` | `websites` | create, update, pause and resume, delete, list | `Monitoring` (the writes a check races with), `WebsiteTable`, `Statistics` |
| Notification dispatch | `apps/worker/src/monitoring/notification-service.ts` | dispatch flags of an incident, `notifications`, preferences | claim the dispatch, resolve recipients, insert, send, record; update preferences | `Notifications`; one step in `Monitoring` |
| Scheduler loop, worker lifecycle | `apps/worker/src/main.ts`, `monitoring/scheduler-loop.ts` | timer, tick in flight, shutdown and watchdog | tick, claim a batch, stop, drain, exit, restart | `WorkerLifecycle` |
| HTTP checker, retries | `apps/worker/src/monitoring/{http-checker,check-with-retries,safe-lookup,address-guard}.ts` | none kept | validate, resolve, connect, redirect, retry, classify | `HttpCheck` |
| URL and address validation | `packages/shared/src/url/` | none (pure) | `classifyIpAddress`, `normalizeWebsiteUrl` | `Addresses`, `WebsiteUrls` |
| Members, invitations | `apps/api/src/organizations/` | `organization_members`, `invitations` | invite, accept, revoke, change role, remove | `Membership` |
| Organizations, permissions, plans | `apps/api/src/organizations/organization.*.ts`, `packages/shared/src/domain/` | `organizations` | create, claim a slug, check the cap | `Membership` (creation, ranks, cap), `Dashboard` (who may change what) |
| Rate limiter | `apps/api/src/common/rate-limit/` | window per key in memory | consume, sweep | `RateLimiter` |
| Uptime, statistics | `packages/shared/src/uptime.ts`, `apps/api/src/monitoring/` | none (queries) | totals, buckets, combined figures | `Statistics` |
| Pagination | `apps/api/src/common/pagination/`, the lists of the web application | cursors, page numbers | next page, page n, read again | `IncidentFeed` (cursors), `WebsiteTable` (offsets) |
| Authentication | `apps/api/src/auth/`, `apps/web/src/app/(auth)/` | session, session cookie | sign in and out, register, confirm, reset | `Navigation` (as a visitor goes through it), `RateLimiter` (budgets); better-auth itself is a library |
| Web application | `apps/web/src/` | browser's place, query cache, organization cookie | redirects, forms, polls, mutations, switches | `Navigation`, `Dashboard`, `IncidentFeed`, `WebsiteTable` |
| Configuration, logging, audit trail, email templates | see `PROJECT.json` | none another part reads back | | not modelled |

**Interaction.** The components meet in documents. A pipeline copies the website document when it
claims it and writes it back by `_id` at the end; API edits write the same document at any moment
without looking at the lease; the website's `currentIncidentId` mirrors a document of another
collection and is written by a separate call. There are no transactions except at the creation of
an organization. What is atomic is one MongoDB call, and the correctness of the system rests on the
filters of conditional updates and on three unique indexes.

The worker process feeds the pipelines: a tick claims a batch, checks it and only then lets the next
tick be scheduled. A pipeline asks the HTTP checker for an outcome, which validates every hop with
the same functions the API uses for what a person types, and hands an opened or resolved incident
to the notification dispatch. The web application sees all of this through the API's answers only,
which it caches per organization, while the organization of most requests is named by a cookie that
all tabs share.

**What is hard here.**

- Two pipelines of one website after a lease has ended under the first.
- A crash, or a failed call, between two writes of one pipeline; the counters, the mirror and the
  incident are three writes.
- An API edit (pause, resume, another URL, other thresholds, deletion) between the claim and the
  save.
- Decisions taken on what an earlier call returned: the last-owner count, the member cap, the
  invitation an acceptance has read.
- An announcement is a chain of calls per recipient, among people who join, leave and change their
  preferences; the flag that keeps a second run out is set before the first message.
- A shutdown meets a tick, probes and a database that hang; ticks fail and must go on.
- A redirect or a second resolution leads a check elsewhere than what was validated.
- Answers overtake changes: polls, retries, mutations and a switch of organization share one cache.
- Lists are read page by page while rows come and go.
- Middleware and pages decide redirects from different things, the cookie and the session.
- That something happens at all: a website whose worker died is checked again, an outage ends, a
  shutdown ends, the loop survives its failures, a navigation comes to a page.

**What makes each component correct.** One open incident per website; each event announced at most
once, and where nothing fails exactly once; a status that agrees with the counters; incidents opened
and closed only on enough consecutive checks; the website naming its open incident; nothing
rewriting a resolved incident; an owner's role taken only past another owner, and the plan's cap; invitations
that are used once or revoked, and confer no ownership. Nobody told twice and nobody left out; no
socket to a refused address, and a check that fits its lease; a batch that bounds the work and a
process that exits without cutting it; one key per website; views that no late answer takes back
behind what they have shown; lists without holes and repetitions; budgets and figures that are what they claim.
`PROJECT.json` lists under `hazards` where each of these can go wrong and which property would
notice.

## 2. Modules

| Module | What it is |
|---|---|
| `IncidentRules` | The three pure functions, as operators. |
| `Monitoring` | The pipelines of all workers, time, faults and the API's website edits. One action per database call. |
| `MonitoringProperties` | Its invariants, action and liveness properties, and the refinement mapping to `IncidentLog`. |
| `IncidentLog` | Abstract specification: what readers of the incidents collection may rely on. |
| `Membership` | The members and invitations of one organization, with API requests that interleave call by call, and its properties. |
| `Notifications` | One incident announced to the people of its organization, one action per awaited call. |
| `Addresses`, `WebsiteUrls` | Classification of IP addresses, and normalization of URLs with the key they are told apart by. |
| `HttpCheck` | One check: attempts, hops, resolutions, connections, classified errors. |
| `WorkerLifecycle` | A worker process: loop, batch, probes, shutdown, watchdog, restarts. |
| `Navigation` | One browser among the pages that redirect, and the forms. |
| `Dashboard` | One tab: a view, its query cache, and the server behind it. |
| `IncidentFeed`, `WebsiteTable` | Cursor pages and numbered pages of lists that change. |
| `RateLimiter`, `Statistics` | Fixed windows with sweeps; the figures of the dashboard. |
| `MCMonitoring`, `MCMembership` | Symmetry sets for TLC. The instances are in the `.cfg` files. |
| `MCServices` | The components from `Notifications` on for TLC, one of them in a behaviour. |
| `MonitoringProofs`, `MonitoringConfirmation` | Proofs about `Monitoring`: types, what holds under every disturbance and the refinement; what holds where nothing fails. |
| `MembershipProofs` | Proofs about `Membership`. |
| `WorkerProofs` | Proofs about `WorkerLifecycle`, `HttpCheck` and `Notifications`. |
| `UrlProofs` | Proofs about `Addresses` and `WebsiteUrls`. |
| `WebProofs` | Proofs about `Dashboard`, `WebsiteTable`, `RateLimiter`, `IncidentFeed` and `Navigation`. |
| `StatisticsProofs` | Sums over finite sets, and the proofs about `Statistics`. |
| `ServicesProofs` | The composition `MCServices` implements its components and inherits their theorems. |

Definitions named "Mutant of ..." are the mutated forms that `PROJECT.json` lists: with one in
place of the original, the named run must find its property violated.

### Monitoring

`website`, `incident` and `checks` are collections. `checks` keeps, of a website's check documents,
only the final run of equal outcomes: that is what confirmation is about. `pc[p][w]` and `ctx[p][w]`
are the place and the memory of worker `p`'s pipeline for website `w`. The path is

    idle -Claim-> checking -RecordCheck-> opening | resolving | counting | saving
    opening -OpenIncident-> saving,  opening -OpenLosesRace-> adopting -AdoptIncident-> saving
    resolving -ReadIncident-> closing | saving,  closing -CloseIncident-> saving
    counting -CountFailure-> saving
    saving -SaveWebsite-> notifying | releasing
    notifying -ClaimDispatch-> sending | releasing,  sending -SendNotice-> releasing
    releasing -Release-> idle

Each arrow is one database call with the synchronous code after it (`RecordCheck` also stands for
the request itself, whose result is any outcome). `AbandonPipeline` is an exception on the way: the
`finally` block still releases. `Crash` loses every pipeline of a process. `mail` counts dispatches
and exists only in the model.

Time is abstracted to what the filters ask: `due` is `nextCheckAt <= now`, a lease is `free`, `held`
or `expired`. `ExpireLease` under a running pipeline is possible only with the disturbance
`overlap`: `LEASE_DURATION_MS` in `main.ts` is computed to outlast a check, so properties that
depend on it are checked without, and those that must survive a wrong estimate with it.

`Disturbances` says what an instance includes: `crash`, `writeError`, `overlap`, `pause`, `urlEdit`,
`thresholds`, `delete`. It keeps the instances small and states under which conditions a property
holds. The proofs cover every set of disturbances.

Left out: HTTP details (an outcome is one of the check statuses), response times, the wording of
messages, the recipients of a dispatch (a dispatch is one step here and the subject of
`Notifications`), the order in which due websites are claimed.

### IncidentLog

An entry is opened while its website has no open entry, resolved once, announced once per event (the
recovery only once resolved), and removed only with its website. `ImplementsLog` states that
`Monitoring` implements it under the mapping `LogOf`: status and site of the document, and the
events whose dispatch flag is set.

### Membership

A request is a slot that holds what its handler has read. An account stands for its address. A
member document is an account with the number of times it has joined, which is what a document
`_id` distinguishes: an edit addressed to a document that was deleted matches nothing even when the
account has joined again. `updateRole` and `remove` are one operation, the removal being an edit to
the role "none": they read the target, count owners when an owner loses the role, and write, in
three calls. `accept` reads the invitation, asks for membership, inserts, and marks the invitation,
in four. `Abandon` ends a request anywhere. Only owners hold `member:update_role` and
`member:remove`, so an edit begins only for an owner; whether it still is one at the write is not
asked, as in the code. Tokens are not modelled: a link works exactly while its document is
pending, and the one a re-invitation replaces works no more.

Any two requests overlap, edits included: an edit carries what it has read, the target's role in
`current` and the number of owners in `seen`, to the write, and others may have written meanwhile.
So no instance keeps an owner for ever (`FindLastOwner`). What the guard does give is
`LastOwnerGuarded`: the last owner's role is only taken by an edit that read that account as no
owner, or counted a second one who was there then. `Rejoining` is the set of accounts that may
join more than once, a bound.

### Notifications

`dispatch[d]` is a run of some worker: idle, or between two calls of `ClaimDispatch`,
`ReadIncident`, `ListMembers`, `ReadSettings` and then, per recipient, `InsertNotice`, `SendMail`,
`RecordResult`. `claimed` is the set of flags, `notice[e][u]` the status of the document with that
dedupe key, `mailed[e][u]` the messages that arrived, which only the model knows. A message may
arrive and be reported as failed. `Interrupt` is an exception in a call as well as the death of the
process, since the flag stays set in both and nobody takes the dispatch up again. Meanwhile people
join and leave, write preferences (with the defaults a first write fills in), and the incident is
resolved or deleted. The histories `willing`, `unwilling` and `interrupted` say who has been a
member with (without) the preference ever since the claim, and which dispatches were cut short; the
properties need them because the recipients are read some time after the claim.

### Addresses and WebsiteUrls

`Addresses` computes with 32-bit numbers as pairs of 16-bit halves, signed or not as JavaScript's
operators leave them, and expands the spellings of an IPv6 address: "::" for any of its zeros or for
none, the last two groups dotted or not. `ListedIpv4` and `ListedIpv6` answer the same questions
from the first and last address of every block that the code names, and `PublicIpv6` says which
IPv6 addresses are public unicast, from the address space registries and not from the code.
`AddressesAgree` asks that the first are refused and the others admitted; what is neither is
admitted too, against a comment of the code (section 4). `WebsiteUrls` takes a URL by the parts that
`normalizeWebsiteUrl` tells apart, each from a small set; the scanning of characters is the `URL`
class's.

### HttpCheck

`check` is the place of the one check: an attempt, the redirects so far, the target, the address. Name
server and web server answer anything, differently each time, so that a name that was public when
the website was added may resolve to anything now. `opened` collects the addresses that sockets were
opened to, `spent` the time of all requests. The errors of a request are the codes the classifier knows,
each at any depth of the chain of causes, which is walked five deep.

### WorkerLifecycle

`process`, `timer`, `tick`, `shutdown` and `watchdog` are the variables of `main.ts` and of the loop;
`work[s]` is what the current batch does with a website, and a check is here what takes a lease and
gives it back, or leaves it to expire. Failures of the start, of a claim and of a check, probes
that hang in the database, a pool that does not close, kills and restarts are actions.

### Navigation, Dashboard, IncidentFeed and WebsiteTable

`Navigation` keeps the cookie and the session apart: `Middleware` looks at the first, the server
components at the second, and both may end without the other. `Follow` is one request.

`Dashboard` follows the cache entry of one organization. Organizations being alike, its entry holds
nothing, an answer of its own at some version, or an answer of another organization. That happens:
the request goes where the cookie points when it is sent, the answer is cached under the
organization the view shows. `told` is the newest version the person has seen or been told is saved;
the mark `overtaken` is on an answer that was given before such a message and that the code does
not ask for again.
Polls, stale times, two attempts, cancelled requests, mutations and what they invalidate are
actions; how react-query does it is external and modelled from how the views configure and call it.
Each view is a behaviour of its own.

`IncidentFeed` and `WebsiteTable` keep no contents but ids, starts and counts. A list of the first kind
is read again from the first page, each page continuing the cursor of the one before; an answer of
the second kind is two reads, rows and total, in any order. A page of the first kind puts every
incident at its `Place`, the number of incidents that come before it.

### RateLimiter and Statistics

`RateLimiter` follows the grants of one key through a history: `granted[t]` is what had been allowed
by the end of time `t`, so that what was allowed in a span is a difference. `Statistics` asks one question
of any set of check documents; the percentages are integers in hundredths, floored or rounded as the
code does, and averages are rounded before they are combined.

### MCServices

The ten components share no variables, so each behaviour follows one of them, named by `part`, and
the others stay in one initial state. The one reduction beyond that is `UpToRenaming`: people, and
runs at rest, are alike, so the one change is made about a fixed person and the first run at rest
claims. In the dashboard an administrator is followed in the members view only, since elsewhere an
owner may do the same.

## 3. Runs

| Run | Instance | Checks | What it shows |
|---|---|---|---|
| `MonitoringRaces` | 2 workers, 1 website, 2 incidents; overlap, pause, delete | `TypeOK`, `OneOpenIncident`, `SoleAnnouncer`, `AnnouncedOnce`, `StatusMatchesCounters`, `HistoryKept`, `ImplementsLog` | What conditional updates and indexes guarantee when leases do not. |
| `MonitoringLease` | 2 workers, thresholds 1 and 3; crash, writeError, thresholds, delete | `LeaseExclusion`, `StreakGrowsByOne` | Leases exclude, and a streak never jumps, through every fault. |
| `MonitoringConfirm` | 1 worker, thresholds 1 and 2 both ways; every API edit | `OutageConfirmed`, `RecoveryConfirmed`, `MirrorAgrees`, `DownWhileOpen`, `AnnouncementsComplete`, `FailedChecksCover` | Where no call fails, what the website and its incidents say is complete and backed by the checks collection. |
| `MonitoringLive` | 2 workers, 1 incident; crash, overlap, pause; fair | `NeverStranded`, `NamedOutageEnds` | A monitored website is always checked again; in calm times a named incident is resolved. |
| `Membership` | 2 accounts, one of which may rejoin, 2 requests of any kind, 2 invitations | `TypeOK`, `OnePending`, `AcceptedHasJoined`, `InvitationsAreFinal`, `OwnershipIsConferred`, `LastOwnerGuarded` | What the guards give while joins, edits that overlap and requests that fail interleave. |
| `Services` | every component of `MCServices`, one at a time | see the next table | Each keeps its promise through its own interleavings and failures. |
| `FindStaleStreak` | a pause and resume under a check | `StreakGrowsByOne` violated | The old failure streak comes back. |
| `FindStuckIncident` | a crash between insert and save; fair | `OutageEnds` violated | The incident nobody names stays open although the site is up. |
| `FindLeftBehind` | a deletion under a check | `NothingLeftBehind` violated | A deleted website keeps an open incident. |
| `FindLastOwner` | two owners edit each other | `OwnerRemains` violated | The organization is left without an owner. |
| `FindMemberCap` | two pending invitations, cap 2 | `MembersWithinPlan` violated | The plan's cap is exceeded. |
| `FindRedirectLoop` | a session that ends under its cookie | `NavigationEnds` violated | `/login` and `/dashboard` redirect to each other without end. |

`Services` checks, besides the types (`ServicesTypeOK`):

| Property | Component | What it says |
|---|---|---|
| `AtMostOneEmail` | `Notifications` | One message per person and event, none against a preference that stood since the claim. |
| `NoticesAreTrue` | | What the collection calls sent has arrived; a pending document has a run, or one that was cut short. |
| `EverybodyTold` | | A dispatch that was not cut short has settled everybody who could be told since the claim. |
| `ConnectsWhereAllowed` | `HttpCheck` | No socket to an address that is not allowed, however names resolve and redirects lead. |
| `CheckFitsLease` | | All attempts and hops of a check fit into the lease. |
| `AddressesAgree` | `WebsiteUrls` | Refused if listed or carrying a listed address, admitted if public unicast, in every spelling. |
| `KeysNameWebsites` | | Equal keys exactly for the same website; the stored URL is what the worker takes it for. |
| `DrainsBeforeExit` | `WorkerLifecycle` | A process that ends by itself with code 0 has cut no check and no probe. |
| `ShutdownEnds`, `LoopSurvives` | | A shutdown ends whatever hangs; while the process runs, another tick comes. |
| `HonestNavigationEnds` | `Navigation` | While a cookie names a live session, every navigation comes to a page. |
| `NeverGoesBack` | `Dashboard` | A view at rest never shows less than the person has seen or been told is saved, but for an answer marked `overtaken`. |
| `IncidentsReadOnce` | `IncidentFeed` | Every incident once, newest first, none skipped that stayed. |
| `NothingIsTrue` | `WebsiteTable` | "No websites" is said only when the list its rows were read from had none, unless rows have gone. |
| `BudgetRespected` | `RateLimiter` | At most twice a budget in any span of a window; a refusal only after a spent budget. |
| `FiguresAgree` | `Statistics` | Totals, buckets, percentages and averages agree with the checks and each other. |

**Bounds, and why they are enough.** Two workers are as many as can hold one website's pipeline in
any of the races (every conflict is between two writers). One website suffices because no action of
the pipeline reads another website's documents; the proofs need no such bound. Two incidents allow
one to be resolved, or purged, while another opens. `MaxStreak` is the largest threshold, or more:
the rules compare streaks with thresholds only, so longer ones behave alike, and `MonitoringLease`
takes 3 so that a jump of two can be seen. `RecordCheck` fails a check only while an unused
incident id is left, so that an outage that is confirmed finds one. Where leases overlap, another
pipeline of the same website may take the last id first and resolve its incident; the insert then
waits for good, as a call would that never ends. `MonitoringLive` has one incident id, so no check
fails once it is open: `NamedOutageEnds` is checked of outages that no further failure interrupts,
after whatever crashes, lost leases and pauses came before.
In `Membership`, two accounts, one of them joining twice (`Rejoining`), allow a stale edit, two
owners who edit each other, a re-invitation and a rejoin; `MaxJoins` bounds the joins and no other
action. Symmetry is over workers and incidents, and
over requests, invitations and the accounts but the founder; `MonitoringLive` and the runs without
need use none. Deadlock is not checked in the runs where ids are used up and the system may then
rightly stop.

In `Services` the bounds are those at which a component meets its cases. Two people and two runs
allow one recipient to fail before another and both runs to claim the same or different events;
`MaxChanges` bounds the joins, departures and preference writes and the interruptions together, at
one, which falls before, between or after any of the calls (the proofs have no such bound). Two
redirects and two attempts allow a redirect to be followed, the last one to be followed and one too
many to be refused, on a first and on a last attempt. Three websites with batches of two leave one
to the next tick, and two starts allow a restart to find the leases of a killed process. One change
by others and one of one's own overtake any poll. Three incidents with starts 1 to 3, which may tie,
and pages of one give cursors between equals, at the end and after a deletion; four websites and
pages of two give a full last page and one that vanishes. Limits 2 and 1, windows of 1 to 3 time
units and a clock to 4 let a window end and another begin, and a sweep fall inside a window; one
client, since no operation touches two keys but the sweep, which drops a window of any key or none.
The statistics have four times in the window, and a second website with one check. Addresses are the
borders of every listed block with their neighbours on both sides, in their spellings and carried
in every way. In this run deadlock is not checked, since a question once answered, and a check once
made, rest.

**Fairness** (`FairSpec` of `MonitoringProperties`). Time passes (`BecomeDue`, `ExpireLease`):
clocks do. Some worker claims a website that stays claimable: `scheduler-loop.ts` schedules the next
tick after each one, whatever the tick threw, and the platform restarts a worker that ends. A
pipeline that has begun proceeds: every request has a timeout and every database call ends. It is
weak fairness throughout, on the system's own steps only: no edit, fault or check outcome is
promised. That checks eventually succeed is the hypothesis of `NamedOutageEnds` and `OutageEnds`,
written in them.

`WorkerFairness` is weak fairness of `Tick` (timers fire, and what a tick awaits ends in an answer
or an error: requests have timeouts, choosing a server has one in the driver, and a call that was
sent ends with its answer or its connection) and of the watchdog's timer. The end of a probe, of the
health server's connections, of the pool, and the platform's restarts are not promised, which is
what the watchdog is for. `NavFairness` is weak fairness of `Follow`: a browser follows redirects;
what people do is not promised.

## 4. Where the code differs from what it says

The six `Find` runs are listed under `findings` with the quoted lines, and so are two differences
that no run shows, since the model does in both places what the code does. The dashboard's 24-hour
figures count the checks of a deleted website until they are purged or expire
(`check.repository.ts`, `totalsByWebsite`), while `website.service.ts` calls them unreachable. And
the classification of IPv6 addresses ends in `ALLOWED`, so that `fec0::1`, `fe00::1`, `fbff::1` and
`::ffff:0:10.0.0.1`, which no rule names, are admitted, while `ip.ts` and `docs/SECURITY.md` promise
that whatever is not provably public unicast is blocked; `UnknownIsAdmitted` proves it of the
model, and `AddressesAgree` leaves such addresses out. More disagreements and surprises were met
while modelling and have no run.

*Monitoring and worker*

- When the website write of a check fails, its check document stays and the counters do not move. A
  success lost this way leaves the failure streak as it was, and the next failure can confirm an
  outage with fewer failed checks in a row than the threshold; a failure lost this way confirms it
  late.
- A pause or a resume under an open incident shows `paused` or `unknown` until the next check, so
  `DownWhileOpen` is stated for statuses that come from a check.
- A run that dies between claiming the dispatch flag and the last message leaves everybody after it
  untold, for good: the flag is set, and nobody takes the dispatch up again. `EverybodyTold` is
  therefore stated for dispatches that were not cut short.
- A claim that throws in the middle of a batch drops the websites the batch had claimed, which wait
  for their leases to expire. A batch in progress goes on claiming after SIGTERM.
- An index synchronisation that fails at the start sets the exit code but leaves the connection
  open, and with it a process that does nothing. A disconnect that throws clears the watchdog on its
  way out (`main.ts`, `finally`), so a pool that does not close may keep the process.
- The watchdog's exit cuts checks that still hold leases; those are free again only when they
  expire.
- A malformed `Location` header is classified `unknown` and therefore retried.

*API*

- A URL edit that read `monitoringEnabled` before a pause or resume writes the status of the old
  value.
- `accept` that dies before it marks the invitation leaves it pending: if the member is removed
  later, the same link works again, while `docs/SECURITY.md` calls tokens single-use. And the
  comment in `member.service.ts` that anyone may leave is out of reach, since the route asks for
  `member:remove`, which only owners hold.
- The website cap is counted in one call and the website inserted in another, as with the member
  cap.
- The default scope of the rate limit guard is the method and the handler's name, so that all
  handlers called `list` share a budget; the comment above it says "keyed by client address *and*
  route". The budget for reading a session is keyed by address, which for pages rendered on the
  server is the web server's.
- `dashboardStats` reads three times concurrently, so its figures may be of different moments.
- The estimated downtime multiplies failed checks by the interval of today; after a longer interval
  was set it can exceed the window.
- `acme.com:8443` without a scheme reads as the scheme `acme.com:` and is refused.

*Web application*

- The organization of a request is the cookie's at the time of sending, not, as a comment in
  `api-client.ts` says, the one the page shows. After a switch in another tab the answers of one
  organization are cached under the other, and a website created then lands in the other. The shell
  synchronises the cookie only when it is mounted, and selecting the organization already shown
  returns early.
- The settings form writes the answer of a save into the cache without cancelling a read, so an
  older answer may replace it. `NeverGoesBack` excepts that form.
- A website can be added while the table's first load is pending (`websites-table.tsx` shows the
  button by then). The dialog closes as saved, and what it invalidates holds no data yet, so the
  load under way is not cancelled: if the API has answered it already, the table comes without
  the new website and counts as fresh for 30 seconds. `NeverGoesBack` excepts that answer.
- A change that is confirmed after a switch of organization invalidates the key of the organization
  now on screen. Whoever returns before the entry of the first goes stale finds it without the
  change. `NeverGoesBack` excepts that entry until it is read again.
- A website added after the rows were read makes "No websites match those filters" untrue until the
  next read; `NothingIsTrue` speaks of the rows that were read.
- A change whose answer is lost may have been made; the view is not read again until it goes stale.
- After deletions a numbered page may lie past the end, and the table then says that there are no
  websites. Creating a website does not refresh the figures of the overview.
- The accept page offers "Sign in as the invited address" to somebody signed in as another; the
  middleware sends that visitor from `/login` back to the dashboard, and the invitation is lost on
  the way.

## 5. Proofs

All theorems are for arbitrary constants under the named assumptions (`MonitoringAssumption`,
`MembershipAssumption`, `NotifyAssumption`, `HttpAssumption`, `WorkerAssumption`,
`DashboardAssumption`, `TableAssumption`, `LimiterAssumption`, `FeedAssumption`,
`StatisticsAssumption`), which TLC evaluates in the runs. A hypothesis beyond them is given in the last column; it is met by the run
that checks the property.

| Theorem | States | If |
|---|---|---|
| `TypeCorrect` | `Spec => []TypeOK` | |
| `OneOpenAlways` | `Spec => []OneOpenIncident` | |
| `HistoryIsKept` | `Spec => HistoryKept` | |
| `OneAnnouncer`, `AnnouncedAtMostOnce` | `Spec => []SoleAnnouncer`, `[]AnnouncedOnce` | |
| `StatusAgreesWithCounters` | `Spec => []StatusMatchesCounters` | |
| `LogImplemented` | `Spec => ImplementsLog` | |
| `PipelinesAdvance` | a pipeline makes at most seven calls after its claim, each step leaving fewer, and no other step gives it more | |
| `LeaseExcludes` | `Spec => []LeaseExclusion` | no `overlap` |
| `StreaksGrowByOne` | `Spec => StreakGrowsByOne` | no `overlap`, `pause`, `urlEdit` |
| `OutagesAreConfirmed`, `RecoveriesAreConfirmed` | `Spec => []OutageConfirmed`, `[]RecoveryConfirmed` | `Reliable` |
| `WebsiteMirrors`, `DownMeansOpen` | `Spec => []MirrorAgrees`, `[]DownWhileOpen` | `Reliable` |
| `FailuresCounted`, `NothingUnannounced` | `Spec => []FailedChecksCover`, `[]AnnouncementsComplete` | `Reliable` |
| `MembershipTyped` | `Spec => []TypeOK` | |
| `LastOwnerIsGuarded` | `Spec => LastOwnerGuarded` | |
| `OneIsPending`, `AcceptedAfterJoining` | `Spec => []OnePending`, `[]AcceptedHasJoined` | |
| `FinalInvitations`, `OwnershipConferred` | `Spec => InvitationsAreFinal`, `OwnershipIsConferred` | |
| `NobodyIsMailedTwice`, `TheCollectionIsTrue`, `NobodyIsLeftOut` | `NotifySpec => []AtMostOneEmail`, `[]NoticesAreTrue`, `[]EverybodyTold` | |
| `HttpTyped`, `OnlyAllowedSockets`, `LeaseOutlastsRequests` | `HttpSpec => []HttpTypeOK`, `[]ConnectsWhereAllowed`, `[]CheckFitsLease` | |
| `WorkerTyped`, `BatchIsTheLimit` | `WorkerSpec => []WorkerTypeOK`, `[]BatchBoundsWork` (at most a batch in work, all of it under a lease) | |
| `DrainedBeforeExit` | `WorkerSpec => DrainsBeforeExit` | |
| `LoopNeverDead`, `TicksEnd` | a running loop has a tick in flight or scheduled that can move, a shutdown its watchdog; a tick takes at most `2 * BatchSize + 2` steps, each leaving fewer, and no other step gives it more | |
| `AnnouncementsFollowLog` | `Notifications` moves its incident by the steps of `IncidentLog` | |
| `EveryAddressJudged` | every IPv4 address and every text of every IPv6 address is refused exactly if the code's list names it or what it carries | |
| `UnknownIsAdmitted` | addresses that are neither listed nor public unicast are admitted | |
| `KeysTell`, `StoredStays` | for any ports, equal keys exactly for the same website; the stored URL normalizes to itself | accepted URLs |
| `AddressesJudged`, `KeysTellWebsites` | `RulesSpec => []AddressesAgree`, `[]KeysNameWebsites` | |
| `RedirectsRunOut` | `NavSpec` follows at most two redirects, each request leaving fewer | the cookie names a live session |
| `DashTyped`, `NothingGoesBack` | `DashSpec => []DashTypeOK`, `[]NeverGoesBack` | |
| `EmptyIsTrue` | `TableSpec => []NothingIsTrue` | |
| `ReadOnce` | `FeedSpec => []IncidentsReadOnce` | |
| `BudgetsHold` | `LimiterSpec => []BudgetRespected` | |
| `FiguresAreTrue` | `StatsSpec => []FiguresAgree` | |
| `ChartAgrees`, `CombinedAgrees` | the same of any finite sets of checks and websites, at any times and with any buckets | |
| `ServicesImplement` | the `Spec` of `MCServices` implies the specification of each of its components | |
| `ServicesTyped`, `ServicesSafe` | `Spec => []ServicesTypeOK`, and every safety property of the run `Services` | |

`Reliable` is the absence of `crash`, `writeError` and `overlap`: the API's edits, of whatever kind,
are all admitted. None of the three can be dropped. A process that dies, or a save that fails,
between the insert of an incident and the write of the website leaves an incident the website does
not name (`FindStuckIncident`); without exclusive leases two pipelines overwrite each other's streaks. That
`StreaksGrowByOne` needs a website that nobody pauses meanwhile, or gives another URL, which restarts
the confirmation in the same way, is the finding of `FindStaleStreak`.

**The arguments.** *Types.* `TypeOK` alone is not inductive: an action on the incident a pipeline
holds needs it to be one. `Typed` adds `Consistent`, which says what a pipeline holds in which
place. *One open incident.* Only `OpenIncident` opens, and the index admits it only without another.
The proof needs that no other step makes an incident open or moves it, which is `Forward`, a
relation that every step satisfies and from which `HistoryIsKept` follows too. *Announcements.*
`NoticeSound` says that the event a pipeline is about to announce has happened to its incident, so
that the insert of an unused incident, or the update of an open one, cannot make a second pipeline
hold the same notice; `DispatchOwned` adds that a pipeline that is sending set the flag itself and
has sent nothing yet. *Status and counters.* `OutcomeCounted` says that past a successful check a
pipeline holds a success streak and no failures, and every edit writes status and streaks together.
*Leases.* `LeaseInv` says that a live website with a pipeline inside has a held lease, which nobody
can claim, and only one pipeline. *Refinement.* Each step maps to one step of the log or leaves it
as it is; `View` is the mapping applied to the incidents alone, so that all actions which do not
write them stutter. *Owners.* Nothing keeps the last owner while
edits overlap, so what is proved is when one goes. `TwoOwners`: a count that `IsLastOwner` does not
stop holds somebody besides the target. `EditMoves` says that an edit which takes ownership away
reaches its write only past that count, or having read its target as no owner, and the last
conjunct of `Admitted` keeps this until the write, where the counted one must be gone if nobody
is left.

*Streaks.* `Grows` says that a pipeline which has not yet counted its check remembers no more failures
than the website has, and one that has counted it at most one more, so that the save raises the
streak by at most one. Where nobody pauses the website or changes its URL only a pipeline's save writes its
streaks (`UneditedReading`), and the lease keeps every other pipeline out while one saves.
*Confirmation.* The six properties speak of the moments between checks, or of one place in the
pipeline, and none of them is inductive. `ConfirmInv` says what holds in every place between. Its
`Background` holds under every disturbance: references stay inside one website, only the children
of a deleted one are purged, flags not yet claimed are unclaimed, the status says what the website
names. `SiteInv` says who has the truth about a website. Until a pipeline has saved, its memory does
(`Phase`): it names the open incident, and its streaks are in the checks collection; when nobody is
inside, and once it has saved, the document does (`Recorded`). `Phase` also says what the decision
has established on the way: `opening` is reached with the threshold met and nothing open,
`adopting` is never reached, and before `counting` the incident has counted all failures but the
last. `Told` is the debt of announcements: what has happened to an incident has been announced,
or one pipeline still owes it. A step of one website leaves the others' as they are (`MoveFrame`);
an edit may lower streaks and change thresholds and status, and touches neither checks nor incidents
(`UndisturbedKept`); a deletion ends what is promised for its website.

*Invitations.* `SaveEffect` and `EndEffect` describe all the writers of an invitation: an upsert
takes the pending document of an address, or a fresh one where none is pending, and the others end
a pending document or let it expire. `AdmissionInv` says that an acceptance in flight holds a
document in use, addressed to its account, with a role an invitation may carry; that it marks the
document only once the account has joined; and that past the rank checks an edit that gives a
role is about somebody else. `Onward` is what requests that do not move rely on: a number of joins
never falls and an address never changes.

*Notices.* `Announced` says where a run can be. `Owns`: whoever is past the claim of an event is
alone with it and has not been cut short. `Recipients`: nobody still to be told is unwilling, and
everybody willing is either still to be told or settled. `AtOne`: the recipient at hand has a
pending document and at most the message just sent. `Untouched`: without a document there is no
message, and without a flag no document. `Sides` keeps the histories on the right side of what
people want now. A step of one run leaves the others theirs, since they have different events
(`OthersKeep`). *Sockets.* `Sound` adds to the types that what is connected to has passed the
validation of its own hop. *Time.* `WithinHops`: before every hop, at most one timeout has been
spent for each hop of this and the earlier attempts, so that the last ends within the lease.
*Batches.* `OneTick`: a tick lives in a running process only and with the timer not armed, before
its checks start it only claims, and then it claims nothing more; a claim needs room in the batch,
and everything else only makes the batch smaller. *Shutdown.* `Drained`: past the wait for the tick no
tick lives, and past the close of the health server no probe; the exit with code 0 is the step
after both (`CleanExit`). *Keys.* `StoredStays`: the stored form is a fixed point of the
normalization. `KeysTell`: keys agree exactly for one website, and stored forms with equal keys
differ in scheme, `www.` and slashes only. Both are lemmas about every URL of the model's form, with
any ports and any number of slashes; the theorem adds that answers are the function's.

*Views.* `UpToDate` is the reason why nothing goes back: outside the settings, whoever is told of a
newer version has by then asked anew, and given up the request under way, or the answer that may
be older carries its mark. So an answer still to arrive without a mark is as new as what has been
told, and so is a cache that waits for none. *Tables.* `TableInv` says of the page asked for, of the answer under way and of
the screen that each lies within the rows there are; a total that was counted earlier is no larger
than the one now, while nothing goes. *Histories.* `ReadSoFar` is a loop invariant of the pages: rows
in order, the cursor at the last row, and every incident that stayed is either listed or behind the
cursor. `PageContinues` carries it over one page, from `PageRead`, which says that a page holds the
first incidents behind the cursor in order. *Budgets.* A span of a
window's length meets two windows of a key at most. `WhileOpen` and `WhileClosed` bound what the time
behind the current window has allowed, within its reach, by one budget, and the window itself by
another, wherever the sweep has forgotten windows that were over.

*Addresses.* `KeptHigh` says what a mask leaves of the high half of a 32-bit number when the half is
signed, and `Wraps` that `>>> 0` undoes the sign; from them `Block8`, `Block16`, `Block24` and
`OddBlocks` say octet by octet what each kind of block contains, and `Blocks` what the list of blocks
does. `Span8` to `OddSpans` and `Between` say the same of the reference, out of the order of
addresses, so that both sides agree on all 2^32 addresses (`Ipv4Agrees`) and, with what an IPv6
address may carry, on all of eight groups (`Ipv6Agrees`). `SpellingParses` says that every text for
such an address is parsed back to it, wherever the "::" stands, by joining slices of the address
(`SliceJoin`, `GapText`). `EveryAddressJudged` is the sum of these; `AddressesJudged` applies it to
the questions of `RulesSpec`, and to texts that are no address.

*Figures.* A sum over a finite set is a fold, a recursive function over its subsets. What holds of it
is shown by the smallest counterexample: of the subsets for which it fails one has no smaller such
subset (`Smallest`, from the library's theorem that strict inclusion is well-founded on a finite
set), which needs no induction rule with an operator for a parameter. `Determined` and `Exists`: the
recursion has one solution. `SumTake`, `SumUnion` and `SumBetween`: a sum does not depend on the order
of its terms, splits over disjoint sets, and lies between as many times the least and the greatest
term. `Pieces`: the sum of a partition is the sum of the sums. With the arithmetic of flooring and
rounding (`Floored`, `RoundedNear`) they give an honest percentage (`HonestUptime`), an average
between the extremes (`Averaged`), buckets that hold every check once (`ChartAgrees`), and a combined
average at most a millisecond off (`CombinedAgrees`), for any checks and websites;
`FiguresAreTrue` applies them to the slots of the module.

*Composition.* `Next` of `MCServices` is a step of one component, or of none, and leaves the others'
variables alone; fairness is stated for the components' own actions. So `Spec` implies each
component's specification, and what is proved of the component holds of what the run checks. Only
addresses and URLs need an invariant more (`RulesAsked`), since their initial state is a choice
among questions: outside their own behaviours nothing is asked.

*Progress.* What the liveness properties need besides fairness is proved as safety: a measure that
every step of the component's own lowers, and that in a worker no other step raises. `CallsLeft`
ranks the places of a pipeline, `StepsLeft` counts what a tick has to claim, start, wait for and
finish, `RequestsLeft` the redirects of a navigation, where `TwoRedirects` says that a third would
lead where the second led; only the person, or what ends a session or a membership meanwhile, can
give a navigation more to do. `LoopNeverDead` adds that the step fairness is asked for is there to
be taken, with `TickCanMove`, the disjunction of the guards of `Tick`, in the place of ENABLED.
*Two models of one incident.*
`EntryLog` is `IncidentLog` with the incident of `Notifications` for its only entry. It begins open,
so what is stated is about its steps, not its first state: the two modules set the same flags
under the same conditions.

**Only model-checked.** Every invariant and every action property of the passing runs is stated by a
theorem. The five liveness properties (`NeverStranded`, `NamedOutageEnds`, `ShutdownEnds`,
`LoopSurvives`, `HonestNavigationEnds`) need fairness and ENABLED, which the provers cannot treat.

## 6. Plan

Every safety property of the runs is a theorem. Left to prove: the abstract log under `Reliable` with
an announcement for every event, as a second refinement of `IncidentLog`; and a measure for
`NamedOutageEnds`, the successes a website still lacks in calm times.

**Not modelled.** Wording, templates, logging, the audit trail (append only) and configuration
parsing have no state that another part reads back. Sessions and passwords are inside a library;
what the program does with its answers is in `Navigation`. The scanning of characters in URLs and
addresses, done by the `URL` class and regular expressions, is abstracted to the parts it finds. The
claims of slugs, the website cap and the unique key under concurrent edits rest on one unique index
or one count each, and the same hazards are modelled for members and incidents. The scopes of the
rate limit guard outside authentication differ from those modelled in their names only. Dialogs,
toasts and charts show what the modelled state holds.
