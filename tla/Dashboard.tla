----------------------------- MODULE Dashboard ------------------------------
(***************************************************************************)
(* One tab of the dashboard: a view, the query cache behind it, and the    *)
(* server it reads and changes.  Every request but those of the members    *)
(* view names its organization by the cookie at the moment it is sent, and *)
(* every answer is cached under the organization the view shows.           *)
(*                                                                         *)
(* The organizations are alike, and the module follows what is cached for  *)
(* one of them: what it holds is a version number that every change        *)
(* increments, and its entry holds nothing, an answer of its own at some   *)
(* version, or an answer that another organization gave.                   *)
(***************************************************************************)
EXTENDS Naturals

CONSTANTS
  Views,    \* the views followed, one of them in a behaviour
  MaxVersion  \* bound on the changes to the followed organization

ASSUME DashboardAssumption ==
  /\ Views \subseteq {"overview", "incidents", "websites", "website", "members", "settings"}
  /\ MaxVersion \in Nat

Orgs == {"this", "other"}
Roles == {"owner", "admin", "member"}

VARIABLES
  view,     \* [on: the view of this behaviour, role: the person's role when the tab was
            \* rendered, mounted: the view is on screen]
  shown,    \* the organization the tab was rendered for
  jar,      \* the organization named by the cookie, which all tabs share
  pending,  \* a refresh of the server components is under way
  store,    \* [version: what the organization holds, gone: the website was deleted]
  cache,    \* what the query cache holds under the organization's key
  fetch,    \* the request under way for that key
  change,   \* the change the person is making
  told      \* history: the newest version the person has been shown, or told is saved

(* cache.overtaken and fetch.overtaken are history as well: the person has been told of a  *)
(* newer version since the API answered, and it has not been asked for.                    *)

dashVars == <<view, shown, jar, pending, store, cache, fetch, change, told>>
tab == <<view, shown, jar, pending>>

Entry(held, at) ==
  [held |-> held, at |-> at, stale |-> FALSE, failed |-> FALSE, overtaken |-> FALSE]
Empty == Entry("nothing", 0)
Idle == [leg |-> "none", to |-> "this", at |-> 0, overtaken |-> FALSE]
NoChange == [phase |-> "idle", what |-> "none", to |-> "this", at |-> 0]

----------------------------------------------------------------------------
(* What the person may do.                                                 *)

Permits(role) ==
  CASE role = "owner"  -> {"save", "create", "edit", "delete", "invite", "manage"}
    [] role = "admin"  -> {"save", "create", "edit", "delete", "invite"}
    [] role = "member" -> {"save"}

\* What is on screen for a cache entry: an error hides data held from before.
Screen(entry) ==
  IF entry.failed THEN "error" ELSE IF entry.held # "nothing" THEN "data" ELSE "loading"

\* The controls of each view that send something, by what it shows.
OverviewControls(screen) == {}

IncidentsControls(screen) == IF screen = "error" THEN {"retry"} ELSE {}

TableControls(screen) == IF screen = "error" THEN {"retry"} ELSE {"create"}

DetailControls(screen) == IF screen = "data" THEN {"edit", "delete"} ELSE {}

MembersControls(screen) ==
  CASE screen = "error" -> {"retry"}
    [] screen = "data"  -> {"invite", "manage"}
    [] OTHER            -> {}

SettingsControls(screen) == IF screen = "data" THEN {"save"} ELSE {}

Controls(screen) ==
  CASE view.on = "overview"  -> OverviewControls(screen)
    [] view.on = "incidents" -> IncidentsControls(screen)
    [] view.on = "websites"  -> TableControls(screen)
    [] view.on = "website"   -> DetailControls(screen)
    [] view.on = "members"   -> MembersControls(screen)
    [] view.on = "settings"  -> SettingsControls(screen)

\* The views that ask again every 30 or 60 seconds.
Polling == {"overview", "website"}

----------------------------------------------------------------------------
(* Requests.                                                               *)

\* The organization a request for a key reaches: the one in its path for the members view,
\* else the one in its header, which is the cookie's at the time of sending.
Target(key) == IF view.on = "members" THEN key ELSE jar

Sent == [leg |-> "out", to |-> Target("this"), at |-> 0, overtaken |-> FALSE]

\* The API has what is asked for: a website is looked up within the organization.
Has(org) == view.on = "website" => org = "this" /\ ~store.gone

\* useQuery on a key it did not observe before: it asks unless it holds fresh data.
Observe(key) ==
  fetch' = IF key = "this" /\ fetch.leg = "none" /\ (cache.held = "nothing" \/ cache.stale)
           THEN Sent ELSE fetch

\* The tab has just been loaded: the shell has synchronised the cookie.
DashInit ==
  /\ view \in [on : Views, role : Roles, mounted : {TRUE}]
  /\ shown = "this" /\ jar = "this" /\ pending = FALSE
  /\ store = [version |-> 0, gone |-> FALSE]
  /\ cache = Empty /\ fetch = Sent /\ change = NoChange /\ told = 0

\* The API answers: it refuses, because the membership has ended meanwhile or it does not
\* have the website, or it tells what the organization holds.
Serve ==
  /\ fetch.leg = "out"
  /\ \/ fetch' = [Idle EXCEPT !.leg = "refused"]
     \/ /\ Has(fetch.to)
        /\ fetch' = [fetch EXCEPT !.leg = "back",
                                  !.at = IF fetch.to = "this" THEN store.version ELSE 0]
  /\ UNCHANGED <<tab, store, cache, change, told>>

\* A request is over: the change that waited for it ends, a deletion by leaving the view.
Settle(key) ==
  IF change.phase = "refreshing" /\ change.to = key
  THEN /\ change' = NoChange
       /\ view' = [view EXCEPT !.mounted = @ /\ change.what # "delete"]
  ELSE UNCHANGED <<change, view>>

\* An answer arrives.
Arrive ==
  /\ fetch.leg = "back"
  /\ fetch' = Idle
  /\ cache' = [Entry(IF fetch.to = "this" THEN "own" ELSE "foreign", fetch.at)
                 EXCEPT !.overtaken = fetch.overtaken]
  /\ told' = IF view.mounted /\ shown = "this" /\ fetch.at > told THEN fetch.at ELSE told
  /\ Settle("this")
  /\ UNCHANGED <<shown, jar, pending, store>>

GiveUp ==
  /\ fetch' = Idle
  /\ cache' = [cache EXCEPT !.failed = TRUE, !.stale = TRUE]
  /\ Settle("this")

\* A refusal (4xx) arrives: it is not retried.
Refused ==
  /\ fetch.leg = "refused"
  /\ GiveUp
  /\ UNCHANGED <<shown, jar, pending, store, told>>

\* No answer, or a server error: another attempt, which reads the cookie anew, or, after
\* two of them, the error.  The attempts are not counted.
AttemptFails ==
  /\ fetch.leg \in {"out", "back"}
  /\ \/ fetch' = Sent /\ UNCHANGED <<cache, change, view>>
     \/ GiveUp
  /\ UNCHANGED <<shown, jar, pending, store, told>>

\* staleTime passes.
GoesStale ==
  /\ cache.held # "nothing" /\ ~cache.stale
  /\ cache' = [cache EXCEPT !.stale = TRUE]
  /\ UNCHANGED <<tab, store, fetch, change, told>>

\* The polling interval, a reconnection, or "Try again".
Refetch ==
  /\ view.mounted /\ shown = "this" /\ fetch.leg = "none"
  /\ view.on \in Polling \/ cache.stale \/ "retry" \in Controls(Screen(cache))
  /\ fetch' = Sent
  /\ UNCHANGED <<tab, store, cache, change, told>>

----------------------------------------------------------------------------
(* Moving between organizations and views.                                 *)

\* OrganizationSwitcher: the cookie first, then a refresh of the server components.
Select(org) ==
  /\ org # shown
  /\ jar' = org /\ pending' = TRUE
  /\ UNCHANGED <<view, shown, store, cache, fetch, change, told>>

\* The refreshed tree arrives, for the organization of the cookie, or for the other one if
\* the membership of that one has ended.  The cookie is not synchronised again.
Refreshed(org) ==
  /\ pending
  /\ pending' = FALSE /\ shown' = org
  /\ IF view.mounted THEN Observe(org) ELSE UNCHANGED fetch
  /\ UNCHANGED <<view, jar, store, cache, change, told>>

\* Another tab of the browser selects an organization.
OtherTab(org) ==
  /\ org # jar
  /\ jar' = org
  /\ UNCHANGED <<view, shown, pending, store, cache, fetch, change, told>>

\* The person leaves the view; what is under way goes on.
Leave ==
  /\ view.mounted
  /\ view' = [view EXCEPT !.mounted = FALSE]
  /\ UNCHANGED <<shown, jar, pending, store, cache, fetch, change, told>>

Return ==
  /\ ~view.mounted
  /\ view' = [view EXCEPT !.mounted = TRUE]
  /\ Observe(shown)
  /\ UNCHANGED <<shown, jar, pending, store, cache, change, told>>

----------------------------------------------------------------------------
(* Changes.                                                                *)

\* A mutation is sent; one at a time here, and mutations are never retried.  The screen of
\* the other organization may be any.
Change(what) ==
  /\ view.mounted /\ change.phase = "idle"
  /\ what \in Permits(view.role)
  /\ \E screen \in {"loading", "error", "data"} :
       (shown = "this" => screen = Screen(cache)) /\ what \in Controls(screen)
  /\ change' = [phase |-> "sent", what |-> what, to |-> Target(shown), at |-> 0]
  /\ UNCHANGED <<tab, store, cache, fetch, told>>

\* The API makes the change.
Commit ==
  LET this == change.to = "this"
      at == IF this THEN store.version + 1 ELSE 0
  IN /\ change.phase = "sent" /\ Has(change.to) /\ at <= MaxVersion
     /\ store' = [version |-> IF this THEN at ELSE store.version,
                  gone |-> store.gone \/ change.what = "delete"]
     /\ change' = [change EXCEPT !.phase = "done", !.at = at]
     /\ UNCHANGED <<tab, cache, fetch, told>>

\* The request under way, or none, stays as the person is told that a version is saved (0:
\* is told nothing): an older answer that the API has given already is overtaken.
Stays(saved) == [fetch EXCEPT !.overtaken = @ \/ (fetch.leg = "back" /\ fetch.at < saved)]

\* Mutant of Invalidate: a request already under way is taken for the new one.
InvalidateKeepsRequest(saved) ==
  /\ cache' = [cache EXCEPT !.stale = TRUE]
  /\ fetch' = IF view.mounted /\ fetch.leg = "none" THEN Sent
              ELSE IF cache.held = "nothing" THEN Stays(saved) ELSE fetch

\* invalidateQueries: the entry is marked, and asked for anew if it is on screen; a request
\* under way is cancelled if the entry holds data, and else awaited.
Invalidate(saved) ==
  /\ cache' = [cache EXCEPT !.stale = TRUE]
  /\ fetch' = IF view.mounted /\ (cache.held # "nothing" \/ fetch.leg = "none") THEN Sent
              ELSE Stays(saved)

\* The answer to a change, which tells the person, if the view is still there, that it is
\* saved.  The settings form writes it into the cache and cancels nothing; the others
\* invalidate the key of the organization shown by now, and all but the invitation form
\* stay busy until it has been read again.
ChangeAnswered ==
  LET own == change.to = "this"
      saved == IF view.mounted /\ own THEN change.at ELSE 0
  IN /\ change.phase = "done"
     /\ IF shown # "this"
        THEN cache' = [cache EXCEPT !.overtaken = @ \/ cache.at < saved] /\ fetch' = Stays(saved)
        ELSE IF change.what = "save"
        THEN cache' = Entry(IF own THEN "own" ELSE "foreign", change.at) /\ UNCHANGED fetch
        ELSE Invalidate(saved)
     /\ change' = IF view.mounted /\ change.what \notin {"save", "invite"}
                  THEN [change EXCEPT !.phase = "refreshing", !.to = shown, !.at = 0]
                  ELSE NoChange
     /\ told' = IF saved > told THEN saved ELSE told
     /\ UNCHANGED <<tab, store>>

\* The other organization has been read again.
OtherSettles ==
  /\ change.phase = "refreshing" /\ change.to = "other"
  /\ Settle("other")
  /\ UNCHANGED <<shown, jar, pending, store, cache, fetch, told>>

\* A refusal, or no answer at all, which does not say whether the change was made.
ChangeFails ==
  /\ change.phase \in {"sent", "done"}
  /\ change' = NoChange
  /\ UNCHANGED <<tab, store, cache, fetch, told>>

\* Somebody else changes the organization, or deletes the website of the website view.
OthersEdit ==
  /\ store.version < MaxVersion
  /\ \E gone \in {store.gone, view.on = "website"} :
       store' = [version |-> store.version + 1, gone |-> store.gone \/ gone]
  /\ UNCHANGED <<tab, cache, fetch, change, told>>

DashNext ==
  \/ Serve \/ Arrive \/ Refused \/ AttemptFails \/ GoesStale \/ Refetch
  \/ \E org \in Orgs : Select(org) \/ Refreshed(org) \/ OtherTab(org)
  \/ Leave \/ Return
  \/ \E what \in Permits("owner") : Change(what)
  \/ Commit \/ ChangeAnswered \/ OtherSettles \/ ChangeFails \/ OthersEdit

DashSpec == DashInit /\ [][DashNext]_dashVars

----------------------------------------------------------------------------
(* Properties.                                                             *)

\* The variables have their types.
DashTypeOK ==
  /\ view \in [on : Views, role : Roles, mounted : BOOLEAN]
  /\ shown \in Orgs /\ jar \in Orgs /\ pending \in BOOLEAN
  /\ store \in [version : 0..MaxVersion, gone : BOOLEAN]
  /\ cache \in [held : {"nothing", "own", "foreign"}, at : 0..MaxVersion,
                stale : BOOLEAN, failed : BOOLEAN, overtaken : BOOLEAN]
  /\ fetch \in [leg : {"none", "out", "back", "refused"}, to : Orgs, at : 0..MaxVersion,
                overtaken : BOOLEAN]
  /\ change \in [phase : {"idle", "sent", "done", "refreshing"},
                 what : Permits("owner") \cup {"none"}, to : Orgs, at : 0..MaxVersion]
  /\ told \in 0..MaxVersion

\* A view at rest never shows less than the person has already been shown, or has been told
\* is saved, unless the answer it shows was overtaken: whatever polls, retries, switches of
\* organization and other people's edits were under way, an answer served before a change
\* never replaces one served after it.  Overtaken answers are what the code leaves open, and
\* only until the next answer: a change confirmed while the first load has been answered but
\* not received (the table of websites offers "Add website" by then, and what invalidates
\* the key cancels no request of an entry that holds nothing), and a change confirmed while
\* the other organization is on screen, whose key is invalidated instead of this one's.  The
\* settings form is excepted: it cancels nothing, and an older answer does replace the saved
\* preference.
NeverGoesBack ==
  view.mounted /\ shown = "this" /\ view.on # "settings" /\ fetch.leg = "none"
  /\ Screen(cache) = "data" /\ cache.held = "own" /\ ~cache.overtaken
  => cache.at >= told
=============================================================================
