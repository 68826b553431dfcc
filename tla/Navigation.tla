----------------------------- MODULE Navigation -----------------------------
(***************************************************************************)
(* How one browser moves through the web application: the middleware, the  *)
(* server components that redirect, and the forms that sign in, sign out,  *)
(* register, create an organization and accept an invitation.  The session *)
(* cookie and the session it names are two things: the middleware sees the *)
(* cookie, the server components ask the API for the session.              *)
(***************************************************************************)
EXTENDS Naturals

Pages == {"home", "login", "register", "forgot", "reset", "verify", "confirmed", "onboarding",
          "accept", "dashboard"}

VARIABLES
  place,    \* the page the browser is at or asks for, and where the login form leads
  cookie,   \* the browser holds a session cookie
  session,  \* the session of that cookie is alive at the API
  account,  \* "none", "unverified", "verified"
  enrolled, \* the account belongs to an organization
  invite    \* the invitation link the person holds: "none", "mine", "others"

navVars == <<place, cookie, session, account, enrolled, invite>>
credentials == <<cookie, session, account, enrolled, invite>>

SignedIn == cookie /\ session

NavInit ==
  /\ place = [page |-> "home", shown |-> TRUE, next |-> "dashboard"]
  /\ account \in {"none", "verified"}
  /\ enrolled \in {FALSE, account = "verified"}
  /\ cookie \in {FALSE, account = "verified"}
  /\ session = cookie
  /\ invite \in {"none", "mine", "others"}

----------------------------------------------------------------------------
(* Requests and redirects.                                                 *)

GoTo(page, next) == place' = [page |-> page, shown |-> FALSE, next |-> next]

\* Mutant of SignedOutOnly: creating an organization counts as signing up.
SignedOutOrNew == {"login", "register", "forgot", "onboarding"}

SignedOutOnly == {"login", "register", "forgot"}

\* middleware: a decision on the presence of the cookie alone.
Middleware(page) ==
  IF page = "dashboard" /\ ~cookie THEN "login"
  ELSE IF page \in SignedOutOnly /\ cookie THEN "dashboard"
  ELSE page

\* The server components, which ask the API for the session.
DashboardLayout ==
  IF ~SignedIn THEN "login"
  ELSE IF account # "verified" THEN "verify"
  ELSE IF ~enrolled THEN "onboarding"
  ELSE "dashboard"

OnboardingPage ==
  IF ~SignedIn THEN "login" ELSE IF account # "verified" THEN "verify" ELSE "onboarding"

Rendered(page) ==
  CASE page = "dashboard"  -> DashboardLayout
    [] page = "onboarding" -> OnboardingPage
    [] OTHER               -> page

\* One request: the middleware redirects, or the page does, or the page is shown.
Follow ==
  /\ ~place.shown
  /\ LET passed == Middleware(place.page)
         target == IF passed # place.page THEN passed ELSE Rendered(place.page)
     IN IF target = place.page
        THEN place' = [place EXCEPT !.shown = TRUE]
        ELSE GoTo(target, IF target = "login" THEN place.page ELSE "dashboard")
  /\ UNCHANGED credentials

\* An address typed, a bookmark, a link of the page.
Visit(page) ==
  /\ place.shown
  /\ GoTo(page, "dashboard")
  /\ UNCHANGED credentials

----------------------------------------------------------------------------
(* The forms.                                                              *)

At(page) == place.shown /\ place.page = page

\* LoginForm: an account that is verified gets a session and goes on to its destination.
SignIn ==
  /\ At("login")
  /\ account = "verified"
  /\ cookie' = TRUE /\ session' = TRUE
  /\ GoTo(place.next, "dashboard")
  /\ UNCHANGED <<account, enrolled, invite>>

\* The answer to a sign-in before the address is confirmed, and the link it shows.
SignInUnverified ==
  /\ At("login")
  /\ account = "unverified"
  /\ GoTo("verify", "dashboard")
  /\ UNCHANGED credentials

Register ==
  /\ At("register")
  /\ account = "none"
  /\ account' = "unverified"
  /\ GoTo("verify", "dashboard")
  /\ UNCHANGED <<cookie, session, enrolled, invite>>

\* The confirmation link: Better Auth verifies, signs in and redirects.
Confirm ==
  /\ place.shown
  /\ account = "unverified"
  /\ account' = "verified"
  /\ cookie' = TRUE /\ session' = TRUE
  /\ GoTo("confirmed", "dashboard")
  /\ UNCHANGED <<enrolled, invite>>

\* ResetPasswordForm: every session of the account ends; the cookie of this browser is
\* left where it is, and the form leads to the login page.
ResetPassword ==
  /\ At("reset")
  /\ account = "verified"
  /\ session' = FALSE
  /\ GoTo("login", "dashboard")
  /\ UNCHANGED <<cookie, account, enrolled, invite>>

\* SignOutButton, in the shell of the dashboard.
SignOut ==
  /\ At("dashboard")
  /\ cookie' = FALSE /\ session' = FALSE
  /\ GoTo("login", "dashboard")
  /\ UNCHANGED <<account, enrolled, invite>>

\* CreateOrganizationForm, whose owner is a member at once.
CreateOrganization ==
  /\ At("onboarding")
  /\ SignedIn
  /\ enrolled' = TRUE
  /\ GoTo("dashboard", "dashboard")
  /\ UNCHANGED <<cookie, session, account, invite>>

\* AcceptInvitation, tried as soon as the page is there.
Accept ==
  /\ At("accept")
  /\ SignedIn /\ account = "verified" /\ invite = "mine"
  /\ enrolled' = TRUE
  /\ invite' = "none"
  /\ GoTo("dashboard", "dashboard")
  /\ UNCHANGED <<cookie, session, account>>

\* The link of the page when the API wants another sign-in: signed out, or signed in
\* with an address that is not the invited one.
AcceptElsewhere ==
  /\ At("accept")
  /\ ~SignedIn \/ invite = "others"
  /\ GoTo("login", "accept")
  /\ UNCHANGED credentials

----------------------------------------------------------------------------
(* What happens elsewhere.                                                 *)

\* A password reset in another browser, or the expiry at the API.
SessionEnds ==
  /\ session
  /\ session' = FALSE
  /\ UNCHANGED <<place, cookie, account, enrolled, invite>>

\* The browser drops the cookie: its age, or cleared by hand.
CookieEnds ==
  /\ cookie
  /\ cookie' = FALSE /\ session' = FALSE
  /\ UNCHANGED <<place, account, enrolled, invite>>

\* The membership is removed, or an invitation is accepted in another browser.
MembershipChanges ==
  /\ account = "verified"
  /\ enrolled' = ~enrolled
  /\ UNCHANGED <<place, cookie, session, account, invite>>

Forms ==
  \/ SignIn \/ SignInUnverified \/ Register \/ Confirm \/ ResetPassword \/ SignOut
  \/ CreateOrganization \/ Accept \/ AcceptElsewhere

NavNext ==
  \/ Follow
  \/ \E page \in Pages : Visit(page)
  \/ Forms
  \/ SessionEnds \/ CookieEnds \/ MembershipChanges

\* The browser follows every redirect; what people do is not promised.
NavFairness == WF_navVars(Follow)
NavSpec == NavInit /\ [][NavNext]_navVars /\ NavFairness

----------------------------------------------------------------------------
(* Properties.                                                             *)

NavTypeOK ==
  /\ place \in [page : Pages, shown : BOOLEAN, next : Pages]
  /\ {cookie, session, enrolled} \subseteq BOOLEAN
  /\ account \in {"none", "unverified", "verified"}
  /\ invite \in {"none", "mine", "others"}

\* Every navigation comes to a page (middleware.ts, dashboard/layout.tsx).
NavigationEnds == []<>(place.shown)

\* Middleware and pages, which look at different things, never redirect to each other for
\* ever while the cookie a browser holds names a session that is alive.
HonestNavigationEnds == <>[](cookie => session) => []<>(place.shown)
=============================================================================
