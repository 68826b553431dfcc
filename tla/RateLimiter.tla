---------------------------- MODULE RateLimiter -----------------------------
(***************************************************************************)
(* The fixed-window rate limiter in front of the authentication routes:    *)
(* one count per scope and client, opened by the first request of a        *)
(* window, and expired counts swept away by a later request of anybody.    *)
(***************************************************************************)
EXTENDS Naturals

CONSTANTS
  Clients,        \* client addresses
  CredentialLimit, DefaultLimit,    \* requests allowed per window
  SweepInterval,  \* time between two sweeps
  MaxTime         \* bound on the clock

\* A sweep that can fall inside a window, as with 1, 15 and 60 minutes.
ASSUME LimiterAssumption ==
  /\ CredentialLimit \in Nat \ {0} /\ DefaultLimit \in Nat \ {0}
  /\ SweepInterval \in Nat \ {0} /\ MaxTime \in Nat

VARIABLES
  now,        \* the clock
  windows,    \* key -> the count and end of its window, or NoWindow
  lastSweep,  \* time of the last sweep
  followed,   \* the key whose history is kept
  granted,    \* history: time -> requests of the followed key allowed until then
  refused     \* history: a request of the followed key was refused at this very time

limiterVars == <<now, windows, lastSweep, followed, granted, refused>>

----------------------------------------------------------------------------
(* Routes and their budgets.                                               *)

Routes == {"sign-in", "sign-up", "request-password-reset", "reset-password",
           "send-verification-email", "get-session"}

\* Signing in and signing up share a budget, and so do the routes that send an email.
ScopeOf(route) ==
  CASE route \in {"sign-in", "sign-up"} -> "auth-credentials"
    [] route \in {"request-password-reset", "reset-password", "send-verification-email"} -> "auth-email"
    [] OTHER -> "auth-general"

Scopes == {ScopeOf(route) : route \in Routes}
Keys == Scopes \X Clients

Larger(a, b) == IF a > b THEN a ELSE b

\* The windows of 15, 60 and 1 minutes are scaled to 2, 3 and 1.
Window(scope) ==
  CASE scope = "auth-credentials" -> 2 [] scope = "auth-email" -> 3 [] OTHER -> 1

Limit(scope) ==
  CASE scope = "auth-credentials" -> CredentialLimit
    [] scope = "auth-email" -> Larger(3, CredentialLimit \div 2)
    [] OTHER -> DefaultLimit

NoWindow == [count |-> 0, resetAt |-> 0]

LimiterInit ==
  /\ now = 0 /\ lastSweep = 0
  /\ windows = [key \in Keys |-> NoWindow]
  /\ followed \in Keys
  /\ granted = [t \in 0..MaxTime |-> 0] /\ refused = FALSE

----------------------------------------------------------------------------
(* consume.                                                                *)

\* Mutant of Swept: every window is dropped, not the expired ones only.
SweptEntirely ==
  IF now - lastSweep < SweepInterval THEN windows
  ELSE [key \in Keys |-> NoWindow]

\* The windows after the sweep that opens every request.
Swept ==
  IF now - lastSweep < SweepInterval THEN windows
  ELSE [key \in Keys |-> IF windows[key].resetAt <= now THEN NoWindow ELSE windows[key]]

\* One request: it opens a window, or counts in the one that is open.
Consume(key) ==
  LET scope == key[1]
      open == Swept[key].resetAt > now
      window == IF open THEN [Swept[key] EXCEPT !.count = @ + 1]
                ELSE [count |-> 1, resetAt |-> now + Window(scope)]
      allowed == open => window.count <= Limit(scope)
  IN /\ windows' = [Swept EXCEPT ![key] = window]
     /\ lastSweep' = IF now - lastSweep < SweepInterval THEN lastSweep ELSE now
     /\ granted' = IF allowed /\ key = followed
                   THEN [t \in 0..MaxTime |-> granted[t] + IF t < now THEN 0 ELSE 1] ELSE granted
     /\ refused' = (refused \/ (key = followed /\ ~allowed))
     /\ UNCHANGED <<now, followed>>

\* A request to a route.  A client stops one past the limit: counts beyond it tell nothing.
Request(route, client) ==
  LET key == <<ScopeOf(route), client>>
  IN /\ windows[key].count <= Limit(key[1]) \/ windows[key].resetAt <= now
     /\ Consume(key)

Pass ==
  /\ now < MaxTime
  /\ now' = now + 1 /\ refused' = FALSE
  /\ UNCHANGED <<windows, lastSweep, followed, granted>>

LimiterNext == Pass \/ \E route \in Routes, client \in Clients : Request(route, client)

LimiterSpec == LimiterInit /\ [][LimiterNext]_limiterVars

----------------------------------------------------------------------------
(* Properties.                                                             *)

\* The variables have their types.
LimiterTypeOK ==
  /\ now \in 0..MaxTime /\ lastSweep \in 0..MaxTime
  /\ windows \in [Keys -> [count : Nat, resetAt : Nat]]
  /\ \A key \in Keys : /\ windows[key].count \in 0..(Limit(key[1]) + 1)
                       /\ windows[key].resetAt \in 0..(MaxTime + Window(key[1]))
  /\ followed \in Keys /\ granted \in [0..MaxTime -> Nat] /\ refused \in BOOLEAN

\* The requests of the followed key allowed before a time, and from one time to another.
AllowedBefore(t) == IF t = 0 THEN 0 ELSE granted[IF t > MaxTime THEN MaxTime ELSE t - 1]
AllowedBetween(from, to) == AllowedBefore(to + 1) - AllowedBefore(from)

\* No client gets more than twice a budget within the length of its window, wherever that
\* falls, alternating routes of one scope or not; and one that is refused has had its
\* whole budget within the window before, whatever the sweeps forgot meanwhile.
BudgetRespected ==
  LET length == Window(followed[1])
      limit == Limit(followed[1])
  IN /\ \A from \in 0..now : AllowedBetween(from, from + length - 1) <= 2 * limit
     /\ refused => \E from \in 0..now : now < from + length /\ AllowedBetween(from, now) >= limit
=============================================================================
