----------------------------- MODULE HttpCheck -----------------------------
(***************************************************************************)
(* One check of one website by the worker: checkWebsiteWithRetries around  *)
(* checkWebsite (check-with-retries.ts, http-checker.ts, safe-lookup.ts,   *)
(* address-guard.ts).  Every hop of every attempt validates the URL, then  *)
(* resolves, connects and asks; the name server and the web server answer  *)
(* anything, differently each time.                                        *)
(***************************************************************************)
EXTENDS Integers

CONSTANTS
  MaxRedirects,  \* MONITOR_MAX_REDIRECTS
  MaxAttempts,   \* MONITOR_MAX_ATTEMPTS
  Timeout        \* the longest request timeout a website may configure

ASSUME HttpAssumption ==
  /\ MaxRedirects \in Nat
  /\ MaxAttempts \in Nat \ {0}
  /\ Timeout \in Nat \ {0}

VARIABLES
  allowLoopback, \* MONITOR_ALLOW_PRIVATE_ADDRESSES
  origin,        \* the target the website is stored with
  check,         \* where the check is: attempt, hop, target, outcome
  opened,        \* history: the kinds of address a socket was opened to
  spent          \* history: time spent in requests, each of which a timer ends

httpVars == <<allowLoopback, origin, check, opened, spent>>

\* What validation finds in a URL: a public name, a public address, loopback, another
\* internal target, or no http URL at all.
Targets == {"name", "literal", "loopback", "internal", "invalid"}
AddressKinds == {"public", "loopback", "private"}
ErrorTypes == {"dns_failure", "connection_reset", "timeout", "ssl_error",
               "too_many_redirects", "blocked_target", "invalid_url", "http_error", "unknown"}
Ongoing == [status |-> "none", errorType |-> "none"]
Outcomes == [status : {"none", "up", "down", "timeout", "error"},
             errorType : ErrorTypes \cup {"none"}]

\* LEASE_DURATION_MS, whose last 30 seconds are for the writes and the mail.
LeaseForRequests == Timeout * (MaxRedirects + 1) * MaxAttempts

HttpInit ==
  /\ allowLoopback \in BOOLEAN
  /\ origin \in {"name", "literal"} \cup (IF allowLoopback THEN {"loopback"} ELSE {})
  /\ check = [at |-> "validate", attempt |-> 1, redirects |-> 0, target |-> origin,
              outcome |-> Ongoing]
  /\ opened = {}
  /\ spent = 0

----------------------------------------------------------------------------
statusForError(type) ==
  IF type = "timeout" THEN "timeout" ELSE IF type = "http_error" THEN "down" ELSE "error"

Failure(type) == [status |-> statusForError(type), errorType |-> type]

\* Success, or a rejection that would be the same next time.
Final(outcome) == outcome.status = "up" \/ outcome.errorType \in {"blocked_target", "invalid_url"}

\* The end of checkWebsite: the outcome of the attempt, and another attempt when it may
\* go better.
EndAttempt(outcome) ==
  check' = IF Final(outcome) \/ check.attempt = MaxAttempts
           THEN [check EXCEPT !.at = "done", !.outcome = outcome]
           ELSE [check EXCEPT !.at = "validate", !.attempt = @ + 1, !.redirects = 0,
                              !.target = origin]

\* Mutant of Acceptable: only the URL of the website is validated, no redirect.
AcceptableAtFirst(target) ==
  check.redirects > 0 \/ target \in {"name", "literal"} \cup (IF allowLoopback THEN {"loopback"} ELSE {})

\* validateHopUrl.
Acceptable(target) ==
  target \in {"name", "literal"} \cup (IF allowLoopback THEN {"loopback"} ELSE {})

ValidateHop ==
  /\ check.at = "validate"
  /\ IF Acceptable(check.target)
     THEN check' = [check EXCEPT !.at = "connect"]
     ELSE EndAttempt(Failure(IF check.target = "invalid" THEN "invalid_url" ELSE "blocked_target"))
  /\ UNCHANGED <<allowLoopback, origin, opened, spent>>

\* The addresses of a lookup that checkAddress allows.
Permitted(addresses) ==
  addresses \cap ({"public"} \cup (IF allowLoopback THEN {"loopback"} ELSE {}))

Connects(address) ==
  /\ opened' = opened \cup {address}
  /\ check' = [check EXCEPT !.at = "ask"]
  /\ UNCHANGED spent

\* A name is resolved by the safe lookup, anew for every connection; an address is
\* connected to as it is, as Node skips the lookup.
Connect ==
  /\ check.at = "connect"
  /\ \/ check.target = "literal" /\ Connects("public")
     \/ check.target = "loopback" /\ Connects("loopback")
     \/ /\ check.target = "name"
        /\ \E addresses \in SUBSET AddressKinds :
             \/ \E a \in Permitted(addresses) : Connects(a)
             \/ /\ Permitted(addresses) = {}
                /\ EndAttempt(Failure("blocked_target"))
                /\ spent' = spent + Timeout
                /\ UNCHANGED opened
  /\ UNCHANGED <<allowLoopback, origin>>

\* The error codes the code knows, and how deep in the chain of causes one may be: the
\* walk looks at five.
ChainDepth == 0..5
classifyError(type, depth) == IF depth < 5 THEN type ELSE "unknown"

\* The request throws, at the lookup or later: spent is at most what the timer allows.
RequestFails ==
  /\ check.at \in {"connect", "ask"}
  /\ check.at = "connect" => check.target = "name"
  /\ spent' = spent + Timeout
  /\ \E type \in {"dns_failure", "connection_reset", "timeout", "ssl_error", "unknown"},
        depth \in ChainDepth : EndAttempt(Failure(classifyError(type, depth)))
  /\ UNCHANGED <<allowLoopback, origin, opened>>

\* Mutant of MayFollow: one redirect too many.
MayFollowOneMore(redirects) == redirects <= MaxRedirects

MayFollow(redirects) == redirects < MaxRedirects

\* The server answers with a status and, perhaps, a location.
Answer ==
  /\ check.at = "ask"
  /\ spent' = spent + Timeout
  /\ \/ EndAttempt([status |-> "up", errorType |-> "none"])
     \/ EndAttempt(Failure("http_error"))
     \/ /\ MayFollow(check.redirects)
        /\ \E next \in Targets :
             check' = [check EXCEPT !.at = "validate", !.redirects = @ + 1, !.target = next]
     \/ /\ MayFollow(check.redirects)     \* a location that is no URL
        /\ EndAttempt(Failure("unknown"))
     \/ /\ ~MayFollow(check.redirects)
        /\ EndAttempt([status |-> "down", errorType |-> "too_many_redirects"])
  /\ UNCHANGED <<allowLoopback, origin, opened>>

HttpNext == ValidateHop \/ Connect \/ RequestFails \/ Answer

HttpSpec == HttpInit /\ [][HttpNext]_httpVars

----------------------------------------------------------------------------
(* Properties.                                                             *)

HttpTypeOK ==
  /\ allowLoopback \in BOOLEAN
  /\ origin \in {"name", "literal", "loopback"}
  /\ check \in [at : {"validate", "connect", "ask", "done"}, attempt : 1..MaxAttempts,
                redirects : 0..MaxRedirects, target : Targets, outcome : Outcomes]
  /\ opened \in SUBSET AddressKinds
  /\ spent \in Nat

\* However the names resolve and wherever the redirects lead, no socket is opened to an
\* address that is not public, but to loopback when the worker is set to allow it.
ConnectsWhereAllowed ==
  opened \subseteq {"public"} \cup (IF allowLoopback THEN {"loopback"} ELSE {})

\* The requests of one check, all attempts and hops together, take no longer than the
\* lease the website was claimed with allows for them (main.ts, LEASE_DURATION_MS).
CheckFitsLease == spent <= LeaseForRequests
=============================================================================
