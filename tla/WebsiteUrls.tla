---------------------------- MODULE WebsiteUrls ----------------------------
(***************************************************************************)
(* normalizeWebsiteUrl (packages/shared/src/url/normalize.ts): what a      *)
(* person types becomes the URL a website is stored with and the key that  *)
(* tells whether the organization has it already; the worker puts the      *)
(* stored URL through the same function before every request.  Together    *)
(* with the classification of addresses it uses (Addresses), asked one     *)
(* question per behaviour.                                                 *)
(***************************************************************************)
EXTENDS Addresses, FiniteSets

VARIABLES
  asked,   \* the address or the URL in question
  answer   \* what the code says of it, empty before

ruleVars == <<asked, answer>>

\* A URL by what the function tells apart: its scheme, whether it names a user, the
\* kind of its host ("name" is a public domain), www. and the root dot, its port, its
\* path (a segment and the slashes behind it), its query and its fragment.
Hosts == {"name", "label", "internal", "publicIp", "blockedIp", "none"}
Blank == [scheme |-> "none", user |-> FALSE, host |-> "none", www |-> FALSE, dot |-> FALSE,
          port |-> "none", segment |-> FALSE, slashes |-> 0, query |-> FALSE,
          fragment |-> FALSE]

\* Text such as acme.com:8443 or user:secret@acme.com reads as a scheme of its own,
\* which an address does not.
HasScheme(u) == u.scheme # "none" \/ u.user \/ (u.port # "none" /\ u.host \in {"name", "label", "internal"})
EffectiveScheme(u) ==
  IF u.scheme # "none" THEN u.scheme ELSE IF HasScheme(u) THEN "other" ELSE "https"

defaultPortFor(scheme) == IF scheme = "https" THEN "443" ELSE "80"

Reason(u) ==
  IF u = Blank THEN "empty"
  ELSE IF EffectiveScheme(u) \notin {"http", "https"} THEN "unsupported_protocol"
  ELSE IF u.user THEN "credentials_present"
  ELSE IF u.host = "none" THEN "malformed"
  ELSE IF u.host = "blockedIp" THEN "blocked_ip"
  ELSE IF u.host \in {"internal", "label"} THEN "blocked_hostname"
  ELSE "none"

\* Mutant of Href: the root dot of the host is not written back.
HrefAsTyped(u) ==
  [u EXCEPT !.scheme = EffectiveScheme(u), !.fragment = FALSE,
            !.port = IF @ = defaultPortFor(EffectiveScheme(u)) THEN "none" ELSE @,
            !.slashes = IF u.segment \/ @ > 1 THEN @ ELSE 1]

\* The URL that is stored and requested.
Href(u) ==
  [u EXCEPT !.scheme = EffectiveScheme(u), !.dot = FALSE, !.fragment = FALSE,
            !.port = IF @ = defaultPortFor(EffectiveScheme(u)) THEN "none" ELSE @,
            !.slashes = IF u.segment \/ @ > 1 THEN @ ELSE 1]

\* The key of the unique index: the host without www., the port, the path without its
\* trailing slashes and the query of the stored URL.
CanonicalKey(u) ==
  [host |-> u.host, port |-> Href(u).port, segment |-> u.segment, query |-> u.query]

normalizeWebsiteUrl(u) ==
  IF Reason(u) = "none" THEN [ok |-> TRUE, href |-> Href(u), key |-> CanonicalKey(u)]
  ELSE [ok |-> FALSE, reason |-> Reason(u)]

\* What people type: hosts, schemes and ports in every combination, and the spellings
\* of one website.
TypedUrls ==
  [scheme : {"none", "http", "https", "other"}, user : BOOLEAN, host : Hosts, www : {FALSE},
   dot : {FALSE}, port : {"none", "80", "443", "8443"}, segment : {FALSE}, slashes : {0},
   query : {FALSE}, fragment : {FALSE}]
  \cup [scheme : {"http", "https"}, user : {FALSE}, host : {"name"}, www : BOOLEAN,
        dot : BOOLEAN, port : {"none", "80", "443"}, segment : BOOLEAN, slashes : 0..2,
        query : BOOLEAN, fragment : BOOLEAN]
----------------------------------------------------------------------------
RulesInit ==
  /\ asked \in Ipv4Questions \cup Ipv6Questions \cup {[version |-> 0, url |-> u] : u \in TypedUrls}
  /\ answer = <<>>

\* classifyIpAddress answers for an address.
JudgeAddress ==
  /\ answer = <<>>
  /\ asked.version # 0
  /\ answer' = <<[blocked |-> classifyIpAddress(asked)]>>
  /\ UNCHANGED asked

\* normalizeWebsiteUrl answers for a URL.
JudgeUrl ==
  /\ answer = <<>>
  /\ asked.version = 0
  /\ answer' = <<normalizeWebsiteUrl(asked.url)>>
  /\ UNCHANGED asked

RulesNext == JudgeAddress \/ JudgeUrl

RulesSpec == RulesInit /\ [][RulesNext]_ruleVars

----------------------------------------------------------------------------
(* Properties.                                                             *)

\* An address is refused when it lies in a block that ip.ts lists or carries an IPv4 address
\* that does, and admitted when it is public unicast, in whatever way the text spells it
\* (masks of unsigned 32-bit numbers, "::", dotted suffixes, four ways to carry an IPv4
\* address).  Of an IPv6 address that is neither, such as fec0::1, nothing is said: the code
\* admits it, and its comment says that it is refused.
AddressesAgree ==
  (answer # <<>> /\ asked.version # 0) =>
    /\ asked.refuse => answer[1].blocked
    /\ asked.admit => ~answer[1].blocked

\* Two URLs name the same website but for the scheme, www., a default port and slashes
\* at the end.
SameSite(u, v) ==
  LET port(w) == IF w.port = "none" THEN defaultPortFor(EffectiveScheme(w)) ELSE w.port
      default(w) == port(w) = defaultPortFor(EffectiveScheme(w))
  IN /\ u.host = v.host /\ u.segment = v.segment /\ u.query = v.query
     /\ IF default(u) THEN default(v) ELSE ~default(v) /\ port(u) = port(v)

\* The key is the same for two URLs exactly when they name the same website, their
\* stored forms then differ in nothing but scheme, www. and slashes, and the worker
\* takes the stored form for what it is ("the stored URL and the canonical key agree").
KeysNameWebsites ==
  (answer # <<>> /\ asked.version = 0 /\ answer[1].ok) =>
    /\ normalizeWebsiteUrl(answer[1].href) = answer[1]
    /\ \A v \in {u \in TypedUrls : Reason(u) = "none"} :
         LET mine == answer[1].href
             other == Href(v)
             same == CanonicalKey(v) = answer[1].key
         IN /\ same <=> SameSite(v, asked.url)
            /\ same => other = [mine EXCEPT !.scheme = other.scheme, !.www = other.www,
                                           !.slashes = other.slashes]
=============================================================================
