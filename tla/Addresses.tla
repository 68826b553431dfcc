----------------------------- MODULE Addresses -----------------------------
(***************************************************************************)
(* Which addresses a monitoring request may reach, and when two URLs name  *)
(* the same website: packages/shared/src/url/{ip,normalize}.ts, shared by  *)
(* the API (when a website is added) and the worker (on every hop).        *)
(*                                                                         *)
(* An IPv4 address is four octets, an IPv6 address eight groups of 16 bits *)
(* that a text spells with "::" and a dotted suffix.  JavaScript's 32-bit  *)
(* numbers are pairs of 16-bit halves here, the high half signed or not as *)
(* the code's operators leave it.                                          *)
(***************************************************************************)
EXTENDS Integers, Sequences

----------------------------------------------------------------------------
(* IPv4: 32-bit integers and CIDR blocks.                                  *)

Half(high, low) == high * 256 + low

\* What an int32 operator (<<, |, &) returns, and what >>> 0 makes of it.
Int32(v) == [v EXCEPT !.hi = IF @ >= 32768 THEN @ - 65536 ELSE @]
ToUint32(v) == [v EXCEPT !.hi = @ % 65536]

ipv4ToInteger(o) == ToUint32(Int32([hi |-> Half(o[1], o[2]), lo |-> Half(o[3], o[4])]))

\* What a bit of 16 is worth, the highest one first; the highest `bits` of 16, and
\* v & mask for a mask of maskBits.
Worth == <<32768, 16384, 8192, 4096, 2048, 1024, 512, 256, 128, 64, 32, 16, 8, 4, 2, 1>>
Keep(h, bits) == (h \div Worth[bits]) * Worth[bits]
And(v, maskBits) ==
  Int32(IF maskBits <= 16 THEN [hi |-> Keep(v.hi, maskBits), lo |-> 0]
        ELSE [hi |-> v.hi, lo |-> Keep(v.lo, maskBits - 16)])

cidr(octets, maskBits) ==
  [base |-> ToUint32(And(ipv4ToInteger(octets), maskBits)), maskBits |-> maskBits]

BLOCKED_IPV4_RANGES ==
  {cidr(<<0, 0, 0, 0>>, 8), cidr(<<10, 0, 0, 0>>, 8), cidr(<<100, 64, 0, 0>>, 10),
   cidr(<<127, 0, 0, 0>>, 8), cidr(<<169, 254, 0, 0>>, 16), cidr(<<172, 16, 0, 0>>, 12),
   cidr(<<192, 0, 0, 0>>, 24), cidr(<<192, 0, 2, 0>>, 24), cidr(<<192, 88, 99, 0>>, 24),
   cidr(<<192, 168, 0, 0>>, 16), cidr(<<198, 18, 0, 0>>, 15), cidr(<<198, 51, 100, 0>>, 24),
   cidr(<<203, 0, 113, 0>>, 24), cidr(<<224, 0, 0, 0>>, 4), cidr(<<240, 0, 0, 0>>, 4)}

\* Mutant of Within: the comparison forgets >>> 0, so no high address matches.
WithinSigned(v, range) == And(v, range.maskBits) = range.base

Within(v, range) == ToUint32(And(v, range.maskBits)) = range.base

classifyIpv4(octets) == \E range \in BLOCKED_IPV4_RANGES : Within(ipv4ToInteger(octets), range)

----------------------------------------------------------------------------
(* IPv6: a text is its parts before and after "::" (`gap` when there is    *)
(* one); a part is a group or four octets, which may only come last.       *)

Hextet(part) == Len(part) = 1
Groups(part) == IF Hextet(part) THEN part
                ELSE <<Half(part[1], part[2]), Half(part[3], part[4])>>
Parsable(parts) == \A i \in DOMAIN parts : Hextet(parts[i]) \/ i = Len(parts)
expandParts(parts) ==
  IF parts = <<>> THEN <<>>
  ELSE [k \in 1..(Len(parts) - 1) |-> parts[k][1]] \o Groups(parts[Len(parts)])
Zeros(n) == [i \in 1..n |-> 0]

parseIpv6(text) ==
  LET head == expandParts(text.head)
      tail == expandParts(text.tail)
      missing == 8 - Len(head) - Len(tail)
      groups == IF text.gap THEN head \o Zeros(missing) \o tail ELSE head
  IN IF /\ Parsable(text.head)
        /\ Parsable(text.tail)
        /\ IF text.gap THEN missing >= 1 ELSE Len(head) = 8
     THEN groups ELSE <<>>

embeddedIpv4(high, low) == <<high \div 256, high % 256, low \div 256, low % 256>>

\* IPv4-mapped and -compatible addresses and 64:ff9b::/96 carry it in the last groups.
AllZero(g, i, j) == \A k \in i..j : g[k] = 0
CarriesIpv4(g) ==
  \/ AllZero(g, 1, 5) /\ g[6] \in {0, 65535}
  \/ g[1] = 100 /\ g[2] = 65435 /\ AllZero(g, 3, 6)

classifyIpv6(g) ==
  IF g = <<>> THEN TRUE
  ELSE IF AllZero(g, 1, 7) /\ g[8] <= 1 THEN TRUE
  ELSE IF CarriesIpv4(g) THEN classifyIpv4(embeddedIpv4(g[7], g[8]))
  ELSE IF g[1] = 8194 THEN classifyIpv4(embeddedIpv4(g[2], g[3]))
  ELSE \/ Keep(g[1], 7) = 64512    \* fc00::/7
       \/ Keep(g[1], 10) = 65152   \* fe80::/10
       \/ Keep(g[1], 8) = 65280    \* ff00::/8
       \/ g[1] = 256 /\ AllZero(g, 2, 4)
       \/ g[1] = 8193 /\ g[2] = 3512

classifyIpAddress(literal) ==
  IF literal.version = 4 THEN classifyIpv4(literal.octets)
  ELSE classifyIpv6(parseIpv6(literal.text))

----------------------------------------------------------------------------
(* The reference: the blocks that ip.ts lists, as first and last address,  *)
(* the IPv6 addresses that are public unicast, and every way a text can    *)
(* spell an address.                                                       *)

Listed ==
  {<<<<0, 0, 0, 0>>, <<0, 255, 255, 255>>>>, <<<<10, 0, 0, 0>>, <<10, 255, 255, 255>>>>,
   <<<<100, 64, 0, 0>>, <<100, 127, 255, 255>>>>, <<<<127, 0, 0, 0>>, <<127, 255, 255, 255>>>>,
   <<<<169, 254, 0, 0>>, <<169, 254, 255, 255>>>>, <<<<172, 16, 0, 0>>, <<172, 31, 255, 255>>>>,
   <<<<192, 0, 0, 0>>, <<192, 0, 0, 255>>>>, <<<<192, 0, 2, 0>>, <<192, 0, 2, 255>>>>,
   <<<<192, 88, 99, 0>>, <<192, 88, 99, 255>>>>, <<<<192, 168, 0, 0>>, <<192, 168, 255, 255>>>>,
   <<<<198, 18, 0, 0>>, <<198, 19, 255, 255>>>>, <<<<198, 51, 100, 0>>, <<198, 51, 100, 255>>>>,
   <<<<203, 0, 113, 0>>, <<203, 0, 113, 255>>>>, <<<<224, 0, 0, 0>>, <<255, 255, 255, 255>>>>}

\* a is before or at b, octet by octet.
UpTo(a, b) ==
  a = b \/ \E i \in 1..4 : a[i] < b[i] /\ \A k \in 1..(i - 1) : a[k] = b[k]

ListedIpv4(o) == \E block \in Listed : UpTo(block[1], o) /\ UpTo(o, block[2])

Begins(g, prefix) == \A k \in DOMAIN prefix : g[k] = prefix[k]

\* The IPv4 addresses an IPv6 address stands for.
Carried(g) ==
  (IF \E prefix \in {<<0, 0, 0, 0, 0, 0>>, <<0, 0, 0, 0, 0, 65535>>, <<100, 65435, 0, 0, 0, 0>>} :
        Begins(g, prefix)
   THEN {embeddedIpv4(g[7], g[8])} ELSE {})
  \cup (IF g[1] = 8194 THEN {embeddedIpv4(g[2], g[3])} ELSE {})

ListedIpv6(g) ==
  \/ \E last \in {0, 1} : Begins(g, <<0, 0, 0, 0, 0, 0, 0, last>>)
  \/ \E o \in Carried(g) : ListedIpv4(o)
  \/ \E block \in {<<64512, 65023>>, <<65152, 65215>>, <<65280, 65535>>} :
       block[1] <= g[1] /\ g[1] <= block[2]
  \/ Begins(g, <<256, 0, 0, 0>>)
  \/ Begins(g, <<8193, 3512>>)

\* Public unicast: it carries an IPv4 address that is, or lies in 2000::/3, the space that is
\* given out, but not in 2001::/23 or 3fff::/20, which are set aside in it.  IPv6 addresses
\* that are neither this nor listed remain.
PublicIpv6(g) ==
  /\ ~ListedIpv6(g)
  /\ \/ Carried(g) # {}
     \/ /\ 8192 <= g[1] /\ g[1] <= 16383
        /\ g[1] = 8193 => g[2] >= 512
        /\ g[1] = 16383 => g[2] >= 4096

\* A text for g: the groups i..j, all zero, left out (none when j < i), the last two
\* groups dotted or not.
Parts(g, from, to, dotted) ==
  [k \in 1..(to - from + 1) |-> <<g[from + k - 1]>>]
  \o (IF dotted THEN <<embeddedIpv4(g[7], g[8])>> ELSE <<>>)

Spelling(g, i, j, dotted) ==
  LET end == IF dotted THEN 6 ELSE 8
  IN IF j < i THEN [head |-> Parts(g, 1, end, dotted), gap |-> FALSE, tail |-> <<>>]
     ELSE [head |-> Parts(g, 1, i - 1, FALSE), gap |-> TRUE, tail |-> Parts(g, j + 1, end, dotted)]

Spellings(g) ==
  {Spelling(g, t[1], t[2], t[3]) :
     t \in {u \in (1..8) \X (1..8) \X BOOLEAN :
              (u[3] => u[2] <= 6) /\ \A k \in u[1]..u[2] : g[k] = 0}}

----------------------------------------------------------------------------
(* The addresses the check asks about: the borders of every block and the  *)
(* addresses next to them, and the IPv6 addresses that carry them.         *)

Beside(o, step) ==
  LET low == Half(o[3], o[4]) + step
  IN embeddedIpv4((Half(o[1], o[2]) + low \div 65536) % 65536, low % 65536)

Borders == UNION {{b[1], b[2], Beside(b[1], -1), Beside(b[2], 1)} : b \in Listed}

Carriers(o) ==
  LET high == Half(o[1], o[2])
      low == Half(o[3], o[4])
  IN {<<0, 0, 0, 0, 0, 0, high, low>>, <<0, 0, 0, 0, 0, 65535, high, low>>,
      <<0, 0, 0, 0, 65535, 0, high, low>>, <<100, 65435, 0, 0, 0, 0, high, low>>,
      <<8194, high, low, 0, 0, 0, 0, 1>>}

Prefixed ==
  {<<g, n, 0, 0, 0, 0, 0, 1>> :
     g \in {256, 8192, 8193, 64511, 64512, 65023, 65024, 65151, 65152, 65215, 65216, 65279,
            65280, 65535}, n \in {0, 3512, 3513}}

SampleGroups == (UNION {Carriers(o) : o \in Borders}) \cup Prefixed

\* Texts that are no address: nine groups, seven, a dotted part that is not the last,
\* a gap that leaves nothing out.
Unparsable ==
  {[head |-> Parts(Zeros(9), 1, n, FALSE), gap |-> FALSE, tail |-> <<>>] : n \in {7, 9}}
  \cup {[head |-> <<<<8, 8, 8, 8>>, <<1>>>>, gap |-> TRUE, tail |-> <<>>],
        [head |-> Parts(Zeros(8), 1, 8, FALSE), gap |-> TRUE, tail |-> <<>>]}

\* With every question what is expected, where something is: an address to refuse, one to
\* admit, or neither.
Ipv4Questions ==
  {[version |-> 4, octets |-> o, text |-> "none",
    refuse |-> ListedIpv4(o), admit |-> ~ListedIpv4(o)] : o \in Borders}
Ipv6Questions ==
  {[version |-> 6, octets |-> <<>>, text |-> t, refuse |-> TRUE, admit |-> FALSE] :
     t \in Unparsable}
  \cup UNION {{[version |-> 6, octets |-> <<>>, text |-> t,
                refuse |-> ListedIpv6(g), admit |-> PublicIpv6(g)] : t \in Spellings(g)} :
              g \in SampleGroups}
=============================================================================
