----------------------------- MODULE UrlProofs -----------------------------
(***************************************************************************)
(* Theorems about packages/shared/src/url, for every address and every     *)
(* URL: the masks of signed 32-bit numbers refuse exactly the addresses of *)
(* the listed blocks, in whatever way a text spells an IPv6 address and    *)
(* carries an IPv4 one, which leaves some admitted that are not public;    *)
(* and the canonical key stands for the website that the stored URL names. *)
(***************************************************************************)
EXTENDS WebsiteUrls, TLAPS

(* An octet, a number of 16 bits, and addresses of both kinds.             *)
Octet == {n \in Nat : n < 256}
Halves == {n \in Nat : n < 65536}

LEMMA Signed ==
  ASSUME NEW h \in Int, NEW l \in Int
  PROVE  Int32([hi |-> h, lo |-> l]) = [hi |-> IF h >= 32768 THEN h - 65536 ELSE h, lo |-> l]
BY DEF Int32

LEMMA Unsigned ==
  ASSUME NEW h \in Int, NEW l \in Int
  PROVE  ToUint32([hi |-> h, lo |-> l]) = [hi |-> h % 65536, lo |-> l]
BY DEF ToUint32

LEMMA Wraps ==
  ASSUME NEW h \in Halves, NEW l \in Halves
  PROVE  ToUint32(Int32([hi |-> h, lo |-> l])) = [hi |-> h, lo |-> l]
<1> h \in Int /\ l \in Int /\ h - 65536 \in Int
  BY SMT DEF Halves
<1> DEFINE s == IF h >= 32768 THEN h - 65536 ELSE h
<1>1. s \in Int /\ s % 65536 = h
  BY SMT DEF Halves
<1>2. Int32([hi |-> h, lo |-> l]) = [hi |-> s, lo |-> l]
  BY Signed
<1> HIDE DEF s
<1>3. ToUint32([hi |-> s, lo |-> l]) = [hi |-> s % 65536, lo |-> l]
  BY <1>1, Unsigned
<1> QED BY <1>1, <1>2, <1>3

LEMMA HalfTyped ==
  ASSUME NEW a \in Octet, NEW b \in Octet
  PROVE  Half(a, b) \in Halves
BY SMT DEF Half, Octet, Halves

LEMMA AsInteger ==
  ASSUME NEW a \in Octet, NEW b \in Octet, NEW c \in Octet, NEW d \in Octet
  PROVE  ipv4ToInteger(<<a, b, c, d>>) = [hi |-> Half(a, b), lo |-> Half(c, d)]
<1> DEFINE o == <<a, b, c, d>>
<1>1. o[1] = a /\ o[2] = b /\ o[3] = c /\ o[4] = d
  OBVIOUS
<1>2. ipv4ToInteger(o) = ToUint32(Int32([hi |-> Half(a, b), lo |-> Half(c, d)]))
  BY <1>1 DEF ipv4ToInteger
<1> QED BY <1>2, Wraps, HalfTyped

LEMMA MaskHigh ==
  ASSUME NEW h \in Halves, NEW l \in Halves, NEW bits \in 1..16, Keep(h, bits) \in Halves
  PROVE  ToUint32(And([hi |-> h, lo |-> l], bits)) = [hi |-> Keep(h, bits), lo |-> 0]
<1>1. And([hi |-> h, lo |-> l], bits) = Int32([hi |-> Keep(h, bits), lo |-> 0])
  BY DEF And
<1>2. 0 \in Halves
  BY DEF Halves
<1> QED BY <1>1, <1>2, Wraps

LEMMA MaskLow ==
  ASSUME NEW h \in Halves, NEW l \in Halves, Keep(l, 8) \in Halves
  PROVE  ToUint32(And([hi |-> h, lo |-> l], 24)) = [hi |-> h, lo |-> Keep(l, 8)]
<1>1. And([hi |-> h, lo |-> l], 24) = Int32([hi |-> h, lo |-> Keep(l, 8)])
  <2>1. ~(24 <= 16) /\ 24 - 16 = 8
    OBVIOUS
  <2> QED BY <2>1 DEF And
<1> QED BY <1>1, Wraps

LEMMA KeptHigh ==
  ASSUME NEW h \in Halves
  PROVE  /\ Keep(h, 4) = (h \div 4096) * 4096
         /\ Keep(h, 7) = (h \div 512) * 512
         /\ Keep(h, 8) = (h \div 256) * 256
         /\ Keep(h, 10) = (h \div 64) * 64
         /\ Keep(h, 12) = (h \div 16) * 16
         /\ Keep(h, 15) = (h \div 2) * 2
         /\ Keep(h, 16) = h
<1>1. /\ Worth[4] = 4096 /\ Worth[7] = 512 /\ Worth[8] = 256 /\ Worth[10] = 64 /\ Worth[12] = 16
      /\ Worth[15] = 2 /\ Worth[16] = 1
  BY DEF Worth
<1>2. (h \div 1) * 1 = h
  BY SMT DEF Halves
<1>3. \A bits \in 1..16, w \in Nat : Worth[bits] = w => Keep(h, bits) = (h \div w) * w
  BY DEF Keep
<1>4. /\ Keep(h, 4) = (h \div 4096) * 4096
      /\ Keep(h, 7) = (h \div 512) * 512
      /\ Keep(h, 8) = (h \div 256) * 256
      /\ Keep(h, 10) = (h \div 64) * 64
  BY <1>1, <1>3
<1>5. /\ Keep(h, 12) = (h \div 16) * 16
      /\ Keep(h, 15) = (h \div 2) * 2
      /\ Keep(h, 16) = (h \div 1) * 1
  BY <1>1, <1>3
<1> QED BY <1>2, <1>4, <1>5

LEMMA KeptTyped ==
  ASSUME NEW h \in Halves, NEW bits \in {4, 7, 8, 10, 12, 15, 16}
  PROVE  Keep(h, bits) \in Halves
<1>1. /\ (h \div 4096) * 4096 \in Halves /\ (h \div 512) * 512 \in Halves
      /\ (h \div 256) * 256 \in Halves /\ (h \div 64) * 64 \in Halves
      /\ (h \div 16) * 16 \in Halves /\ (h \div 2) * 2 \in Halves
  BY SMT DEF Halves
<1> QED BY <1>1, KeptHigh

LEMMA WithinHigh ==
  ASSUME NEW a \in Octet, NEW b \in Octet, NEW c \in Octet, NEW d \in Octet,
         NEW e \in Octet, NEW f \in Octet, NEW bits \in {4, 8, 10, 12, 15, 16}
  PROVE  Within(ipv4ToInteger(<<a, b, c, d>>), cidr(<<e, f, 0, 0>>, bits))
         <=> Keep(Half(a, b), bits) = Keep(Half(e, f), bits)
<1> DEFINE range == cidr(<<e, f, 0, 0>>, bits)
           v == ipv4ToInteger(<<a, b, c, d>>)
<1>0. 0 \in Octet /\ bits \in 1..16 /\ bits \in {4, 7, 8, 10, 12, 15, 16}
  BY DEF Octet
<1>1. v = [hi |-> Half(a, b), lo |-> Half(c, d)] /\ Half(a, b) \in Halves /\ Half(c, d) \in Halves
  BY AsInteger, HalfTyped
<1>2. /\ ipv4ToInteger(<<e, f, 0, 0>>) = [hi |-> Half(e, f), lo |-> Half(0, 0)]
      /\ Half(e, f) \in Halves /\ Half(0, 0) \in Halves
  BY <1>0, AsInteger, HalfTyped
<1>3. Keep(Half(a, b), bits) \in Halves /\ Keep(Half(e, f), bits) \in Halves
  BY <1>0, <1>1, <1>2, KeptTyped
<1>4. ToUint32(And(v, bits)) = [hi |-> Keep(Half(a, b), bits), lo |-> 0]
  BY <1>0, <1>1, <1>3, MaskHigh
<1>5. range.base = [hi |-> Keep(Half(e, f), bits), lo |-> 0] /\ range.maskBits = bits
  BY <1>0, <1>2, <1>3, MaskHigh DEF cidr
<1> HIDE DEF v, range
<1>6. Within(v, range) <=> ToUint32(And(v, bits)) = [hi |-> Keep(Half(e, f), bits), lo |-> 0]
  BY <1>5 DEF Within
<1> QED BY <1>4, <1>6 DEF v, range

LEMMA WithinLow ==
  ASSUME NEW a \in Octet, NEW b \in Octet, NEW c \in Octet, NEW d \in Octet,
         NEW e \in Octet, NEW f \in Octet, NEW k \in Octet
  PROVE  Within(ipv4ToInteger(<<a, b, c, d>>), cidr(<<e, f, k, 0>>, 24))
         <=> Half(a, b) = Half(e, f) /\ Keep(Half(c, d), 8) = Keep(Half(k, 0), 8)
<1> DEFINE range == cidr(<<e, f, k, 0>>, 24)
           v == ipv4ToInteger(<<a, b, c, d>>)
<1>0. 0 \in Octet
  BY DEF Octet
<1>1. v = [hi |-> Half(a, b), lo |-> Half(c, d)] /\ Half(a, b) \in Halves /\ Half(c, d) \in Halves
  BY AsInteger, HalfTyped
<1>2. /\ ipv4ToInteger(<<e, f, k, 0>>) = [hi |-> Half(e, f), lo |-> Half(k, 0)]
      /\ Half(e, f) \in Halves /\ Half(k, 0) \in Halves
  BY <1>0, AsInteger, HalfTyped
<1>3. Keep(Half(c, d), 8) \in Halves /\ Keep(Half(k, 0), 8) \in Halves
  BY <1>1, <1>2, KeptTyped
<1>4. ToUint32(And(v, 24)) = [hi |-> Half(a, b), lo |-> Keep(Half(c, d), 8)]
  BY <1>1, <1>3, MaskLow
<1>5. range.base = [hi |-> Half(e, f), lo |-> Keep(Half(k, 0), 8)] /\ range.maskBits = 24
  BY <1>2, <1>3, MaskLow DEF cidr
<1> HIDE DEF v, range
<1>6. Within(v, range)
      <=> ToUint32(And(v, 24)) = [hi |-> Half(e, f), lo |-> Keep(Half(k, 0), 8)]
  BY <1>5 DEF Within
<1> QED BY <1>4, <1>6 DEF v, range

(* Every block read octet by octet.                                        *)
InBlock(a, b, c) ==
  \/ a \in {0, 10, 127} \/ a >= 224
  \/ a = 100 /\ 64 <= b /\ b <= 127
  \/ a = 169 /\ b = 254
  \/ a = 172 /\ 16 <= b /\ b <= 31
  \/ a = 192 /\ b = 168
  \/ a = 192 /\ b = 0 /\ c \in {0, 2}
  \/ a = 192 /\ b = 88 /\ c = 99
  \/ a = 198 /\ b \in {18, 19}
  \/ a = 198 /\ b = 51 /\ c = 100
  \/ a = 203 /\ b = 0 /\ c = 113

LEMMA Block8 ==
  ASSUME NEW a \in Octet, NEW b \in Octet, NEW c \in Octet, NEW d \in Octet, NEW e \in Octet
  PROVE  Within(ipv4ToInteger(<<a, b, c, d>>), cidr(<<e, 0, 0, 0>>, 8)) <=> a = e
<1>1. 0 \in Octet /\ Half(a, b) \in Halves /\ Half(e, 0) \in Halves
  BY HalfTyped DEF Octet
<1>2. (Half(a, b) \div 256) * 256 = (Half(e, 0) \div 256) * 256 <=> a = e
  BY DEF Half, Octet
<1> QED BY <1>1, <1>2, WithinHigh, KeptHigh

LEMMA Block16 ==
  ASSUME NEW a \in Octet, NEW b \in Octet, NEW c \in Octet, NEW d \in Octet,
         NEW e \in Octet, NEW f \in Octet
  PROVE  Within(ipv4ToInteger(<<a, b, c, d>>), cidr(<<e, f, 0, 0>>, 16)) <=> a = e /\ b = f
<1>1. Half(a, b) \in Halves /\ Half(e, f) \in Halves
  BY HalfTyped
<1>2. Half(a, b) = Half(e, f) <=> a = e /\ b = f
  BY DEF Half, Octet
<1> QED BY <1>1, <1>2, WithinHigh, KeptHigh

LEMMA Block24 ==
  ASSUME NEW a \in Octet, NEW b \in Octet, NEW c \in Octet, NEW d \in Octet,
         NEW e \in Octet, NEW f \in Octet, NEW k \in Octet
  PROVE  Within(ipv4ToInteger(<<a, b, c, d>>), cidr(<<e, f, k, 0>>, 24))
         <=> a = e /\ b = f /\ c = k
<1>1. 0 \in Octet /\ Half(c, d) \in Halves /\ Half(k, 0) \in Halves
  BY HalfTyped DEF Octet
<1>2. Half(a, b) = Half(e, f) <=> a = e /\ b = f
  BY DEF Half, Octet
<1>3. (Half(c, d) \div 256) * 256 = (Half(k, 0) \div 256) * 256 <=> c = k
  BY DEF Half, Octet
<1> QED BY <1>1, <1>2, <1>3, WithinLow, KeptHigh

(* The blocks whose mask ends within an octet.                             *)
LEMMA OddBlocks ==
  ASSUME NEW a \in Octet, NEW b \in Octet, NEW c \in Octet, NEW d \in Octet
  PROVE  /\ Within(ipv4ToInteger(<<a, b, c, d>>), cidr(<<100, 64, 0, 0>>, 10))
            <=> a = 100 /\ 64 <= b /\ b <= 127
         /\ Within(ipv4ToInteger(<<a, b, c, d>>), cidr(<<172, 16, 0, 0>>, 12))
            <=> a = 172 /\ 16 <= b /\ b <= 31
         /\ Within(ipv4ToInteger(<<a, b, c, d>>), cidr(<<198, 18, 0, 0>>, 15))
            <=> a = 198 /\ b \in {18, 19}
         /\ Within(ipv4ToInteger(<<a, b, c, d>>), cidr(<<224, 0, 0, 0>>, 4))
            <=> 224 <= a /\ a <= 239
         /\ Within(ipv4ToInteger(<<a, b, c, d>>), cidr(<<240, 0, 0, 0>>, 4)) <=> 240 <= a
<1>1. /\ 0 \in Octet /\ 100 \in Octet /\ 64 \in Octet /\ 172 \in Octet /\ 16 \in Octet
      /\ 198 \in Octet /\ 18 \in Octet /\ 224 \in Octet /\ 240 \in Octet
  BY DEF Octet
<1>2. /\ Half(a, b) \in Halves /\ Half(100, 64) \in Halves /\ Half(172, 16) \in Halves
      /\ Half(198, 18) \in Halves /\ Half(224, 0) \in Halves /\ Half(240, 0) \in Halves
  BY <1>1, HalfTyped
<1>3. (Half(a, b) \div 64) * 64 = (Half(100, 64) \div 64) * 64 <=> a = 100 /\ 64 <= b /\ b <= 127
  BY DEF Half, Octet
<1>4. (Half(a, b) \div 16) * 16 = (Half(172, 16) \div 16) * 16 <=> a = 172 /\ 16 <= b /\ b <= 31
  BY DEF Half, Octet
<1>5. (Half(a, b) \div 2) * 2 = (Half(198, 18) \div 2) * 2 <=> a = 198 /\ b \in {18, 19}
  BY DEF Half, Octet
<1>6. (Half(a, b) \div 4096) * 4096 = (Half(224, 0) \div 4096) * 4096 <=> 224 <= a /\ a <= 239
  BY DEF Half, Octet
<1>7. (Half(a, b) \div 4096) * 4096 = (Half(240, 0) \div 4096) * 4096 <=> 240 <= a
  BY DEF Half, Octet
<1>a. Keep(Half(a, b), 10) = Keep(Half(100, 64), 10) <=> a = 100 /\ 64 <= b /\ b <= 127
  BY <1>2, <1>3, KeptHigh
<1>b. Keep(Half(a, b), 12) = Keep(Half(172, 16), 12) <=> a = 172 /\ 16 <= b /\ b <= 31
  BY <1>2, <1>4, KeptHigh
<1>c. Keep(Half(a, b), 15) = Keep(Half(198, 18), 15) <=> a = 198 /\ b \in {18, 19}
  BY <1>2, <1>5, KeptHigh
<1>d. Keep(Half(a, b), 4) = Keep(Half(224, 0), 4) <=> 224 <= a /\ a <= 239
  BY <1>2, <1>6, KeptHigh
<1>e. Keep(Half(a, b), 4) = Keep(Half(240, 0), 4) <=> 240 <= a
  BY <1>2, <1>7, KeptHigh
<1> QED BY <1>1, <1>a, <1>b, <1>c, <1>d, <1>e, WithinHigh

(* What classifyIpv4 blocks.                                               *)
LEMMA Blocks ==
  ASSUME NEW a \in Octet, NEW b \in Octet, NEW c \in Octet, NEW d \in Octet
  PROVE  classifyIpv4(<<a, b, c, d>>) <=> InBlock(a, b, c)
<1> DEFINE In(octets, bits) == Within(ipv4ToInteger(<<a, b, c, d>>), cidr(octets, bits))
<1>1. classifyIpv4(<<a, b, c, d>>)
      <=> \/ In(<<0, 0, 0, 0>>, 8) \/ In(<<10, 0, 0, 0>>, 8) \/ In(<<100, 64, 0, 0>>, 10)
          \/ In(<<127, 0, 0, 0>>, 8) \/ In(<<169, 254, 0, 0>>, 16) \/ In(<<172, 16, 0, 0>>, 12)
          \/ In(<<192, 0, 0, 0>>, 24) \/ In(<<192, 0, 2, 0>>, 24) \/ In(<<192, 88, 99, 0>>, 24)
          \/ In(<<192, 168, 0, 0>>, 16) \/ In(<<198, 18, 0, 0>>, 15) \/ In(<<198, 51, 100, 0>>, 24)
          \/ In(<<203, 0, 113, 0>>, 24) \/ In(<<224, 0, 0, 0>>, 4) \/ In(<<240, 0, 0, 0>>, 4)
  BY DEF classifyIpv4, BLOCKED_IPV4_RANGES
<1>3a. In(<<0, 0, 0, 0>>, 8) <=> a = 0
  <2>1. 0 \in Octet
    BY DEF Octet
  <2> QED BY <2>1, Block8
<1>3b. In(<<10, 0, 0, 0>>, 8) <=> a = 10
  <2>1. 10 \in Octet
    BY DEF Octet
  <2> QED BY <2>1, Block8
<1>3c. In(<<127, 0, 0, 0>>, 8) <=> a = 127
  <2>1. 127 \in Octet
    BY DEF Octet
  <2> QED BY <2>1, Block8
<1>4a. In(<<169, 254, 0, 0>>, 16) <=> a = 169 /\ b = 254
  <2>1. 169 \in Octet /\ 254 \in Octet
    BY DEF Octet
  <2> QED BY <2>1, Block16
<1>4b. In(<<192, 168, 0, 0>>, 16) <=> a = 192 /\ b = 168
  <2>1. 168 \in Octet /\ 192 \in Octet
    BY DEF Octet
  <2> QED BY <2>1, Block16
<1>5a. In(<<192, 0, 0, 0>>, 24) <=> a = 192 /\ b = 0 /\ c = 0
  <2>1. 0 \in Octet /\ 192 \in Octet
    BY DEF Octet
  <2> QED BY <2>1, Block24
<1>5b. In(<<192, 0, 2, 0>>, 24) <=> a = 192 /\ b = 0 /\ c = 2
  <2>1. 0 \in Octet /\ 2 \in Octet /\ 192 \in Octet
    BY DEF Octet
  <2> QED BY <2>1, Block24
<1>5c. In(<<192, 88, 99, 0>>, 24) <=> a = 192 /\ b = 88 /\ c = 99
  <2>1. 88 \in Octet /\ 99 \in Octet /\ 192 \in Octet
    BY DEF Octet
  <2> QED BY <2>1, Block24
<1>5d. In(<<198, 51, 100, 0>>, 24) <=> a = 198 /\ b = 51 /\ c = 100
  <2>1. 51 \in Octet /\ 100 \in Octet /\ 198 \in Octet
    BY DEF Octet
  <2> QED BY <2>1, Block24
<1>5e. In(<<203, 0, 113, 0>>, 24) <=> a = 203 /\ b = 0 /\ c = 113
  <2>1. 0 \in Octet /\ 113 \in Octet /\ 203 \in Octet
    BY DEF Octet
  <2> QED BY <2>1, Block24
<1>6. /\ In(<<100, 64, 0, 0>>, 10) <=> a = 100 /\ 64 <= b /\ b <= 127
      /\ In(<<172, 16, 0, 0>>, 12) <=> a = 172 /\ 16 <= b /\ b <= 31
      /\ In(<<198, 18, 0, 0>>, 15) <=> a = 198 /\ b \in {18, 19}
      /\ In(<<224, 0, 0, 0>>, 4) <=> 224 <= a /\ a <= 239
      /\ In(<<240, 0, 0, 0>>, 4) <=> 240 <= a
  BY OddBlocks
<1>7. a >= 224 <=> (224 <= a /\ a <= 239) \/ 240 <= a
  BY DEF Octet
<1> HIDE DEF In
<1> QED BY <1>1, <1>3a, <1>3b, <1>3c, <1>4a, <1>4b, <1>5a, <1>5b, <1>5c, <1>5d, <1>5e, <1>6, <1>7
       DEF InBlock

(* The order of addresses, and every listed block as first and last.       *)
LEMMA Order ==
  ASSUME NEW a \in Octet, NEW b \in Octet, NEW c \in Octet, NEW d \in Octet,
         NEW e \in Octet, NEW f \in Octet, NEW g \in Octet, NEW h \in Octet
  PROVE  UpTo(<<a, b, c, d>>, <<e, f, g, h>>)
         <=> \/ a < e
             \/ a = e /\ b < f
             \/ a = e /\ b = f /\ c < g
             \/ a = e /\ b = f /\ c = g /\ d <= h
<1> DEFINE x == <<a, b, c, d>>
           y == <<e, f, g, h>>
<1>1. /\ x[1] = a /\ x[2] = b /\ x[3] = c /\ x[4] = d
      /\ y[1] = e /\ y[2] = f /\ y[3] = g /\ y[4] = h
  OBVIOUS
<1>2. x = y <=> a = e /\ b = f /\ c = g /\ d = h
  OBVIOUS
<1> HIDE DEF x, y
<1>3. /\ (\A k \in 1..(1 - 1) : x[k] = y[k])
      /\ (\A k \in 1..(2 - 1) : x[k] = y[k]) <=> x[1] = y[1]
      /\ (\A k \in 1..(3 - 1) : x[k] = y[k]) <=> x[1] = y[1] /\ x[2] = y[2]
      /\ (\A k \in 1..(4 - 1) : x[k] = y[k]) <=> x[1] = y[1] /\ x[2] = y[2] /\ x[3] = y[3]
  OBVIOUS
<1>4. UpTo(x, y) <=> \/ x = y
                     \/ x[1] < y[1]
                     \/ x[2] < y[2] /\ x[1] = y[1]
                     \/ x[3] < y[3] /\ x[1] = y[1] /\ x[2] = y[2]
                     \/ x[4] < y[4] /\ x[1] = y[1] /\ x[2] = y[2] /\ x[3] = y[3]
  BY <1>3 DEF UpTo
<1>5. d <= h <=> d < h \/ d = h
  BY DEF Octet
<1> QED BY <1>1, <1>2, <1>4, <1>5 DEF x, y

(* o lies between two addresses; the first three octets of one are not     *)
(* after those of the other.                                               *)
Lies(o, first, last) == UpTo(first, o) /\ UpTo(o, last)
Upto3(a, b, c, e, f, g) == a < e \/ (a = e /\ b < f) \/ (a = e /\ b = f /\ c <= g)

LEMMA Span ==
  ASSUME NEW a \in Octet, NEW b \in Octet, NEW c \in Octet, NEW d \in Octet,
         NEW e \in Octet, NEW f \in Octet, NEW g \in Octet,
         NEW p \in Octet, NEW q \in Octet, NEW r \in Octet
  PROVE  Lies(<<a, b, c, d>>, <<e, f, g, 0>>, <<p, q, r, 255>>)
         <=> Upto3(e, f, g, a, b, c) /\ Upto3(a, b, c, p, q, r)
<1>1. 0 \in Octet /\ 255 \in Octet /\ 0 <= d /\ d <= 255
  BY DEF Octet
<1>2. g <= c <=> g < c \/ g = c
  BY DEF Octet
<1>3. c <= r <=> c < r \/ c = r
  BY DEF Octet
<1>4. UpTo(<<e, f, g, 0>>, <<a, b, c, d>>) <=> Upto3(e, f, g, a, b, c)
  BY <1>1, <1>2, Order DEF Upto3
<1>5. UpTo(<<a, b, c, d>>, <<p, q, r, 255>>) <=> Upto3(a, b, c, p, q, r)
  BY <1>1, <1>3, Order DEF Upto3
<1> QED BY <1>4, <1>5 DEF Lies

LEMMA Span8 ==
  ASSUME NEW a \in Octet, NEW b \in Octet, NEW c \in Octet, NEW d \in Octet, NEW e \in Octet
  PROVE  Lies(<<a, b, c, d>>, <<e, 0, 0, 0>>, <<e, 255, 255, 255>>) <=> a = e
<1>1. 0 \in Octet /\ 255 \in Octet
  BY DEF Octet
<1> DEFINE flat == Upto3(e, 0, 0, a, b, c) /\ Upto3(a, b, c, e, 255, 255)
<1>2. Lies(<<a, b, c, d>>, <<e, 0, 0, 0>>, <<e, 255, 255, 255>>) <=> flat
  BY <1>1, Span
<1>3. flat <=> a = e
  BY DEF Octet, Upto3
<1> HIDE DEF flat
<1> QED BY <1>2, <1>3

LEMMA Span16 ==
  ASSUME NEW a \in Octet, NEW b \in Octet, NEW c \in Octet, NEW d \in Octet,
         NEW e \in Octet, NEW f \in Octet
  PROVE  Lies(<<a, b, c, d>>, <<e, f, 0, 0>>, <<e, f, 255, 255>>) <=> a = e /\ b = f
<1>1. 0 \in Octet /\ 255 \in Octet
  BY DEF Octet
<1> DEFINE flat == Upto3(e, f, 0, a, b, c) /\ Upto3(a, b, c, e, f, 255)
<1>2. Lies(<<a, b, c, d>>, <<e, f, 0, 0>>, <<e, f, 255, 255>>) <=> flat
  BY <1>1, Span
<1>3. flat <=> a = e /\ b = f
  BY DEF Octet, Upto3
<1> HIDE DEF flat
<1> QED BY <1>2, <1>3

LEMMA Span24 ==
  ASSUME NEW a \in Octet, NEW b \in Octet, NEW c \in Octet, NEW d \in Octet,
         NEW e \in Octet, NEW f \in Octet, NEW g \in Octet
  PROVE  Lies(<<a, b, c, d>>, <<e, f, g, 0>>, <<e, f, g, 255>>) <=> a = e /\ b = f /\ c = g
<1>1. 0 \in Octet /\ 255 \in Octet
  BY DEF Octet
<1> DEFINE flat == Upto3(e, f, g, a, b, c) /\ Upto3(a, b, c, e, f, g)
<1>2. Lies(<<a, b, c, d>>, <<e, f, g, 0>>, <<e, f, g, 255>>) <=> flat
  BY <1>1, Span
<1>3. flat <=> a = e /\ b = f /\ c = g
  BY DEF Octet, Upto3
<1> HIDE DEF flat
<1> QED BY <1>2, <1>3

LEMMA OddSpans ==
  ASSUME NEW a \in Octet, NEW b \in Octet, NEW c \in Octet, NEW d \in Octet
  PROVE  /\ Lies(<<a, b, c, d>>, <<100, 64, 0, 0>>, <<100, 127, 255, 255>>)
            <=> a = 100 /\ 64 <= b /\ b <= 127
         /\ Lies(<<a, b, c, d>>, <<172, 16, 0, 0>>, <<172, 31, 255, 255>>)
            <=> a = 172 /\ 16 <= b /\ b <= 31
         /\ Lies(<<a, b, c, d>>, <<198, 18, 0, 0>>, <<198, 19, 255, 255>>)
            <=> a = 198 /\ b \in {18, 19}
         /\ Lies(<<a, b, c, d>>, <<224, 0, 0, 0>>, <<255, 255, 255, 255>>)
            <=> 224 <= a
<1>1. Lies(<<a, b, c, d>>, <<100, 64, 0, 0>>, <<100, 127, 255, 255>>)
      <=> a = 100 /\ 64 <= b /\ b <= 127
  <2> DEFINE flat == Upto3(100, 64, 0, a, b, c) /\ Upto3(a, b, c, 100, 127, 255)
  <2>0. 0 \in Octet /\ 64 \in Octet /\ 100 \in Octet /\ 127 \in Octet /\ 255 \in Octet
    BY DEF Octet
  <2>1. Lies(<<a, b, c, d>>, <<100, 64, 0, 0>>, <<100, 127, 255, 255>>) <=> flat
    BY <2>0, Span
  <2>2. flat <=> a = 100 /\ 64 <= b /\ b <= 127
    BY DEF Octet, Upto3
  <2> HIDE DEF flat
  <2> QED BY <2>1, <2>2
<1>2. Lies(<<a, b, c, d>>, <<172, 16, 0, 0>>, <<172, 31, 255, 255>>)
      <=> a = 172 /\ 16 <= b /\ b <= 31
  <2> DEFINE flat == Upto3(172, 16, 0, a, b, c) /\ Upto3(a, b, c, 172, 31, 255)
  <2>0. 0 \in Octet /\ 16 \in Octet /\ 31 \in Octet /\ 172 \in Octet /\ 255 \in Octet
    BY DEF Octet
  <2>1. Lies(<<a, b, c, d>>, <<172, 16, 0, 0>>, <<172, 31, 255, 255>>) <=> flat
    BY <2>0, Span
  <2>2. flat <=> a = 172 /\ 16 <= b /\ b <= 31
    BY DEF Octet, Upto3
  <2> HIDE DEF flat
  <2> QED BY <2>1, <2>2
<1>3. Lies(<<a, b, c, d>>, <<198, 18, 0, 0>>, <<198, 19, 255, 255>>)
      <=> a = 198 /\ b \in {18, 19}
  <2> DEFINE flat == Upto3(198, 18, 0, a, b, c) /\ Upto3(a, b, c, 198, 19, 255)
  <2>0. 0 \in Octet /\ 18 \in Octet /\ 19 \in Octet /\ 198 \in Octet /\ 255 \in Octet
    BY DEF Octet
  <2>1. Lies(<<a, b, c, d>>, <<198, 18, 0, 0>>, <<198, 19, 255, 255>>) <=> flat
    BY <2>0, Span
  <2>2. flat <=> a = 198 /\ b \in {18, 19}
    BY DEF Octet, Upto3
  <2> HIDE DEF flat
  <2> QED BY <2>1, <2>2
<1>4. Lies(<<a, b, c, d>>, <<224, 0, 0, 0>>, <<255, 255, 255, 255>>)
      <=> 224 <= a
  <2> DEFINE flat == Upto3(224, 0, 0, a, b, c) /\ Upto3(a, b, c, 255, 255, 255)
  <2>0. 0 \in Octet /\ 224 \in Octet /\ 255 \in Octet
    BY DEF Octet
  <2>1. Lies(<<a, b, c, d>>, <<224, 0, 0, 0>>, <<255, 255, 255, 255>>) <=> flat
    BY <2>0, Span
  <2>2. flat <=> 224 <= a
    BY DEF Octet, Upto3
  <2> HIDE DEF flat
  <2> QED BY <2>1, <2>2
<1> QED BY <1>1, <1>2, <1>3, <1>4

LEMMA Between ==
  ASSUME NEW a \in Octet, NEW b \in Octet, NEW c \in Octet, NEW d \in Octet
  PROVE  ListedIpv4(<<a, b, c, d>>) <=> InBlock(a, b, c)
<1> DEFINE In(first, last) == Lies(<<a, b, c, d>>, first, last)
<1>1. ListedIpv4(<<a, b, c, d>>)
      <=> \/ In(<<0, 0, 0, 0>>, <<0, 255, 255, 255>>) \/ In(<<10, 0, 0, 0>>, <<10, 255, 255, 255>>)
          \/ In(<<100, 64, 0, 0>>, <<100, 127, 255, 255>>) \/ In(<<127, 0, 0, 0>>, <<127, 255, 255, 255>>)
          \/ In(<<169, 254, 0, 0>>, <<169, 254, 255, 255>>) \/ In(<<172, 16, 0, 0>>, <<172, 31, 255, 255>>)
          \/ In(<<192, 0, 0, 0>>, <<192, 0, 0, 255>>) \/ In(<<192, 0, 2, 0>>, <<192, 0, 2, 255>>)
          \/ In(<<192, 88, 99, 0>>, <<192, 88, 99, 255>>) \/ In(<<192, 168, 0, 0>>, <<192, 168, 255, 255>>)
          \/ In(<<198, 18, 0, 0>>, <<198, 19, 255, 255>>) \/ In(<<198, 51, 100, 0>>, <<198, 51, 100, 255>>)
          \/ In(<<203, 0, 113, 0>>, <<203, 0, 113, 255>>) \/ In(<<224, 0, 0, 0>>, <<255, 255, 255, 255>>)
  <2>1. ListedIpv4(<<a, b, c, d>>) <=> \E block \in Listed : In(block[1], block[2])
    BY DEF ListedIpv4, Lies
  <2> HIDE DEF In
  <2> QED BY <2>1 DEF Listed
<1>3a. In(<<0, 0, 0, 0>>, <<0, 255, 255, 255>>) <=> a = 0
  <2>1. 0 \in Octet
    BY DEF Octet
  <2> QED BY <2>1, Span8
<1>3b. In(<<10, 0, 0, 0>>, <<10, 255, 255, 255>>) <=> a = 10
  <2>1. 10 \in Octet
    BY DEF Octet
  <2> QED BY <2>1, Span8
<1>3c. In(<<127, 0, 0, 0>>, <<127, 255, 255, 255>>) <=> a = 127
  <2>1. 127 \in Octet
    BY DEF Octet
  <2> QED BY <2>1, Span8
<1>4a. In(<<169, 254, 0, 0>>, <<169, 254, 255, 255>>) <=> a = 169 /\ b = 254
  <2>1. 169 \in Octet /\ 254 \in Octet
    BY DEF Octet
  <2> QED BY <2>1, Span16
<1>4b. In(<<192, 168, 0, 0>>, <<192, 168, 255, 255>>) <=> a = 192 /\ b = 168
  <2>1. 168 \in Octet /\ 192 \in Octet
    BY DEF Octet
  <2> QED BY <2>1, Span16
<1>5a. In(<<192, 0, 0, 0>>, <<192, 0, 0, 255>>) <=> a = 192 /\ b = 0 /\ c = 0
  <2>1. 0 \in Octet /\ 192 \in Octet
    BY DEF Octet
  <2> QED BY <2>1, Span24
<1>5b. In(<<192, 0, 2, 0>>, <<192, 0, 2, 255>>) <=> a = 192 /\ b = 0 /\ c = 2
  <2>1. 0 \in Octet /\ 2 \in Octet /\ 192 \in Octet
    BY DEF Octet
  <2> QED BY <2>1, Span24
<1>5c. In(<<192, 88, 99, 0>>, <<192, 88, 99, 255>>) <=> a = 192 /\ b = 88 /\ c = 99
  <2>1. 88 \in Octet /\ 99 \in Octet /\ 192 \in Octet
    BY DEF Octet
  <2> QED BY <2>1, Span24
<1>6a. In(<<198, 51, 100, 0>>, <<198, 51, 100, 255>>) <=> a = 198 /\ b = 51 /\ c = 100
  <2>1. 51 \in Octet /\ 100 \in Octet /\ 198 \in Octet
    BY DEF Octet
  <2> QED BY <2>1, Span24
<1>6b. In(<<203, 0, 113, 0>>, <<203, 0, 113, 255>>) <=> a = 203 /\ b = 0 /\ c = 113
  <2>1. 0 \in Octet /\ 113 \in Octet /\ 203 \in Octet
    BY DEF Octet
  <2> QED BY <2>1, Span24
<1>7. /\ In(<<100, 64, 0, 0>>, <<100, 127, 255, 255>>) <=> a = 100 /\ 64 <= b /\ b <= 127
      /\ In(<<172, 16, 0, 0>>, <<172, 31, 255, 255>>) <=> a = 172 /\ 16 <= b /\ b <= 31
      /\ In(<<198, 18, 0, 0>>, <<198, 19, 255, 255>>) <=> a = 198 /\ b \in {18, 19}
      /\ In(<<224, 0, 0, 0>>, <<255, 255, 255, 255>>) <=> 224 <= a
  BY OddSpans
<1>8. a >= 224 <=> 224 <= a
  BY DEF Octet
<1> HIDE DEF In
<1> QED BY <1>1, <1>3a, <1>3b, <1>3c, <1>4a, <1>4b, <1>5a, <1>5b, <1>5c, <1>6a, <1>6b, <1>7, <1>8 DEF InBlock

Address6 == {g \in Seq(Halves) : Len(g) = 8}

LEMMA GroupTyped ==
  ASSUME NEW g \in Address6, NEW k \in 1..8
  PROVE  g[k] \in Halves
<1>1. g \in Seq(Halves) /\ k \in 1..Len(g)
  BY DEF Address6
<1> QED BY <1>1

(* How the prefixes of the reference read group by group.                  *)
LEMMA PrefixesBlocked ==
  ASSUME NEW g \in Address6
  PROVE  /\ Begins(g, <<0, 0, 0, 0, 0, 0>>) <=> AllZero(g, 1, 6)
         /\ Begins(g, <<0, 0, 0, 0, 0, 65535>>) <=> AllZero(g, 1, 5) /\ g[6] = 65535
         /\ Begins(g, <<100, 65435, 0, 0, 0, 0>>)
            <=> g[1] = 100 /\ g[2] = 65435 /\ AllZero(g, 3, 6)
         /\ Begins(g, <<256, 0, 0, 0>>) <=> g[1] = 256 /\ AllZero(g, 2, 4)
         /\ Begins(g, <<8193, 3512>>) <=> g[1] = 8193 /\ g[2] = 3512
<1>1. Begins(g, <<0, 0, 0, 0, 0, 0>>) <=> AllZero(g, 1, 6)
  BY DEF Begins, AllZero
<1>2. Begins(g, <<0, 0, 0, 0, 0, 65535>>) <=> AllZero(g, 1, 5) /\ g[6] = 65535
  BY DEF Begins, AllZero
<1>3. Begins(g, <<100, 65435, 0, 0, 0, 0>>)
      <=> g[1] = 100 /\ g[2] = 65435 /\ AllZero(g, 3, 6)
  BY DEF Begins, AllZero
<1>4. Begins(g, <<256, 0, 0, 0>>) <=> g[1] = 256 /\ AllZero(g, 2, 4)
  BY DEF Begins, AllZero
<1>5. Begins(g, <<8193, 3512>>) <=> g[1] = 8193 /\ g[2] = 3512
  BY DEF Begins, AllZero
<1> QED BY <1>1, <1>2, <1>3, <1>4, <1>5

LEMMA Special ==
  ASSUME NEW g \in Address6
  PROVE  (\E last \in {0, 1} : Begins(g, <<0, 0, 0, 0, 0, 0, 0, last>>))
         <=> AllZero(g, 1, 7) /\ g[8] <= 1
<1>1. g[8] \in Nat
  <2>1. g[8] \in Halves
    BY GroupTyped
  <2> QED BY <2>1 DEF Halves
<1>2. \A last \in {0, 1} : Begins(g, <<0, 0, 0, 0, 0, 0, 0, last>>)
                           <=> AllZero(g, 1, 7) /\ g[8] = last
  BY DEF Begins, AllZero
<1>3. g[8] <= 1 <=> g[8] = 0 \/ g[8] = 1
  BY <1>1
<1> QED BY <1>2, <1>3

LEMMA Keeps ==
  ASSUME NEW h \in Halves
  PROVE  /\ (h \div 512) * 512 = 64512 <=> 64512 <= h /\ h <= 65023
         /\ (h \div 64) * 64 = 65152 <=> 65152 <= h /\ h <= 65215
         /\ (h \div 256) * 256 = 65280 <=> 65280 <= h /\ h <= 65535
BY DEF Halves

(* The octets of an embedded address.                                      *)
LEMMA Embedded ==
  ASSUME NEW h \in Halves, NEW l \in Halves
  PROVE  \E a, b, c, d \in Octet :
           embeddedIpv4(h, l) = <<a, b, c, d>> /\ Half(a, b) = h /\ Half(c, d) = l
<1>1. /\ h \div 256 \in Octet /\ h % 256 \in Octet
      /\ l \div 256 \in Octet /\ l % 256 \in Octet
  BY DEF Halves, Octet
<1>2. Half(h \div 256, h % 256) = h /\ Half(l \div 256, l % 256) = l
  BY DEF Halves, Half
<1> QED BY <1>1, <1>2 DEF embeddedIpv4

LEMMA Ipv4Agrees ==
  ASSUME NEW a \in Octet, NEW b \in Octet, NEW c \in Octet, NEW d \in Octet
  PROVE  classifyIpv4(<<a, b, c, d>>) <=> ListedIpv4(<<a, b, c, d>>)
BY Blocks, Between

LEMMA EmbeddedAgrees ==
  ASSUME NEW h \in Halves, NEW l \in Halves
  PROVE  classifyIpv4(embeddedIpv4(h, l)) <=> ListedIpv4(embeddedIpv4(h, l))
BY Embedded, Ipv4Agrees

(* What classifyIpv6 blocks.                                               *)
LEMMA Ipv6Agrees ==
  ASSUME NEW g \in Address6
  PROVE  classifyIpv6(g) <=> ListedIpv6(g)
<1>0. g \in Seq(Halves) /\ Len(g) = 8 /\ g # <<>>
  BY DEF Address6
<1>1. g[1] \in Halves /\ g[2] \in Halves /\ g[3] \in Halves /\ g[7] \in Halves /\ g[8] \in Halves
  BY GroupTyped
<1> DEFINE low == embeddedIpv4(g[7], g[8])
           tunnel == embeddedIpv4(g[2], g[3])
           special == AllZero(g, 1, 7) /\ g[8] <= 1
           ranges == \/ 64512 <= g[1] /\ g[1] <= 65023
                     \/ 65152 <= g[1] /\ g[1] <= 65215
                     \/ 65280 <= g[1] /\ g[1] <= 65535
           prefixes == (g[1] = 256 /\ AllZero(g, 2, 4)) \/ (g[1] = 8193 /\ g[2] = 3512)
<1>2. (\E last \in {0, 1} : Begins(g, <<0, 0, 0, 0, 0, 0, 0, last>>)) <=> special
  BY Special
<1>3. (\E prefix \in {<<0, 0, 0, 0, 0, 0>>, <<0, 0, 0, 0, 0, 65535>>, <<100, 65435, 0, 0, 0, 0>>} :
         Begins(g, prefix)) <=> CarriesIpv4(g)
  <2>1. AllZero(g, 1, 6) <=> AllZero(g, 1, 5) /\ g[6] = 0
    BY DEF AllZero
  <2> QED BY <2>1, PrefixesBlocked DEF CarriesIpv4
<1>4. /\ classifyIpv4(low) <=> ListedIpv4(low)
      /\ classifyIpv4(tunnel) <=> ListedIpv4(tunnel)
  BY <1>1, EmbeddedAgrees
<1>5. (\E o \in Carried(g) : ListedIpv4(o))
      <=> (CarriesIpv4(g) /\ ListedIpv4(low)) \/ (g[1] = 8194 /\ ListedIpv4(tunnel))
  <2>1. Carried(g) = (IF CarriesIpv4(g) THEN {low} ELSE {}) \cup (IF g[1] = 8194 THEN {tunnel} ELSE {})
    BY <1>3 DEF Carried
  <2> QED BY <2>1
<1>6. Keep(g[1], 7) = 64512 \/ Keep(g[1], 10) = 65152 \/ Keep(g[1], 8) = 65280 <=> ranges
  BY <1>1, KeptHigh, Keeps
<1>7. ListedIpv6(g) <=> \/ special
                        \/ CarriesIpv4(g) /\ ListedIpv4(low)
                        \/ g[1] = 8194 /\ ListedIpv4(tunnel)
                        \/ ranges \/ prefixes
  <2>1. (\E block \in {<<64512, 65023>>, <<65152, 65215>>, <<65280, 65535>>} :
           block[1] <= g[1] /\ g[1] <= block[2]) <=> ranges
    OBVIOUS
  <2>2. Begins(g, <<256, 0, 0, 0>>) \/ Begins(g, <<8193, 3512>>) <=> prefixes
    BY PrefixesBlocked
  <2> HIDE DEF ranges, prefixes, special, low, tunnel
  <2> QED BY ONLY <1>2, <1>5, <2>1, <2>2 DEF ListedIpv6
<1>8. classifyIpv6(g)
      <=> IF special THEN TRUE
          ELSE IF CarriesIpv4(g) THEN classifyIpv4(low)
          ELSE IF g[1] = 8194 THEN classifyIpv4(tunnel)
          ELSE ranges \/ prefixes
  <2> HIDE DEF ranges
  <2> QED BY <1>0, <1>6 DEF classifyIpv6
<1>9. CarriesIpv4(g) => g[1] \in {0, 100}
  BY DEF CarriesIpv4, AllZero
<1>10. /\ g[1] \in {0, 100} => ~ranges /\ ~prefixes
       /\ g[1] = 8194 => ~ranges /\ ~prefixes /\ g[1] \notin {0, 100}
  OBVIOUS
<1> HIDE DEF ranges, prefixes, special, low, tunnel
<1>11. \/ g[1] \in {0, 100} /\ ~ranges /\ ~prefixes /\ g[1] # 8194
       \/ ~CarriesIpv4(g) /\ g[1] = 8194 /\ ~ranges /\ ~prefixes
       \/ ~CarriesIpv4(g) /\ g[1] # 8194
  BY ONLY <1>9, <1>10
<1> QED BY ONLY <1>4, <1>7, <1>8, <1>11

----------------------------------------------------------------------------
(* How a text spells an address.                                           *)

(* n groups of an address.                                                 *)
Slice(g, from, n) == [k \in 1..n |-> g[from + k - 1]]

LEMMA PlainParts ==
  ASSUME NEW g \in Address6, NEW from \in Nat, NEW n \in Nat, from >= 1, from + n <= 9
  PROVE  /\ Len(Parts(g, from, from + n - 1, FALSE)) = n
         /\ Parts(g, from, from + n - 1, FALSE) = [k \in 1..n |-> <<g[from + k - 1]>>]
<1> DEFINE p == [k \in 1..n |-> <<g[from + k - 1]>>]
<1>1. (from + n - 1) - from + 1 = n
  OBVIOUS
<1>2. \A k \in 1..n : g[from + k - 1] \in Halves
  BY GroupTyped
<1>3. p \in Seq(Seq(Halves)) /\ Len(p) = n
  BY <1>2
<1>4. p \o <<>> = p
  <2> HIDE DEF p
  <2> QED BY <1>3
<1> QED BY <1>1, <1>3, <1>4, Zenon DEF Parts

LEMMA SameSeq ==
  ASSUME NEW s \in Seq(Halves), NEW t \in Seq(Halves), Len(s) = Len(t),
         \A k \in 1..Len(s) : s[k] = t[k]
  PROVE  s = t
OBVIOUS

LEMMA SliceTyped ==
  ASSUME NEW g \in Address6, NEW from \in Nat, NEW n \in Nat, from >= 1, from + n <= 9
  PROVE  /\ Slice(g, from, n) \in Seq(Halves) /\ Len(Slice(g, from, n)) = n
         /\ \A k \in 1..n : Slice(g, from, n)[k] = g[from + k - 1]
<1>1. \A k \in 1..n : g[from + k - 1] \in Halves
  BY GroupTyped
<1> QED BY <1>1 DEF Slice

LEMMA Joined ==
  ASSUME NEW s \in Seq(Halves), NEW t \in Seq(Halves)
  PROVE  /\ s \o t \in Seq(Halves) /\ Len(s \o t) = Len(s) + Len(t)
         /\ \A k \in 1..Len(s) : (s \o t)[k] = s[k]
         /\ \A k \in 1..Len(t) : (s \o t)[Len(s) + k] = t[k]
OBVIOUS

LEMMA SliceJoin ==
  ASSUME NEW g \in Address6, NEW from \in Nat, NEW n \in Nat, NEW m \in Nat,
         from >= 1, from + n + m <= 9
  PROVE  Slice(g, from, n) \o Slice(g, from + n, m) = Slice(g, from, n + m)
<1> DEFINE s == Slice(g, from, n)
           t == Slice(g, from + n, m)
           u == Slice(g, from, n + m)
<1>0. from + n <= 9 /\ from + n \in Nat /\ from + n >= 1
  OBVIOUS
<1>1. s \in Seq(Halves) /\ Len(s) = n /\ \A k \in 1..n : s[k] = g[from + k - 1]
  BY <1>0, SliceTyped
<1>2. t \in Seq(Halves) /\ Len(t) = m /\ \A k \in 1..m : t[k] = g[from + n + k - 1]
  BY <1>0, SliceTyped
<1>3. u \in Seq(Halves) /\ Len(u) = n + m /\ \A k \in 1..(n + m) : u[k] = g[from + k - 1]
  BY SliceTyped
<1> HIDE DEF s, t, u
<1>4. /\ s \o t \in Seq(Halves) /\ Len(s \o t) = n + m
      /\ \A k \in 1..n : (s \o t)[k] = s[k]
      /\ \A k \in 1..m : (s \o t)[n + k] = t[k]
  BY <1>1, <1>2, Joined
<1>5. ASSUME NEW k \in 1..(n + m) PROVE (s \o t)[k] = u[k]
  <2>0. u[k] = g[from + k - 1]
    BY <1>3
  <2>1. CASE k <= n
    <3>1. k \in 1..n
      BY <2>1
    <3> QED BY <1>1, <1>4, <2>0, <3>1
  <2>2. CASE k > n
    <3>1. k - n \in 1..m /\ n + (k - n) = k
      BY <2>2
    <3>2. (s \o t)[n + (k - n)] = t[k - n]
      BY <1>4, <3>1
    <3>3. t[k - n] = g[from + n + (k - n) - 1] /\ from + n + (k - n) - 1 = from + k - 1
      BY <1>2, <3>1
    <3> QED BY <2>0, <3>1, <3>2, <3>3
  <2>3. k <= n \/ k > n
    OBVIOUS
  <2> QED BY <2>1, <2>2, <2>3
<1> QED BY <1>3, <1>4, <1>5, SameSeq DEF s, t, u

LEMMA PlainExpands ==
  ASSUME NEW g \in Address6, NEW from \in Nat, NEW n \in Nat, from >= 1, from + n <= 9
  PROVE  /\ expandParts(Parts(g, from, from + n - 1, FALSE)) = Slice(g, from, n)
         /\ Parsable(Parts(g, from, from + n - 1, FALSE))
<1> DEFINE p == Parts(g, from, from + n - 1, FALSE)
<1>1. Len(p) = n /\ p = [k \in 1..n |-> <<g[from + k - 1]>>]
  BY PlainParts
<1> HIDE DEF p
<1>2. \A k \in 1..n : p[k] = <<g[from + k - 1]>> /\ Len(p[k]) = 1 /\ p[k][1] = g[from + k - 1]
  BY <1>1
<1>3. DOMAIN p = 1..n
  BY <1>1
<1>5. Parsable(p)
  BY <1>2, <1>3 DEF Parsable, Hextet
<1>6. CASE n = 0
  <2>1. p = <<>> /\ Slice(g, from, n) = <<>>
    BY <1>1, <1>6 DEF Slice
  <2> QED BY <2>1, <1>5 DEF expandParts, p
<1>7. CASE n > 0
  <2>1. p # <<>>
    <3>1. Len(p) > 0
      BY <1>1, <1>7
    <3>2. Len(<<>>) = 0
      OBVIOUS
    <3> QED BY <3>1, <3>2
  <2>2. [k \in 1..(Len(p) - 1) |-> p[k][1]] = Slice(g, from, n - 1)
    BY <1>1, <1>2, <1>7 DEF Slice
  <2>3. Groups(p[Len(p)]) = <<g[from + n - 1]>>
    BY <1>1, <1>2, <1>7 DEF Groups, Hextet
  <2>4. <<g[from + n - 1]>> = Slice(g, from + (n - 1), 1)
    <3>1. Slice(g, from + (n - 1), 1) = [k \in 1..1 |-> g[from + n - 1]]
      BY <1>7 DEF Slice
    <3> QED BY <3>1
  <2>5. Slice(g, from, n - 1) \o Slice(g, from + (n - 1), 1) = Slice(g, from, n)
    <3>1. n - 1 \in Nat /\ 1 \in Nat /\ from + (n - 1) + 1 <= 9 /\ (n - 1) + 1 = n
      BY <1>7
    <3> QED BY <3>1, SliceJoin
  <2>6. expandParts(p) = Slice(g, from, n - 1) \o <<g[from + n - 1]>>
    BY <2>1, <2>2, <2>3 DEF expandParts
  <2>7. expandParts(p) = Slice(g, from, n)
    BY <2>4, <2>5, <2>6
  <2> QED BY <2>7, <1>5, Zenon DEF p
<1>8. n = 0 \/ n > 0
  OBVIOUS
<1> QED BY <1>6, <1>7, <1>8, Zenon

LEMMA DottedExpands ==
  ASSUME NEW g \in Address6, NEW from \in Nat, NEW n \in Nat, from >= 1, from + n = 7
  PROVE  /\ expandParts(Parts(g, from, 6, TRUE)) = Slice(g, from, n + 2)
         /\ Parsable(Parts(g, from, 6, TRUE))
<1> DEFINE q == [k \in 1..n |-> <<g[from + k - 1]>>]
           o == embeddedIpv4(g[7], g[8])
           p == Parts(g, from, 6, TRUE)
<1>1. 6 - from + 1 = n
  OBVIOUS
<1>2. \A k \in 1..n : g[from + k - 1] \in Nat
  <2>1. \A k \in 1..n : g[from + k - 1] \in Halves
    BY GroupTyped
  <2> QED BY <2>1 DEF Halves
<1>3. g[7] \in Halves /\ g[8] \in Halves
  BY GroupTyped
<1>4. PICK a, b, c, d \in Octet : o = <<a, b, c, d>> /\ Half(a, b) = g[7] /\ Half(c, d) = g[8]
  BY <1>3, Embedded
<1>5. p = q \o <<o>>
  BY <1>1, Zenon DEF Parts
<1>6. Len(o) = 4 /\ o[1] = a /\ o[2] = b /\ o[3] = c /\ o[4] = d
  BY <1>4
<1>7. o \in Seq(Nat)
  BY <1>4 DEF Octet
<1>8. \A k \in 1..n : q[k] = <<g[from + k - 1]>> /\ Len(q[k]) = 1
  BY <1>2
<1>9. q \in Seq(Seq(Nat)) /\ Len(q) = n
  BY <1>2
<1> HIDE DEF o, p, q
<1>10. Len(p) = n + 1 /\ p[n + 1] = o /\ \A k \in 1..n : p[k] = q[k]
  BY <1>5, <1>7, <1>9
<1>11. DOMAIN p = 1..(n + 1)
  BY <1>5, <1>7, <1>9
<1>12. Parsable(p)
  <2>1. \A k \in 1..n : Len(p[k]) = 1
    BY <1>8, <1>10
  <2> QED BY <1>10, <1>11, <2>1 DEF Parsable, Hextet
<1>13. [k \in 1..(Len(p) - 1) |-> p[k][1]] = Slice(g, from, n)
  BY <1>8, <1>10 DEF Slice
<1>14. Groups(p[Len(p)]) = <<g[7], g[8]>>
  BY <1>4, <1>6, <1>10 DEF Groups, Hextet
<1>15. <<g[7], g[8]>> = Slice(g, from + n, 2)
  <2>1. \A k \in 1..2 : Slice(g, 7, 2)[k] = g[7 + k - 1]
    BY DEF Slice
  <2>2. Slice(g, 7, 2) \in Seq(Halves) /\ Len(Slice(g, 7, 2)) = 2
    <3>1. 7 \in Nat /\ 2 \in Nat /\ 7 >= 1 /\ 7 + 2 <= 9
      OBVIOUS
    <3> QED BY <3>1, SliceTyped
  <2>3. Slice(g, 7, 2)[1] = g[7] /\ Slice(g, 7, 2)[2] = g[8]
    BY <2>1
  <2>4. <<g[7], g[8]>> \in Seq(Halves) /\ Len(<<g[7], g[8]>>) = 2
    BY <1>3
  <2> QED BY <2>2, <2>3, <2>4, SameSeq
<1>16. Slice(g, from, n) \o Slice(g, from + n, 2) = Slice(g, from, n + 2)
  <2>1. from + n + 2 <= 9 /\ 2 \in Nat
    OBVIOUS
  <2> QED BY <2>1, SliceJoin
<1>17. p # <<>>
  <2>1. Len(p) > 0
    BY <1>10
  <2>2. Len(<<>>) = 0
    OBVIOUS
  <2> QED BY <2>1, <2>2
<1>18. expandParts(p) = Slice(g, from, n) \o <<g[7], g[8]>>
  BY <1>13, <1>14, <1>17 DEF expandParts
<1>19. expandParts(p) = Slice(g, from, n + 2)
  BY <1>15, <1>16, <1>18
<1> QED BY <1>12, <1>19, Zenon DEF p

LEMMA RestExpands ==
  ASSUME NEW g \in Address6, NEW from \in 1..9, NEW dotted \in BOOLEAN, dotted => from <= 7
  PROVE  LET p == Parts(g, from, IF dotted THEN 6 ELSE 8, dotted)
         IN expandParts(p) = Slice(g, from, 9 - from) /\ Parsable(p)
<1>1. CASE dotted = TRUE
  <2>1. /\ 7 - from \in Nat /\ from \in Nat /\ from >= 1
        /\ from + (7 - from) = 7 /\ (7 - from) + 2 = 9 - from
    BY <1>1
  <2>2. /\ expandParts(Parts(g, from, 6, TRUE)) = Slice(g, from, 9 - from)
        /\ Parsable(Parts(g, from, 6, TRUE))
    BY <2>1, DottedExpands
  <2> QED BY <1>1, <2>2, Zenon
<1>2. CASE dotted = FALSE
  <2>1. /\ 9 - from \in Nat /\ from \in Nat /\ from >= 1 /\ from + (9 - from) <= 9
        /\ from + (9 - from) - 1 = 8
    OBVIOUS
  <2>2. /\ expandParts(Parts(g, from, 8, FALSE)) = Slice(g, from, 9 - from)
        /\ Parsable(Parts(g, from, 8, FALSE))
    BY <2>1, PlainExpands
  <2> QED BY <1>2, <2>2, Zenon
<1> QED BY <1>1, <1>2, Zenon

LEMMA WholeSlice ==
  ASSUME NEW g \in Address6
  PROVE  Slice(g, 1, 8) = g
<1>1. g \in Seq(Halves) /\ Len(g) = 8
  BY DEF Address6
<1>2. 1 \in Nat /\ 8 \in Nat /\ 1 >= 1 /\ 1 + 8 <= 9
  OBVIOUS
<1>3. Slice(g, 1, 8) \in Seq(Halves) /\ Len(Slice(g, 1, 8)) = 8
  BY <1>2, SliceTyped
<1>4. \A k \in 1..8 : Slice(g, 1, 8)[k] = g[1 + k - 1]
  BY <1>2, SliceTyped
<1>5. \A k \in 1..8 : Slice(g, 1, 8)[k] = g[k]
  BY <1>4
<1> QED BY <1>1, <1>3, <1>5, SameSeq

(* A text that leaves no group out.                                        *)
LEMMA FullText ==
  ASSUME NEW g \in Address6, NEW dotted \in BOOLEAN
  PROVE  parseIpv6([head |-> Parts(g, 1, IF dotted THEN 6 ELSE 8, dotted), gap |-> FALSE,
                    tail |-> <<>>]) = g
<1> DEFINE p == Parts(g, 1, IF dotted THEN 6 ELSE 8, dotted)
           text == [head |-> p, gap |-> FALSE, tail |-> <<>>]
<1>1. expandParts(p) = g /\ Parsable(p)
  <2>1. 1 \in 1..9 /\ 9 - 1 = 8 /\ 1 <= 7
    OBVIOUS
  <2>2. expandParts(p) = Slice(g, 1, 9 - 1) /\ Parsable(p)
    BY <2>1, RestExpands, Zenon
  <2> QED BY <2>1, <2>2, WholeSlice
<1>2. Parsable(<<>>)
  BY DEF Parsable
<1>3. Len(g) = 8
  BY DEF Address6
<1> HIDE DEF p
<1>4. text.head = p /\ text.gap = FALSE /\ text.tail = <<>>
  OBVIOUS
<1> HIDE DEF text
<1>5. parseIpv6(text) = g
  BY <1>1, <1>2, <1>3, <1>4, Zenon DEF parseIpv6
<1> QED BY <1>5, Zenon DEF text, p

(* A text with "::" for the groups i..j.                                   *)
LEMMA GapText ==
  ASSUME NEW g \in Address6, NEW i \in 1..8, NEW j \in 1..8, NEW dotted \in BOOLEAN,
         dotted => j <= 6, i <= j, \A k \in i..j : g[k] = 0
  PROVE  parseIpv6([head |-> Parts(g, 1, i - 1, FALSE), gap |-> TRUE,
                    tail |-> Parts(g, j + 1, IF dotted THEN 6 ELSE 8, dotted)]) = g
<1> DEFINE p == Parts(g, 1, i - 1, FALSE)
           q == Parts(g, j + 1, IF dotted THEN 6 ELSE 8, dotted)
           text == [head |-> p, gap |-> TRUE, tail |-> q]
<1>0. PICK n \in Nat, m \in Nat, r \in Nat, next \in Nat :
         n = i - 1 /\ m = j - i + 1 /\ r = 8 - j /\ next = j + 1
  OBVIOUS
<1>1. /\ m >= 1 /\ 8 - n - r = m /\ n + m + r = 8 /\ 1 + n <= 9 /\ 1 + n + m = next
      /\ next \in 1..9 /\ 9 - next = r /\ next + r <= 9 /\ 1 + n - 1 = i - 1
  BY <1>0
<1>2. expandParts(p) = Slice(g, 1, n) /\ Parsable(p)
  <2>1. 1 \in Nat /\ 1 >= 1
    OBVIOUS
  <2>2. /\ expandParts(Parts(g, 1, 1 + n - 1, FALSE)) = Slice(g, 1, n)
        /\ Parsable(Parts(g, 1, 1 + n - 1, FALSE))
    BY <1>1, <2>1, PlainExpands
  <2> QED BY <1>1, <2>2, Zenon
<1>3. expandParts(q) = Slice(g, next, r) /\ Parsable(q)
  <2>1. q = Parts(g, next, IF dotted THEN 6 ELSE 8, dotted)
    BY <1>0
  <2> HIDE DEF q
  <2>2. expandParts(q) = Slice(g, next, 9 - next) /\ Parsable(q)
    <3>1. dotted => next <= 7
      BY <1>0
    <3> QED BY <1>1, <2>1, <3>1, RestExpands, Zenon
  <2> QED BY <1>1, <2>2, Zenon
<1> HIDE DEF p, q
<1>4. Len(Slice(g, 1, n)) = n /\ Len(Slice(g, next, r)) = r
  <2>1. 1 \in Nat /\ 1 >= 1 /\ next >= 1
    BY <1>1
  <2> QED BY <1>1, <2>1, SliceTyped
<1>5. Zeros(m) = Slice(g, 1 + n, m)
  <2>1. \A k \in 1..m : g[1 + n + k - 1] = 0
    BY <1>0
  <2> QED BY <2>1 DEF Zeros, Slice
<1>6. Slice(g, 1, n) \o Slice(g, 1 + n, m) = Slice(g, 1, n + m)
  <2>1. 1 \in Nat /\ 1 >= 1 /\ 1 + n + m <= 9
    BY <1>1
  <2> QED BY <2>1, SliceJoin
<1>7. Slice(g, 1, n + m) \o Slice(g, next, r) = g
  <2>0. PICK l \in Nat : l = n + m
    OBVIOUS
  <2>1. 1 \in Nat /\ 1 >= 1 /\ 1 + l + r <= 9 /\ 1 + l = next /\ l + r = 8
    BY <1>1, <2>0
  <2>2. Slice(g, 1, l) \o Slice(g, 1 + l, r) = Slice(g, 1, l + r)
    BY <2>1, SliceJoin
  <2> QED BY <2>0, <2>1, <2>2, WholeSlice
<1>8. text.head = p /\ text.gap = TRUE /\ text.tail = q
  OBVIOUS
<1> HIDE DEF text
<1>9. parseIpv6(text) = Slice(g, 1, n) \o Zeros(m) \o Slice(g, next, r)
  BY <1>1, <1>2, <1>3, <1>4, <1>8, Zenon DEF parseIpv6
<1>10. parseIpv6(text) = g
  BY <1>5, <1>6, <1>7, <1>9, Zenon
<1> QED BY <1>10, Zenon DEF text, p, q

LEMMA SpellingParses ==
  ASSUME NEW g \in Address6, NEW t \in Spellings(g)
  PROVE  parseIpv6(t) = g
<1>1. PICK i \in 1..8, j \in 1..8, dotted \in BOOLEAN :
         t = Spelling(g, i, j, dotted) /\ (dotted => j <= 6) /\ \A k \in i..j : g[k] = 0
  BY Zenon DEF Spellings
<1>2. CASE j < i
  <2>1. t = [head |-> Parts(g, 1, IF dotted THEN 6 ELSE 8, dotted), gap |-> FALSE, tail |-> <<>>]
    BY <1>1, <1>2, Zenon DEF Spelling
  <2> QED BY <2>1, FullText, Zenon
<1>3. CASE ~(j < i)
  <2>1. t = [head |-> Parts(g, 1, i - 1, FALSE), gap |-> TRUE,
             tail |-> Parts(g, j + 1, IF dotted THEN 6 ELSE 8, dotted)]
    BY <1>1, <1>3, Zenon DEF Spelling
  <2>2. i <= j
    BY <1>3
  <2>3. parseIpv6([head |-> Parts(g, 1, i - 1, FALSE), gap |-> TRUE,
                   tail |-> Parts(g, j + 1, IF dotted THEN 6 ELSE 8, dotted)]) = g
    BY <1>1, <2>2, GapText
  <2> QED BY <2>1, <2>3, Zenon
<1> QED BY <1>2, <1>3, Zenon

----------------------------------------------------------------------------
(* The addresses the specification asks about.                             *)
Address4 == {<<a, b, c, d>> : a \in Octet, b \in Octet, c \in Octet, d \in Octet}

LEMMA Quad ==
  ASSUME NEW o \in Address4
  PROVE  /\ o[1] \in Octet /\ o[2] \in Octet /\ o[3] \in Octet /\ o[4] \in Octet
         /\ o = <<o[1], o[2], o[3], o[4]>>
BY DEF Address4

LEMMA ListedTyped ==
  ASSUME NEW b \in Listed PROVE b[1] \in Address4 /\ b[2] \in Address4
<1>1. \A x \in {0, 2, 10, 16, 18, 19, 31, 51, 64, 88, 99, 100, 113, 127, 168, 169, 172, 192, 198, 203,
                224, 254, 255} : x \in Octet
  BY DEF Octet
<1>2. \A p, q, r, s \in Octet : <<p, q, r, s>> \in Address4
  BY DEF Address4
<1> QED BY <1>1, <1>2 DEF Listed

LEMMA BesideTyped ==
  ASSUME NEW o \in Address4, NEW step \in Int
  PROVE  Beside(o, step) \in Address4
<1> DEFINE low == Half(o[3], o[4]) + step
           high == (Half(o[1], o[2]) + low \div 65536) % 65536
<1>1. Half(o[3], o[4]) \in Int /\ Half(o[1], o[2]) \in Int
  BY Quad, HalfTyped DEF Halves
<1>2. low \in Int /\ low \div 65536 \in Int
  BY <1>1
<1> HIDE DEF low
<1>3. high \in Halves /\ low % 65536 \in Halves
  BY <1>1, <1>2 DEF Halves
<1> HIDE DEF high
<1>4. embeddedIpv4(high, low % 65536) \in Address4
  BY <1>3, Embedded DEF Address4
<1>5. Beside(o, step) = embeddedIpv4(high, low % 65536)
  BY DEF Beside, high, low
<1> QED BY <1>4, <1>5

LEMMA BordersTyped ==
  ASSUME NEW o \in Borders PROVE o \in Address4
<1>1. PICK b \in Listed : o \in {b[1], b[2], Beside(b[1], -1), Beside(b[2], 1)}
  BY DEF Borders
<1>2. b[1] \in Address4 /\ b[2] \in Address4
  BY ListedTyped
<1>3. Beside(b[1], -1) \in Address4 /\ Beside(b[2], 1) \in Address4
  BY <1>2, BesideTyped
<1> QED BY <1>1, <1>2, <1>3

LEMMA ZerosHalves ==
  ASSUME NEW n \in Nat PROVE Zeros(n) \in Seq(Halves) /\ Len(Zeros(n)) = n
<1>1. 0 \in Halves
  BY DEF Halves
<1> QED BY <1>1 DEF Zeros

LEMMA SampleTyped ==
  ASSUME NEW g \in SampleGroups PROVE g \in Address6
<1>2. /\ 0 \in Halves /\ 1 \in Halves /\ 100 \in Halves /\ 3512 \in Halves /\ 3513 \in Halves
      /\ 8194 \in Halves /\ 65435 \in Halves /\ 65535 \in Halves
  BY DEF Halves
<1>3. CASE g \in UNION {Carriers(o) : o \in Borders}
  <2>1. PICK o \in Borders : g \in Carriers(o)
    BY <1>3
  <2> DEFINE high == Half(o[1], o[2])
             low == Half(o[3], o[4])
  <2>2. high \in Halves /\ low \in Halves
    BY BordersTyped, Quad, HalfTyped
  <2>3. g \in {<<0, 0, 0, 0, 0, 0, high, low>>, <<0, 0, 0, 0, 0, 65535, high, low>>,
               <<0, 0, 0, 0, 65535, 0, high, low>>, <<100, 65435, 0, 0, 0, 0, high, low>>,
               <<8194, high, low, 0, 0, 0, 0, 1>>}
    BY <2>1 DEF Carriers
  <2> HIDE DEF high, low
  <2>4. /\ <<0, 0, 0, 0, 0, 0, high, low>> \in Address6
        /\ <<0, 0, 0, 0, 0, 65535, high, low>> \in Address6
        /\ <<0, 0, 0, 0, 65535, 0, high, low>> \in Address6
    BY <1>2, <2>2 DEF Address6
  <2>5. /\ <<100, 65435, 0, 0, 0, 0, high, low>> \in Address6
        /\ <<8194, high, low, 0, 0, 0, 0, 1>> \in Address6
    BY <1>2, <2>2 DEF Address6
  <2> QED BY <2>3, <2>4, <2>5
<1>4. CASE g \in Prefixed
  <2>1. PICK h \in {256, 8192, 8193, 64511, 64512, 65023, 65024, 65151, 65152, 65215, 65216,
                    65279, 65280, 65535}, n \in {0, 3512, 3513} :
          g = <<h, n, 0, 0, 0, 0, 0, 1>>
    BY <1>4 DEF Prefixed
  <2>2. h \in Halves /\ n \in Halves
    BY DEF Halves
  <2> QED BY <1>2, <2>1, <2>2 DEF Address6
<1> QED BY <1>3, <1>4, Zenon DEF SampleGroups

(* Texts that are no address.                                              *)
LEMMA OddTexts ==
  ASSUME NEW t \in Unparsable PROVE parseIpv6(t) = <<>>
<1>1. CASE \E n \in {7, 9} :
             t = [head |-> Parts(Zeros(9), 1, n, FALSE), gap |-> FALSE, tail |-> <<>>]
  <2>1. PICK n \in {7, 9} :
          t = [head |-> Parts(Zeros(9), 1, n, FALSE), gap |-> FALSE, tail |-> <<>>]
    BY <1>1
  <2> DEFINE p == Parts(Zeros(9), 1, n, FALSE)
             most == [k \in 1..(n - 1) |-> 0]
  <2>2. p = [k \in 1..n |-> <<0>>]
    <3>1. n - 1 + 1 = n /\ \A k \in 1..n : 1 + k - 1 \in 1..9
      OBVIOUS
    <3>2. [k \in 1..n |-> <<Zeros(9)[1 + k - 1]>>] = [k \in 1..n |-> <<0>>]
      BY <3>1 DEF Zeros
    <3>3. [k \in 1..n |-> <<0>>] \in Seq(Seq(Nat))
      OBVIOUS
    <3>4. [k \in 1..n |-> <<0>>] \o <<>> = [k \in 1..n |-> <<0>>]
      BY <3>3
    <3> QED BY <3>1, <3>2, <3>4, Zenon DEF Parts
  <2> HIDE DEF p
  <2>3. Len(p) = n /\ \A k \in 1..n : p[k] = <<0>> /\ Len(p[k]) = 1 /\ p[k][1] = 0
    BY <2>2
  <2>4. p # <<>>
    <3>1. Len(p) > 0
      BY <2>3
    <3>2. Len(<<>>) = 0
      OBVIOUS
    <3> QED BY <3>1, <3>2
  <2>5. [k \in 1..(Len(p) - 1) |-> p[k][1]] = most
    BY <2>3
  <2>6. Groups(p[Len(p)]) = <<0>>
    BY <2>3 DEF Groups, Hextet
  <2>7. most \in Seq(Nat) /\ Len(most) = n - 1
    OBVIOUS
  <2> HIDE DEF most
  <2>8. expandParts(p) = most \o <<0>>
    BY <2>4, <2>5, <2>6 DEF expandParts
  <2>9. Len(expandParts(p)) # 8
    BY <2>7, <2>8
  <2>10. t.head = p /\ t.gap = FALSE
    BY <2>1 DEF p
  <2> QED BY <2>9, <2>10, Zenon DEF parseIpv6
<1>2. CASE t = [head |-> <<<<8, 8, 8, 8>>, <<1>>>>, gap |-> TRUE, tail |-> <<>>]
  <2> DEFINE p == <<<<8, 8, 8, 8>>, <<1>>>>
  <2>1. DOMAIN p = 1..2 /\ Len(p) = 2 /\ Len(p[1]) = 4
    OBVIOUS
  <2>2. t.head = p
    BY <1>2
  <2> HIDE DEF p
  <2>3. ~Parsable(p)
    BY <2>1 DEF Parsable, Hextet
  <2> QED BY <2>2, <2>3, Zenon DEF parseIpv6
<1>3. CASE t = [head |-> Parts(Zeros(8), 1, 8, FALSE), gap |-> TRUE, tail |-> <<>>]
  <2> DEFINE p == Parts(Zeros(8), 1, 8, FALSE)
  <2>1. Zeros(8) \in Address6
    BY ZerosHalves DEF Address6
  <2>2. expandParts(p) = Slice(Zeros(8), 1, 8)
    <3>1. 1 \in Nat /\ 8 \in Nat /\ 1 >= 1 /\ 1 + 8 <= 9 /\ 1 + 8 - 1 = 8
      OBVIOUS
    <3> QED BY <2>1, <3>1, PlainExpands
  <2>3. Len(expandParts(p)) = 8
    BY <2>1, <2>2, WholeSlice, ZerosHalves
  <2>4. expandParts(<<>>) = <<>> /\ Len(<<>>) = 0
    BY DEF expandParts
  <2>5. t.head = p /\ t.gap = TRUE /\ t.tail = <<>>
    BY <1>3
  <2> HIDE DEF p
  <2>6. 8 - Len(expandParts(t.head)) - Len(expandParts(t.tail)) = 0
    <3>1. Len(expandParts(t.head)) = 8 /\ Len(expandParts(t.tail)) = 0
      BY <2>3, <2>4, <2>5, Zenon
    <3> QED BY <3>1
  <2>7. ~(0 >= 1)
    OBVIOUS
  <2> QED BY <2>5, <2>6, <2>7, Zenon DEF parseIpv6
<1> QED BY <1>1, <1>2, <1>3 DEF Unparsable

LEMMA QuestionsAgree ==
  ASSUME NEW q \in Ipv4Questions \cup Ipv6Questions
  PROVE  (q.refuse => classifyIpAddress(q)) /\ (q.admit => ~classifyIpAddress(q))
<1>1. CASE q \in Ipv4Questions
  <2>1. PICK o \in Borders :
          q = [version |-> 4, octets |-> o, text |-> "none",
               refuse |-> ListedIpv4(o), admit |-> ~ListedIpv4(o)]
    BY <1>1 DEF Ipv4Questions
  <2>2. o \in Address4
    BY BordersTyped
  <2>3. classifyIpv4(o) <=> ListedIpv4(o)
    <3>1. classifyIpv4(<<o[1], o[2], o[3], o[4]>>) <=> ListedIpv4(<<o[1], o[2], o[3], o[4]>>)
      BY <2>2, Quad, Ipv4Agrees
    <3> QED BY <2>2, <3>1, Quad
  <2> QED BY <2>1, <2>3 DEF classifyIpAddress
<1>2. CASE \E t \in Unparsable :
             q = [version |-> 6, octets |-> <<>>, text |-> t, refuse |-> TRUE, admit |-> FALSE]
  <2>1. PICK t \in Unparsable :
          q = [version |-> 6, octets |-> <<>>, text |-> t, refuse |-> TRUE, admit |-> FALSE]
    BY <1>2
  <2>2. classifyIpv6(parseIpv6(t))
    BY OddTexts DEF classifyIpv6
  <2> QED BY <2>1, <2>2 DEF classifyIpAddress
<1>3. CASE \E g \in SampleGroups : \E t \in Spellings(g) :
             q = [version |-> 6, octets |-> <<>>, text |-> t,
                  refuse |-> ListedIpv6(g), admit |-> PublicIpv6(g)]
  <2>0. PICK g \in SampleGroups : \E t \in Spellings(g) :
          q = [version |-> 6, octets |-> <<>>, text |-> t,
               refuse |-> ListedIpv6(g), admit |-> PublicIpv6(g)]
    BY <1>3
  <2>1. PICK t \in Spellings(g) :
          q = [version |-> 6, octets |-> <<>>, text |-> t,
               refuse |-> ListedIpv6(g), admit |-> PublicIpv6(g)]
    BY <2>0
  <2>2. g \in Address6
    BY SampleTyped
  <2>3. classifyIpv6(parseIpv6(t)) <=> ListedIpv6(g)
    BY <2>2, SpellingParses, Ipv6Agrees
  <2>4. PublicIpv6(g) => ~ListedIpv6(g)
    BY DEF PublicIpv6
  <2>5. q.version = 6 /\ q.text = t /\ q.refuse = ListedIpv6(g) /\ q.admit = PublicIpv6(g)
    BY <2>1
  <2>6. classifyIpAddress(q) <=> ListedIpv6(g)
    BY <2>3, <2>5 DEF classifyIpAddress
  <2> QED BY <2>4, <2>5, <2>6, Zenon
<1> QED BY <1>1, <1>2, <1>3 DEF Ipv6Questions

(* A question that is not about a URL is about an address, and the answer  *)
(* is the function's.                                                      *)
AddressInv ==
  asked.version # 0 =>
    /\ asked \in Ipv4Questions \cup Ipv6Questions
    /\ answer # <<>> => answer = <<[blocked |-> classifyIpAddress(asked)]>>

LEMMA AddressStart == RulesInit => AddressInv
BY DEF RulesInit, AddressInv

LEMMA AddressStep == AddressInv /\ [RulesNext]_ruleVars => AddressInv'
<1> SUFFICES ASSUME AddressInv, [RulesNext]_ruleVars PROVE AddressInv'
  OBVIOUS
<1>1. CASE JudgeAddress
  BY <1>1 DEF JudgeAddress, AddressInv
<1>2. CASE JudgeUrl
  BY <1>2 DEF JudgeUrl, AddressInv
<1>3. CASE UNCHANGED ruleVars
  BY <1>3 DEF ruleVars, AddressInv
<1> QED BY <1>1, <1>2, <1>3 DEF RulesNext

LEMMA AddressFollow == AddressInv => AddressesAgree
<1> SUFFICES ASSUME AddressInv, answer # <<>>, asked.version # 0
             PROVE  /\ asked.refuse => answer[1].blocked
                    /\ asked.admit => ~answer[1].blocked
  BY DEF AddressesAgree
<1>1. asked \in Ipv4Questions \cup Ipv6Questions
  BY DEF AddressInv
<1>2. answer[1].blocked = classifyIpAddress(asked)
  BY DEF AddressInv
<1> QED BY <1>1, <1>2, QuestionsAgree

(* For every IPv4 address, and for every text of every IPv6 address (with  *)
(* "::" for any of its zeros or none, with a dotted suffix or not): what   *)
(* the code refuses is exactly what its list of blocks names, or what      *)
(* stands for an address that it names (url/ip.ts).                        *)
THEOREM EveryAddressJudged ==
  /\ \A o \in Address4 : classifyIpv4(o) <=> ListedIpv4(o)
  /\ \A g \in Address6 : \A t \in Spellings(g) : classifyIpv6(parseIpv6(t)) <=> ListedIpv6(g)
<1>1. ASSUME NEW o \in Address4 PROVE classifyIpv4(o) <=> ListedIpv4(o)
  <2>1. classifyIpv4(<<o[1], o[2], o[3], o[4]>>) <=> ListedIpv4(<<o[1], o[2], o[3], o[4]>>)
    BY Quad, Ipv4Agrees
  <2> QED BY <2>1, Quad
<1>2. ASSUME NEW g \in Address6, NEW t \in Spellings(g)
      PROVE  classifyIpv6(parseIpv6(t)) <=> ListedIpv6(g)
  BY SpellingParses, Ipv6Agrees
<1> QED BY <1>1, <1>2

(* There are addresses that the list does not name and that are not public *)
(* unicast either, site-local ones (fec0::1) and ::ffff:0:10.0.0.1 among   *)
(* them, and the code admits them, however they are spelled: its answer to *)
(* what it does not know is ALLOWED, while the head of ip.ts says that     *)
(* what is not provably public unicast is blocked.                         *)
Neither == {<<65216, 0, 0, 0, 0, 0, 0, 1>>, <<65024, 0, 0, 0, 0, 0, 0, 1>>,
            <<64511, 0, 0, 0, 0, 0, 0, 1>>, <<0, 0, 0, 0, 65535, 0, 2560, 1>>}

THEOREM UnknownIsAdmitted ==
  \A g \in Neither : /\ ~ListedIpv6(g) /\ ~PublicIpv6(g)
                     /\ \A t \in Spellings(g) : ~classifyIpv6(parseIpv6(t))
<1> SUFFICES ASSUME NEW g \in Neither
             PROVE  /\ ~ListedIpv6(g) /\ ~PublicIpv6(g)
                    /\ \A t \in Spellings(g) : ~classifyIpv6(parseIpv6(t))
  OBVIOUS
<1>1. g \in Address6
  <2>1. CASE g = <<65216, 0, 0, 0, 0, 0, 0, 1>>
    BY <2>1 DEF Address6, Halves
  <2>2. CASE g = <<65024, 0, 0, 0, 0, 0, 0, 1>>
    BY <2>2 DEF Address6, Halves
  <2>3. CASE g = <<64511, 0, 0, 0, 0, 0, 0, 1>>
    BY <2>3 DEF Address6, Halves
  <2>4. CASE g = <<0, 0, 0, 0, 65535, 0, 2560, 1>>
    BY <2>4 DEF Address6, Halves
  <2> QED BY <2>1, <2>2, <2>3, <2>4 DEF Neither
<1>2. /\ g[1] \in {0, 64511, 65024, 65216}
      /\ g[1] = 0 => g[5] = 65535
      /\ g[1] # 0 => g[2] = 0
  BY DEF Neither
<1>3. Carried(g) = {}
  <2>1. \A prefix \in {<<0, 0, 0, 0, 0, 0>>, <<0, 0, 0, 0, 0, 65535>>,
                       <<100, 65435, 0, 0, 0, 0>>} : ~Begins(g, prefix)
    BY <1>2 DEF Begins
  <2>2. ~(g[1] = 8194)
    BY <1>2
  <2>3. ~\E prefix \in {<<0, 0, 0, 0, 0, 0>>, <<0, 0, 0, 0, 0, 65535>>,
                        <<100, 65435, 0, 0, 0, 0>>} : Begins(g, prefix)
    BY <2>1
  <2> QED BY ONLY <2>2, <2>3 DEF Carried
<1>4. ~ListedIpv6(g)
  <2>1. \A last \in {0, 1} : ~Begins(g, <<0, 0, 0, 0, 0, 0, 0, last>>)
    BY <1>2 DEF Begins
  <2>2. ~Begins(g, <<256, 0, 0, 0>>) /\ ~Begins(g, <<8193, 3512>>)
    BY <1>2 DEF Begins
  <2>3. ~\E block \in {<<64512, 65023>>, <<65152, 65215>>, <<65280, 65535>>} :
          block[1] <= g[1] /\ g[1] <= block[2]
    BY <1>2
  <2> QED BY <1>3, <2>1, <2>2, <2>3 DEF ListedIpv6
<1>5. ~PublicIpv6(g)
  <2>1. ~(8192 <= g[1] /\ g[1] <= 16383)
    BY ONLY <1>2
  <2> QED BY ONLY <1>3, <2>1 DEF PublicIpv6
<1>6. \A t \in Spellings(g) : ~classifyIpv6(parseIpv6(t))
  BY <1>1, <1>4, SpellingParses, Ipv6Agrees
<1> QED BY <1>4, <1>5, <1>6

(* AddressesAgree: classifyIpAddress refuses what its list names and what  *)
(* is no address, and admits what is public unicast, for the borders the   *)
(* specification asks about and the texts that are none.                   *)
THEOREM AddressesJudged == RulesSpec => []AddressesAgree
<1>1. RulesInit => AddressInv
  BY AddressStart
<1>2. AddressInv /\ [RulesNext]_ruleVars => AddressInv'
  BY AddressStep
<1>3. AddressInv => AddressesAgree
  BY AddressFollow
<1> QED BY <1>1, <1>2, <1>3, PTL DEF RulesSpec

----------------------------------------------------------------------------
(* The URLs of websites.                                                   *)

(* Any URL, its ports from the set P.                                      *)
Urls(P) ==
  [scheme : {"none", "http", "https", "other"}, user : BOOLEAN, host : Hosts, www : BOOLEAN,
   dot : BOOLEAN, port : P, segment : BOOLEAN, slashes : Nat, query : BOOLEAN,
   fragment : BOOLEAN]

LEMMA TypedAreUrls ==
  ASSUME NEW u \in TypedUrls PROVE u \in Urls({"none", "80", "443", "8443"})
<1> DEFINE P == {"none", "80", "443", "8443"}
           first == [scheme : {"none", "http", "https", "other"}, user : BOOLEAN, host : Hosts,
                     www : {FALSE}, dot : {FALSE}, port : P, segment : {FALSE}, slashes : {0},
                     query : {FALSE}, fragment : {FALSE}]
           second == [scheme : {"http", "https"}, user : {FALSE}, host : {"name"}, www : BOOLEAN,
                      dot : BOOLEAN, port : {"none", "80", "443"}, segment : BOOLEAN,
                      slashes : 0..2, query : BOOLEAN, fragment : BOOLEAN]
<1>1. u = [scheme |-> u.scheme, user |-> u.user, host |-> u.host, www |-> u.www, dot |-> u.dot,
           port |-> u.port, segment |-> u.segment, slashes |-> u.slashes, query |-> u.query,
           fragment |-> u.fragment]
  <2>1. CASE u \in first
    BY <2>1
  <2>2. CASE u \in second
    BY <2>2
  <2> QED
    BY <2>1, <2>2 DEF TypedUrls
<1>2. u.scheme \in {"none", "http", "https", "other"} /\ u.user \in BOOLEAN /\ u.host \in Hosts
  BY DEF TypedUrls, Hosts
<1>3. u.www \in BOOLEAN /\ u.dot \in BOOLEAN /\ u.port \in P /\ u.segment \in BOOLEAN
  BY DEF TypedUrls
<1>4. u.slashes \in Nat /\ u.query \in BOOLEAN /\ u.fragment \in BOOLEAN
  <2>1. u.slashes \in {0} \cup 0..2 /\ u.query \in BOOLEAN /\ u.fragment \in BOOLEAN
    BY DEF TypedUrls
  <2> QED
    BY <2>1
<1> HIDE DEF P
<1>5. u \in Urls(P)
  BY <1>1, <1>2, <1>3, <1>4 DEF Urls
<1> QED
  BY <1>5 DEF P

(* A URL is its parts.                                                     *)
LEMMA SameParts ==
  ASSUME NEW P, NEW u \in Urls(P), NEW v \in Urls(P),
         u.scheme = v.scheme, u.user = v.user, u.host = v.host, u.www = v.www, u.dot = v.dot,
         u.port = v.port, u.segment = v.segment, u.slashes = v.slashes, u.query = v.query,
         u.fragment = v.fragment
  PROVE  u = v
BY DEF Urls

LEMMA TypesOfParts ==
  ASSUME NEW P, NEW u \in Urls(P)
  PROVE  /\ u.scheme \in {"none", "http", "https", "other"}
         /\ u.user \in BOOLEAN /\ u.host \in Hosts /\ u.www \in BOOLEAN /\ u.dot \in BOOLEAN
         /\ u.port \in P /\ u.segment \in BOOLEAN /\ u.slashes \in Nat
         /\ u.query \in BOOLEAN /\ u.fragment \in BOOLEAN
BY DEF Urls

LEMMA AcceptedScheme ==
  ASSUME NEW P, NEW u \in Urls(P), Reason(u) = "none"
  PROVE  /\ u.host \in {"name", "publicIp"} /\ ~u.user
         /\ EffectiveScheme(u) \in {"http", "https"}
BY TypesOfParts DEF Reason, Hosts

(* What is stored has the parts that Href leaves or sets.                  *)
LEMMA HrefFields ==
  ASSUME NEW P, NEW u \in Urls(P)
  PROVE  LET h == Href(u) IN
         /\ h.scheme = EffectiveScheme(u) /\ h.user = u.user /\ h.host = u.host /\ h.www = u.www
         /\ h.dot = FALSE /\ h.fragment = FALSE /\ h.segment = u.segment /\ h.query = u.query
         /\ h.port = (IF u.port = defaultPortFor(EffectiveScheme(u)) THEN "none" ELSE u.port)
         /\ h.slashes = (IF u.segment \/ u.slashes > 1 THEN u.slashes ELSE 1)
BY DEF Href, Urls

LEMMA HrefTyped ==
  ASSUME NEW P, "none" \in P, NEW u \in Urls(P),
         EffectiveScheme(u) \in {"none", "http", "https", "other"}
  PROVE  Href(u) \in Urls(P)
<1> DEFINE s == EffectiveScheme(u)
           p == IF u.port = defaultPortFor(s) THEN "none" ELSE u.port
           n == IF u.segment \/ u.slashes > 1 THEN u.slashes ELSE 1
<1>1. s \in {"none", "http", "https", "other"}
  OBVIOUS
<1>2. p \in P /\ n \in Nat
  BY TypesOfParts
<1>3. Href(u) = [u EXCEPT !.scheme = s, !.dot = FALSE, !.fragment = FALSE, !.port = p,
                          !.slashes = n]
  BY DEF Href, Urls
<1> HIDE DEF s, p, n
<1>4. [u EXCEPT !.scheme = s, !.dot = FALSE, !.fragment = FALSE, !.port = p, !.slashes = n]
        \in Urls(P)
  BY <1>1, <1>2 DEF Urls
<1> QED
  BY <1>3, <1>4

LEMMA HrefIsUrl ==
  ASSUME NEW P, "none" \in P, NEW u \in Urls(P), Reason(u) = "none"
  PROVE  /\ Href(u) \in Urls(P) /\ EffectiveScheme(Href(u)) = EffectiveScheme(u)
         /\ Reason(Href(u)) = "none"
<1>1. EffectiveScheme(u) \in {"http", "https"} /\ u.host \in {"name", "publicIp"} /\ ~u.user
  BY AcceptedScheme
<1>2. Href(u) \in Urls(P)
  BY <1>1, HrefTyped
<1>3. EffectiveScheme(Href(u)) = EffectiveScheme(u)
  BY <1>1, HrefFields DEF EffectiveScheme
<1>4. Href(u) # Blank
  <2>1. Blank.host = "none"
    BY DEF Blank
  <2> QED
    BY <1>1, <2>1, HrefFields
<1>5. /\ EffectiveScheme(Href(u)) \in {"http", "https"} /\ Href(u).user = FALSE
      /\ Href(u).host \in {"name", "publicIp"}
  BY <1>1, <1>3, HrefFields, TypesOfParts
<1>6. Reason(Href(u)) = "none"
  <2> DEFINE h == Href(u)
  <2> HIDE DEF h
  <2> SUFFICES Reason(h) = "none"
    BY DEF h
  <2>1. h # Blank /\ EffectiveScheme(h) \in {"http", "https"} /\ h.user = FALSE
        /\ h.host \in {"name", "publicIp"}
    BY <1>4, <1>5 DEF h
  <2> QED
    BY <2>1 DEF Reason
<1> QED
  BY <1>2, <1>3, <1>6

(* Normalizing the stored URL once more changes nothing, for every URL     *)
(* that is accepted: what the worker reads is what was validated.          *)
THEOREM StoredStays ==
  ASSUME NEW P, "none" \in P, NEW u \in Urls(P), Reason(u) = "none"
  PROVE  normalizeWebsiteUrl(Href(u)) = normalizeWebsiteUrl(u)
<1>1. Href(Href(u)) = Href(u)
  <2>1. EffectiveScheme(Href(u)) = EffectiveScheme(u) /\ Href(u) \in Urls(P)
    BY HrefIsUrl
  <2>2. Href(u).port # defaultPortFor(EffectiveScheme(u))
    BY HrefFields, AcceptedScheme DEF defaultPortFor
  <2> DEFINE h == Href(u)
  <2>3. h \in Urls(P) /\ Href(h) \in Urls(P)
    BY <2>1, HrefIsUrl
  <2>4. h.dot = FALSE /\ h.fragment = FALSE /\ h.scheme = EffectiveScheme(h)
    BY <2>1, HrefFields
  <2>5. h.segment \/ h.slashes > 1 \/ h.slashes = 1
    BY HrefFields, TypesOfParts
  <2>6. h.port # defaultPortFor(EffectiveScheme(h))
    BY <2>1, <2>2
  <2> HIDE DEF h
  <2>7. Href(h) = h
    <3> DEFINE k == Href(h)
    <3>1. /\ k.scheme = h.scheme /\ k.user = h.user /\ k.host = h.host /\ k.www = h.www
          /\ k.dot = h.dot /\ k.fragment = h.fragment /\ k.segment = h.segment
          /\ k.query = h.query
      BY <2>3, <2>4, HrefFields
    <3>2. k.port = h.port /\ k.slashes = h.slashes
      BY <2>3, <2>5, <2>6, HrefFields
    <3>3. k \in Urls(P)
      BY <2>3
    <3> HIDE DEF k
    <3>4. k = h
      BY <2>3, <3>1, <3>2, <3>3, SameParts
    <3> QED
      BY <3>4 DEF k
  <2> QED
    BY <2>7 DEF h
<1>2. CanonicalKey(Href(u)) = CanonicalKey(u)
  BY <1>1, HrefFields DEF CanonicalKey
<1> QED
  BY <1>1, <1>2, HrefIsUrl DEF normalizeWebsiteUrl

(* What may differ between the stored forms of one website, taken from b.   *)
Respelled(a, b) ==
  [a EXCEPT !.scheme = b.scheme, !.www = b.www, !.slashes = b.slashes]

(* For any ports and any two URLs that are accepted: the canonical keys are *)
(* equal exactly for the same website, and then the stored URLs differ in  *)
(* scheme, www. and slashes only (url/normalize.ts).                       *)
THEOREM KeysTell ==
  ASSUME NEW P, "none" \in P, NEW u \in Urls(P), NEW v \in Urls(P),
         Reason(u) = "none", Reason(v) = "none"
  PROVE  LET same == CanonicalKey(v) = CanonicalKey(u) IN
         /\ same <=> SameSite(v, u)
         /\ same => Href(v) = Respelled(Href(u), Href(v))
<1>1. /\ EffectiveScheme(u) \in {"http", "https"} /\ u.user = FALSE
      /\ EffectiveScheme(v) \in {"http", "https"} /\ v.user = FALSE
  BY AcceptedScheme, TypesOfParts
<1>2. CanonicalKey(v) = CanonicalKey(u)
        <=> /\ v.host = u.host /\ Href(v).port = Href(u).port /\ v.segment = u.segment
            /\ v.query = u.query
  BY DEF CanonicalKey
<1>3. CanonicalKey(v) = CanonicalKey(u) <=> SameSite(v, u)
  BY <1>1, <1>2, HrefFields DEF SameSite, defaultPortFor
<1>4. ASSUME CanonicalKey(v) = CanonicalKey(u)
      PROVE  Href(v) = Respelled(Href(u), Href(v))
  <2> DEFINE a == Href(u)
             b == Href(v)
             c == Respelled(a, b)
  <2>1. /\ b.host = a.host /\ b.port = a.port /\ b.segment = a.segment /\ b.query = a.query
    BY <1>2, <1>4, HrefFields
  <2>2. b.user = a.user /\ b.dot = a.dot /\ b.fragment = a.fragment
    BY <1>1, HrefFields
  <2>3. a \in Urls(P) /\ b \in Urls(P)
    BY HrefIsUrl
  <2> HIDE DEF a, b
  <2>4. b.scheme \in {"none", "http", "https", "other"} /\ b.www \in BOOLEAN /\ b.slashes \in Nat
    BY <2>3, TypesOfParts
  <2>5. c \in Urls(P)
    BY <2>3, <2>4 DEF Urls, Respelled
  <2>6. /\ c.scheme = b.scheme /\ c.www = b.www /\ c.slashes = b.slashes
        /\ c.user = a.user /\ c.host = a.host /\ c.dot = a.dot /\ c.port = a.port
        /\ c.segment = a.segment /\ c.query = a.query /\ c.fragment = a.fragment
    BY <2>3 DEF Urls, Respelled
  <2>7. b = c
    <3> HIDE DEF c
    <3> QED
      BY <2>1, <2>2, <2>3, <2>5, <2>6, SameParts
  <2> QED
    BY <2>7 DEF a, b
<1> QED
  BY <1>3, <1>4

(* A question about a URL asks for a typed one, and the answer is the      *)
(* function's.                                                             *)
RulesInv ==
  asked.version = 0 =>
    /\ asked.url \in TypedUrls
    /\ answer # <<>> => answer = <<normalizeWebsiteUrl(asked.url)>>

LEMMA RulesStart == RulesInit => RulesInv
<1> SUFFICES ASSUME RulesInit PROVE RulesInv
  OBVIOUS
<1>1. CASE asked \in Ipv4Questions \cup Ipv6Questions
  <2>1. asked.version \in {4, 6}
    BY <1>1 DEF Ipv4Questions, Ipv6Questions
  <2> QED
    BY <2>1 DEF RulesInv
<1>2. CASE asked \in {[version |-> 0, url |-> u] : u \in TypedUrls}
  BY <1>2 DEF RulesInit, RulesInv
<1> QED
  BY <1>1, <1>2 DEF RulesInit

LEMMA RulesStep == RulesInv /\ [RulesNext]_ruleVars => RulesInv'
<1> SUFFICES ASSUME RulesInv, [RulesNext]_ruleVars PROVE RulesInv'
  OBVIOUS
<1>1. CASE JudgeAddress
  BY <1>1 DEF JudgeAddress, RulesInv
<1>2. CASE JudgeUrl
  BY <1>2 DEF JudgeUrl, RulesInv
<1>3. CASE UNCHANGED ruleVars
  BY <1>3 DEF ruleVars, RulesInv
<1> QED
  BY <1>1, <1>2, <1>3 DEF RulesNext

LEMMA KeysFollow == RulesInv => KeysNameWebsites
<1> SUFFICES ASSUME RulesInv, answer # <<>>, asked.version = 0, answer[1].ok
             PROVE  /\ normalizeWebsiteUrl(answer[1].href) = answer[1]
                    /\ \A v \in {u \in TypedUrls : Reason(u) = "none"} :
                         LET mine == answer[1].href
                             other == Href(v)
                             same == CanonicalKey(v) = answer[1].key
                         IN /\ same <=> SameSite(v, asked.url)
                            /\ same => other = [mine EXCEPT !.scheme = other.scheme,
                                                  !.www = other.www, !.slashes = other.slashes]
  BY DEF KeysNameWebsites
<1> DEFINE u == asked.url
           P == {"none", "80", "443", "8443"}
<1>1. u \in TypedUrls /\ answer[1] = normalizeWebsiteUrl(u)
  BY DEF RulesInv
<1>2. Reason(u) = "none" /\ answer[1].href = Href(u) /\ answer[1].key = CanonicalKey(u)
  BY <1>1 DEF normalizeWebsiteUrl
<1>3. u \in Urls(P) /\ "none" \in P
  BY <1>1, TypedAreUrls
<1>4. normalizeWebsiteUrl(answer[1].href) = answer[1]
  <2> HIDE DEF u, P
  <2> QED
    BY <1>1, <1>2, <1>3, StoredStays
<1>5. ASSUME NEW v \in {t \in TypedUrls : Reason(t) = "none"}
      PROVE  LET same == CanonicalKey(v) = CanonicalKey(u)
             IN /\ same <=> SameSite(v, u)
                /\ same => Href(v) = Respelled(Href(u), Href(v))
  <2>1. v \in Urls(P) /\ Reason(v) = "none"
    BY TypedAreUrls
  <2> HIDE DEF u, P
  <2> QED
    BY <1>2, <1>3, <2>1, KeysTell
<1> HIDE DEF u
<1> QED
  BY <1>2, <1>4, <1>5 DEF u, Respelled

(* KeysNameWebsites: of two URLs that are accepted, the canonical keys     *)
(* (normalizeWebsiteUrl) are equal exactly if they name the same website,  *)
(* and the worker takes what is stored for what it is.  The lemmas say so  *)
(* of all URLs, with any ports and any number of slashes.                  *)
THEOREM KeysTellWebsites == RulesSpec => []KeysNameWebsites
<1>1. RulesInit => RulesInv
  BY RulesStart
<1>2. RulesInv /\ [RulesNext]_ruleVars => RulesInv'
  BY RulesStep
<1>3. RulesInv => KeysNameWebsites
  BY KeysFollow
<1> QED
  BY <1>1, <1>2, <1>3, PTL DEF RulesSpec
=============================================================================
