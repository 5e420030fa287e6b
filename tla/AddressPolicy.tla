---------------------------- MODULE AddressPolicy ----------------------------
(***************************************************************************)
(* Which addresses an OIDC discovery request may be dialled to             *)
(* (hyperfleetconfig_rollout.go): the table of special-purpose ranges, the *)
(* longest-prefix match over it, and the policy built on it.  An address   *)
(* is a sequence of 16-bit groups, two for IPv4 and eight for IPv6.        *)
(***************************************************************************)
EXTENDS Integers, Sequences

MaxGroup == 65535
Group == 0..MaxGroup
Address == [1..2 -> Group] \cup [1..8 -> Group]

\* The IPv4 address a.b.c.d.
V4(a, b, c, d) == <<256 * a + b, 256 * c + d>>

\* The IPv6 address that begins with the groups s and goes on with zeros.
V6(s) == [i \in 1..8 |-> IF i <= Len(s) THEN s[i] ELSE 0]

V4Range(a, b, c, d, ones, reachable) ==
  [net |-> V4(a, b, c, d), ones |-> ones, reachable |-> reachable]

V6Range(s, ones, reachable) ==
  [net |-> V6(s), ones |-> ones, reachable |-> reachable]

PowersOfTwo == <<1, 2, 4, 8, 16, 32, 64, 128, 256, 512, 1024, 2048, 4096, 8192,
                 16384, 32768, 65536>>

\* How many bits of the i-th group are under the mask of r.
Masked(r, i) ==
  IF r.ones <= 16 * (i - 1) THEN 0
  ELSE IF r.ones >= 16 * i THEN 16 ELSE r.ones - 16 * (i - 1)

\* How many values of the i-th group agree on the bits under the mask of r.
Unit(r, i) == PowersOfTwo[17 - Masked(r, i)]

\* net.IPNet.Contains within one address family: the masked groups agree.
NetContains(r, ip) ==
  /\ Len(r.net) = Len(ip)
  /\ \A i \in DOMAIN ip : ip[i] \div Unit(r, i) = r.net[i] \div Unit(r, i)

\* The IANA IPv4 special-purpose registry.
specialPurposeV4 ==
  {
    V4Range(0, 0, 0, 0, 8, FALSE),
    V4Range(0, 0, 0, 0, 32, FALSE),
    V4Range(10, 0, 0, 0, 8, FALSE),
    V4Range(100, 64, 0, 0, 10, FALSE),
    V4Range(127, 0, 0, 0, 8, FALSE),
    V4Range(169, 254, 0, 0, 16, FALSE),
    V4Range(172, 16, 0, 0, 12, FALSE),
    V4Range(192, 0, 0, 0, 24, FALSE),
    V4Range(192, 0, 0, 0, 29, FALSE),
    V4Range(192, 0, 0, 8, 32, FALSE),
    V4Range(192, 0, 0, 9, 32, TRUE),
    V4Range(192, 0, 0, 10, 32, TRUE),
    V4Range(192, 0, 0, 170, 32, FALSE),
    V4Range(192, 0, 0, 171, 32, FALSE),
    V4Range(192, 0, 2, 0, 24, FALSE),
    V4Range(192, 31, 196, 0, 24, TRUE),
    V4Range(192, 52, 193, 0, 24, TRUE),
    V4Range(192, 88, 99, 0, 24, FALSE),
    V4Range(192, 88, 99, 2, 32, FALSE),
    V4Range(192, 168, 0, 0, 16, FALSE),
    V4Range(192, 175, 48, 0, 24, TRUE),
    V4Range(198, 18, 0, 0, 15, FALSE),
    V4Range(198, 51, 100, 0, 24, FALSE),
    V4Range(203, 0, 113, 0, 24, FALSE),
    V4Range(240, 0, 0, 0, 4, FALSE),
    V4Range(255, 255, 255, 255, 32, FALSE)
  }

\* The IANA IPv6 special-purpose registry.
specialPurposeV6 ==
  {
    V6Range(<<0, 0, 0, 0, 0, 0, 0, 1>>, 128, FALSE),
    V6Range(<<0>>, 128, FALSE),
    V6Range(<<0, 0, 0, 0, 0, \hFFFF>>, 96, FALSE),
    V6Range(<<\h64, \hFF9B>>, 96, TRUE),
    V6Range(<<\h64, \hFF9B, 1>>, 48, FALSE),
    V6Range(<<\h100>>, 64, FALSE),
    V6Range(<<\h100, 0, 0, 1>>, 64, FALSE),
    V6Range(<<\h2001>>, 23, FALSE),
    V6Range(<<\h2001>>, 32, FALSE),
    V6Range(<<\h2001, 1, 0, 0, 0, 0, 0, 1>>, 128, TRUE),
    V6Range(<<\h2001, 1, 0, 0, 0, 0, 0, 2>>, 128, TRUE),
    V6Range(<<\h2001, 1, 0, 0, 0, 0, 0, 3>>, 128, TRUE),
    V6Range(<<\h2001, 2>>, 48, FALSE),
    V6Range(<<\h2001, 3>>, 32, TRUE),
    V6Range(<<\h2001, 4, \h112>>, 48, TRUE),
    V6Range(<<\h2001, \h10>>, 28, FALSE),
    V6Range(<<\h2001, \h20>>, 28, TRUE),
    V6Range(<<\h2001, \h30>>, 28, TRUE),
    V6Range(<<\h2001, \hDB8>>, 32, FALSE),
    V6Range(<<\h2002>>, 16, FALSE),
    V6Range(<<\h2620, \h4F, \h8000>>, 48, TRUE),
    V6Range(<<\h3FFF>>, 20, FALSE),
    V6Range(<<\h5F00>>, 16, FALSE),
    V6Range(<<\hFC00>>, 7, FALSE),
    V6Range(<<\hFE80>>, 10, FALSE)
  }

specialPurposeDiscoveryRanges == specialPurposeV4 \cup specialPurposeV6

wellKnownNAT64Prefix == V6Range(<<\h64, \hFF9B>>, 96, TRUE)

NoRange == [ones |-> -1, reachable |-> FALSE]

Hits(ip) == {r \in specialPurposeDiscoveryRanges : NetContains(r, ip)}

\* Mutant: the widest range that contains the address decides.
leastSpecificRange(ip) ==
  IF Hits(ip) = {} THEN NoRange
                   ELSE CHOOSE r \in Hits(ip) : \A q \in Hits(ip) : r.ones <= q.ones

\* specialPurposeGloballyReachable: of the ranges of the address's family that
\* contain it the one with the longest prefix; NoRange when no record applies.
mostSpecificRange(ip) ==
  IF Hits(ip) = {} THEN NoRange
                   ELSE CHOOSE r \in Hits(ip) : \A q \in Hits(ip) : q.ones <= r.ones

\* The net.IP predicates IsLoopback, IsPrivate, IsLinkLocalUnicast,
\* IsUnspecified and IsMulticast (which includes the link-local multicasts).
StandardV4 ==
  {V4Range(127, 0, 0, 0, 8, FALSE), V4Range(10, 0, 0, 0, 8, FALSE),
   V4Range(172, 16, 0, 0, 12, FALSE), V4Range(192, 168, 0, 0, 16, FALSE),
   V4Range(169, 254, 0, 0, 16, FALSE), V4Range(0, 0, 0, 0, 32, FALSE),
   V4Range(224, 0, 0, 0, 4, FALSE)}
StandardV6 ==
  {V6Range(<<0, 0, 0, 0, 0, 0, 0, 1>>, 128, FALSE), V6Range(<<\hFC00>>, 7, FALSE),
   V6Range(<<\hFE80>>, 10, FALSE), V6Range(<<0>>, 128, FALSE),
   V6Range(<<\hFF00>>, 8, FALSE)}
StandardCategories == StandardV4 \cup StandardV6

\* isDisallowedDiscoveryTarget below its NAT64 case.
isDisallowedDirectly(ip) ==
  LET r == mostSpecificRange(ip)
  IN  IF r # NoRange THEN ~r.reachable
                     ELSE \E c \in StandardCategories : NetContains(c, ip)

\* Mutant: the table's word on the NAT64 prefix is enough.
isDisallowedAsListed(ip) == isDisallowedDirectly(ip)

\* isDisallowedDiscoveryTarget: an address under the NAT64 prefix is judged by
\* the IPv4 address in its last 32 bits.
isDisallowedDiscoveryTarget(ip) ==
  IF NetContains(wellKnownNAT64Prefix, ip) THEN isDisallowedDirectly(<<ip[7], ip[8]>>)
                                        ELSE isDisallowedDirectly(ip)

\* blockDiscoveryDial: an IPv4-mapped address is refused before the policy.
MappedRange == V6Range(<<0, 0, 0, 0, 0, \hFFFF>>, 96, FALSE)
Is4In6(ip) == NetContains(MappedRange, ip)
blockDiscoveryDial(ip) == Is4In6(ip) \/ isDisallowedDiscoveryTarget(ip)

-----------------------------------------------------------------------------
(***************************************************************************)
(* The documented policy, stated on address intervals instead of masks:    *)
(* the narrowest registry interval around an address decides, an address   *)
(* in none is public unless it belongs to a standard category, and a NAT64 *)
(* address is as public as the IPv4 address it embeds.                     *)
(***************************************************************************)

Lowest(r)  == [i \in DOMAIN r.net |-> r.net[i] - (r.net[i] % Unit(r, i))]
Highest(r) == [i \in DOMAIN r.net |-> Lowest(r)[i] + Unit(r, i) - 1]

\* Numeric order of two addresses of one family.
AtMost(a, b) ==
  \/ a = b
  \/ \E i \in DOMAIN a : a[i] < b[i] /\ \A j \in 1..(i - 1) : a[j] = b[j]

Between(r, ip) ==
  Len(r.net) = Len(ip) /\ AtMost(Lowest(r), ip) /\ AtMost(ip, Highest(r))

Around(ip) == {r \in specialPurposeDiscoveryRanges : Between(r, ip)}

Narrowest(r, rs) ==
  \A q \in rs : AtMost(Lowest(q), Lowest(r)) /\ AtMost(Highest(r), Highest(q))

PublicDirectly(ip) ==
  \/ \E r \in Around(ip) : Narrowest(r, Around(ip)) /\ r.reachable
  \/ Around(ip) = {} /\ \A c \in StandardCategories : ~Between(c, ip)

Public(ip) ==
  PublicDirectly(IF Between(wellKnownNAT64Prefix, ip) THEN <<ip[7], ip[8]>> ELSE ip)
=============================================================================
