--------------------------- MODULE DiscoveryProofs ---------------------------
(***************************************************************************)
(* Theorems about Discovery, for every set of hosts, issuers, key URLs and *)
(* DNS answers.  The first part is about AddressPolicy: the masks of the   *)
(* code and the intervals of the documented policy judge every IPv4 and    *)
(* IPv6 address alike.                                                     *)
(***************************************************************************)
EXTENDS Discovery, SequenceTheorems, FiniteSetTheorems, TLAPS

-----------------------------------------------------------------------------
\* The sizes of the blocks a mask can cut a group into (Unit).
Powers == {1, 2, 4, 8, 16, 32, 64, 128, 256, 512, 1024, 2048, 4096, 8192,
           16384, 32768, 65536}

\* An address, or the network of a range, in n groups.
Grouped(a, n) ==
  DOMAIN a = 1..n /\ Len(a) = n /\ \A i \in 1..n : a[i] \in Nat /\ a[i] <= 65535

\* A range over addresses of n groups.
Prefix(r, n) == Grouped(r.net, n) /\ r.ones \in Nat /\ r.ones <= 16 * n

\* The ranges of the IPv4 registry that are globally reachable, told from the
\* bits of any address in them.
Open4(ones, a) ==
  \/ ones = 32 /\ a[1] = 49152 /\ a[2] \in {9, 10}
  \/ ones = 24 /\ a[1] \in {49183, 49204, 49327}
\* The same of the IPv6 registry.
Open6(ones, a) ==
  \/ ones = 96 /\ a[1] = 100
  \/ ones = 128 /\ a[1] = 8193
  \/ ones = 32 /\ a[1] = 8193 /\ a[2] = 3
  \/ ones = 48 /\ ((a[1] = 8193 /\ a[2] = 4) \/ a[1] = 9760)
  \/ ones = 28 /\ a[2] \div 16 \in {2, 3}

\* The same for either family.
Open(ones, a) == IF Len(a) = 2 THEN Open4(ones, a) ELSE Open6(ones, a)

\* The entries of the IPv4 registry are ranges of two groups.
LEMMA V4Prefixes == \A r \in specialPurposeV4 : Prefix(r, 2)
<1>1. \A r \in specialPurposeV4 : Len(r.net) = 2 /\ DOMAIN r.net = 1..2
  BY SMTT(30) DEF V4Range, V4, specialPurposeV4
<1>2. \A r \in specialPurposeV4 : r.ones \in Nat /\ r.ones <= 32
  BY SMTT(30) DEF V4Range, specialPurposeV4
<1>3. \A r \in specialPurposeV4 : r.net[1] \in Nat /\ r.net[1] <= 65535
  BY SMTT(30) DEF V4Range, V4, specialPurposeV4
<1>4. \A r \in specialPurposeV4 : r.net[2] \in Nat /\ r.net[2] <= 65535
  BY SMTT(30) DEF V4Range, V4, specialPurposeV4
<1> QED BY <1>1, <1>2, <1>3, <1>4 DEF Prefix, Grouped

\* The entries of the IPv6 registry are ranges of eight groups.
LEMMA V6Prefixes == \A r \in specialPurposeV6 : Prefix(r, 8)
<1>1. \A r \in specialPurposeV6 : Len(r.net) = 8 /\ DOMAIN r.net = 1..8
  BY SMTT(30) DEF V6Range, V6, specialPurposeV6
<1>2. \A r \in specialPurposeV6 : r.ones \in Nat /\ r.ones <= 128
  BY SMTT(30) DEF V6Range, specialPurposeV6
<1>3. \A r \in specialPurposeV6 : \A i \in 1..8 : r.net[i] \in Nat /\ r.net[i] <= 65535
  BY SMTT(60) DEF V6Range, V6, specialPurposeV6
<1> QED BY <1>1, <1>2, <1>3 DEF Prefix, Grouped

\* The IPv4 entries marked globally reachable.
LEMMA V4Reachable ==
  \A r \in specialPurposeV4 :
     \/ r.reachable = TRUE /\ Open4(r.ones, r.net)
     \/ r.reachable = FALSE /\ ~Open4(r.ones, r.net)
  BY SMTT(60) DEF V4Range, V4, specialPurposeV4, Open4

\* The IPv6 entries marked globally reachable.
LEMMA V6Reachable ==
  \A r \in specialPurposeV6 :
     \/ r.reachable = TRUE /\ Open6(r.ones, r.net)
     \/ r.reachable = FALSE /\ ~Open6(r.ones, r.net)
  BY SMTT(60) DEF V6Range, V6, specialPurposeV6, Open6

-----------------------------------------------------------------------------
\* Division with remainder.
LEMMA DivMod ==
  ASSUME NEW a \in Nat, NEW u \in Nat, u > 0
  PROVE  /\ a = u * (a \div u) + (a % u)
         /\ a % u \in 0..(u - 1) /\ a \div u \in Nat /\ u * (a \div u) \in Nat
  OBVIOUS

\* Quotient and remainder are unique.
LEMMA DivUnique ==
  ASSUME NEW q \in Nat, NEW p \in Nat, NEW u \in Nat, u > 0,
         NEW s \in 0..(u - 1), NEW t \in 0..(u - 1), u * q + s = u * p + t
  PROVE  q = p
  OBVIOUS

\* Two groups agree above a unit exactly when one lies in the block of the
\* other, and then the blocks start at the same value.
LEMMA SameBlock ==
  ASSUME NEW a \in Nat, NEW b \in Nat, NEW u \in Nat, u > 0
  PROVE  /\ a \div u = b \div u <=> b - (b % u) <= a /\ a <= b - (b % u) + u - 1
         /\ a \div u = b \div u => b - (b % u) = a - (a % u)
<1> DEFINE p == a \div u
<1> DEFINE q == b \div u
<1> DEFINE s == a % u
<1> DEFINE t == b % u
<1> DEFINE x == u * p
<1> DEFINE y == u * q
<1>1. /\ a = x + s /\ b = y + t /\ x \in Nat /\ y \in Nat
      /\ s \in 0..(u - 1) /\ t \in 0..(u - 1) /\ p \in Nat /\ q \in Nat
  BY DivMod
<1> HIDE DEF p, q, s, t
<1>2. ASSUME b - t <= a, a <= b - t + u - 1 PROVE p = q
  <2>1. a - y \in 0..(u - 1) /\ a = y + (a - y)
    <3> HIDE DEF x, y
    <3> QED BY <1>1, <1>2
  <2>2. u * p + s = u * q + (a - y)
    BY <1>1, <2>1
  <2> HIDE DEF x, y
  <2> QED BY <1>1, <2>1, <2>2, DivUnique
<1>3. ASSUME p = q PROVE b - t = a - s /\ b - t <= a /\ a <= b - t + u - 1
  <2>1. x = y
    BY <1>3
  <2> HIDE DEF x, y
  <2> QED BY <1>1, <2>1
<1> QED BY <1>2, <1>3 DEF p, q, s, t

\* The block of a smaller power of two lies in the block of a larger one.
LEMMA NestedBlocks ==
  ASSUME NEW a \in Nat, NEW u \in Powers, NEW v \in Powers, u <= v
  PROVE  a - (a % v) <= a - (a % u) /\ a - (a % u) + u <= a - (a % v) + v
  BY SMTT(60) DEF Powers

\* The blocks a mask cuts a group into: one value under the mask, all of them
\* beyond it, and the smaller the longer the mask (Unit).
LEMMA UnitFacts ==
  ASSUME NEW n \in Nat, NEW r, Prefix(r, n), NEW i \in 1..n
  PROVE  /\ Unit(r, i) \in Powers
         /\ 16 * i <= r.ones => Unit(r, i) = 1
         /\ r.ones <= 16 * (i - 1) => Unit(r, i) = 65536
<1>1. Masked(r, i) \in 0..16
  BY DEF Masked, Prefix
<1>2. \A k \in 1..17 : PowersOfTwo[k] \in Powers
  BY DEF PowersOfTwo, Powers
<1>3. PowersOfTwo[1] = 1 /\ PowersOfTwo[17] = 65536
  BY DEF PowersOfTwo
<1>4. 17 - Masked(r, i) \in 1..17
  BY <1>1
<1>5. 16 * i <= r.ones => Masked(r, i) = 16
  BY DEF Masked, Prefix
<1>6. r.ones <= 16 * (i - 1) => Masked(r, i) = 0
  BY DEF Masked, Prefix
<1> QED BY <1>2, <1>3, <1>4, <1>5, <1>6 DEF Unit

\* The longer of two masks cuts no group into larger blocks, and some group
\* into smaller ones (Unit).
LEMMA LongerMask ==
  ASSUME NEW n \in Nat, NEW q, NEW r, Prefix(q, n), Prefix(r, n)
  PROVE  /\ q.ones <= r.ones => \A i \in 1..n : Unit(r, i) <= Unit(q, i)
         /\ q.ones < r.ones => \E i \in 1..n : Unit(r, i) < Unit(q, i)
<1>1. \A j, k \in 1..17 : j < k => PowersOfTwo[j] < PowersOfTwo[k]
  BY DEF PowersOfTwo
<1>2. \A k \in 1..17 : PowersOfTwo[k] \in Nat
  BY DEF PowersOfTwo
<1>3. \A i \in 1..n : Masked(q, i) \in 0..16 /\ Masked(r, i) \in 0..16
  BY DEF Masked, Prefix
<1>4. \A i \in 1..n : 17 - Masked(q, i) \in 1..17 /\ 17 - Masked(r, i) \in 1..17
  BY <1>3
<1>5. ASSUME q.ones <= r.ones, NEW i \in 1..n PROVE Unit(r, i) <= Unit(q, i)
  <2>1. Masked(q, i) <= Masked(r, i)
    BY <1>5 DEF Masked, Prefix
  <2>2. CASE Masked(q, i) = Masked(r, i)
    BY <2>2, <1>2, <1>4 DEF Unit
  <2>3. CASE Masked(q, i) < Masked(r, i)
    <3>1. 17 - Masked(r, i) < 17 - Masked(q, i)
      BY <2>3, <1>3
    <3> QED BY <3>1, <1>1, <1>2, <1>4 DEF Unit
  <2> QED BY <2>1, <2>2, <2>3, <1>3
<1>6. ASSUME q.ones < r.ones PROVE \E i \in 1..n : Unit(r, i) < Unit(q, i)
  <2> DEFINE i == (q.ones \div 16) + 1
  <2>1. i \in Nat /\ 16 * (i - 1) <= q.ones /\ q.ones < 16 * i
    BY DEF Prefix
  <2>2. i \in 1..n
    BY <1>6, <2>1 DEF Prefix
  <2> HIDE DEF i
  <2>3. Masked(q, i) < Masked(r, i)
    BY <1>6, <2>1, <2>2 DEF Masked, Prefix
  <2>4. 17 - Masked(r, i) < 17 - Masked(q, i)
    BY <2>2, <2>3, <1>3
  <2> QED BY <2>2, <2>4, <1>1, <1>4 DEF Unit
<1> QED BY <1>5, <1>6

\* A non-empty set of naturals has a least element.  (The strict subset order
\* on the intervals 1..n is well founded.)
LEMMA LeastElement ==
  ASSUME NEW S \in SUBSET Nat, S # {}
  PROVE  \E x \in S : \A y \in S : x <= y
<1> DEFINE T == {1..x : x \in S}
<1> DEFINE R == StrictSubsetOrdering(Nat)
<1>1. \A x \in S : 1..x \in FiniteSubsetsOf(Nat)
  BY FS_Interval DEF FiniteSubsetsOf
<1>2. T \subseteq FiniteSubsetsOf(Nat) /\ T # {}
  BY <1>1
<1>3. IsWellFoundedOn(R, FiniteSubsetsOf(Nat))
  BY FS_StrictSubsetOrderingWellFounded
<1>4. \E t \in T : \A u \in T : ~(<<u, t>> \in R)
  <2> HIDE DEF T, R
  <2> QED BY <1>2, <1>3, WFMin
<1>5. PICK x \in S : \A y \in S : ~(<<1..y, 1..x>> \in R)
  BY <1>4
<1>6. ASSUME NEW y \in S, ~(x <= y) PROVE FALSE
  <2>1. 1..y \subseteq 1..x /\ 1..y # 1..x
    <3>1. x \in 1..x /\ x \notin 1..y
      BY <1>6
    <3>2. \A z \in 1..y : z \in 1..x
      BY <1>6
    <3> QED BY <3>1, <3>2
  <2>2. 1..y \in SUBSET Nat /\ 1..x \in SUBSET Nat
    OBVIOUS
  <2>3. <<1..y, 1..x>> \in R
    BY <2>1, <2>2 DEF StrictSubsetOrdering
  <2> QED BY <2>3, <1>5
<1> QED BY <1>6

-----------------------------------------------------------------------------

-----------------------------------------------------------------------------
\* A function of integers on the groups of an address.
Numbers(a, n) == DOMAIN a = 1..n /\ a = [i \in 1..n |-> a[i]] /\ \A i \in 1..n : a[i] \in Int

\* An address that is nowhere larger is at most the other (AtMost).
LEMMA PointwiseAtMost ==
  ASSUME NEW n \in Nat, NEW a, NEW b, Numbers(a, n), Numbers(b, n),
         \A i \in 1..n : a[i] <= b[i]
  PROVE  AtMost(a, b)
<1> DEFINE D == {i \in 1..n : a[i] # b[i]}
<1>1. CASE D = {}
  <2>1. \A i \in 1..n : a[i] = b[i]
    BY <1>1
  <2>2. a = b
    BY <2>1 DEF Numbers
  <2> QED BY <2>2 DEF AtMost
<1>2. CASE D # {}
  <2>1. PICK i \in D : \A j \in D : i <= j
    <3>1. D \in SUBSET Nat
      OBVIOUS
    <3> HIDE DEF D
    <3> QED BY <1>2, <3>1, LeastElement
  <2>2. a[i] < b[i]
    BY <2>1 DEF Numbers
  <2>3. \A j \in 1..(i - 1) : a[j] = b[j]
    BY <2>1
  <2> QED BY <2>1, <2>2, <2>3 DEF AtMost, Numbers
<1> QED BY <1>1, <1>2

\* Where two ordered addresses agree so far, the next group is ordered (AtMost).
LEMMA AtMostNext ==
  ASSUME NEW n \in Nat, NEW a, NEW b, Numbers(a, n), Numbers(b, n), AtMost(a, b),
         NEW i \in 1..n, \A j \in 1..(i - 1) : a[j] = b[j]
  PROVE  a[i] <= b[i]
<1>1. CASE a = b
  BY <1>1 DEF Numbers
<1>2. ASSUME NEW k \in 1..n, a[k] < b[k], \A j \in 1..(k - 1) : a[j] = b[j]
      PROVE  a[i] <= b[i]
  <2>1. CASE k < i
    <3>1. a[k] = b[k]
      BY <2>1
    <3> QED BY <3>1, <1>2 DEF Numbers
  <2>2. CASE k = i
    BY <2>2, <1>2 DEF Numbers
  <2>3. CASE i < k
    <3>1. a[i] = b[i]
      BY <2>3, <1>2
    <3> QED BY <3>1 DEF Numbers
  <2> QED BY <2>1, <2>2, <2>3
<1> QED BY <1>1, <1>2 DEF AtMost, Numbers

\* The order is antisymmetric (AtMost).
LEMMA AtMostBothWays ==
  ASSUME NEW n \in Nat, NEW a, NEW b, Numbers(a, n), Numbers(b, n), AtMost(a, b), AtMost(b, a)
  PROVE  \A i \in 1..n : a[i] = b[i]
<1> DEFINE D == {i \in 1..n : a[i] # b[i]}
<1> SUFFICES ASSUME D # {} PROVE FALSE
  OBVIOUS
<1>1. PICK i \in D : \A j \in D : i <= j
  <2>1. D \in SUBSET Nat
    OBVIOUS
  <2> HIDE DEF D
  <2> QED BY <2>1, LeastElement
<1>2. \A j \in 1..(i - 1) : a[j] = b[j]
  BY <1>1
<1>3. a[i] <= b[i] /\ b[i] <= a[i]
  BY <1>1, <1>2, AtMostNext
<1> QED BY <1>1, <1>3 DEF Numbers

\* The ends of a range are addresses of its size (Lowest, Highest).
LEMMA Ends ==
  ASSUME NEW n \in Nat, NEW r, Prefix(r, n)
  PROVE  /\ Numbers(Lowest(r), n) /\ Numbers(Highest(r), n)
         /\ \A i \in 1..n : /\ Lowest(r)[i] = r.net[i] - (r.net[i] % Unit(r, i))
                            /\ Highest(r)[i] = r.net[i] - (r.net[i] % Unit(r, i)) + Unit(r, i) - 1
<1>1. \A i \in 1..n : r.net[i] \in Nat /\ Unit(r, i) \in Nat /\ Unit(r, i) > 0
  <2>1. \A i \in 1..n : Unit(r, i) \in Powers
    BY UnitFacts
  <2>2. \A u \in Powers : u \in Nat /\ u > 0
    BY DEF Powers
  <2> QED BY <2>1, <2>2 DEF Prefix, Grouped
<1>2. \A i \in 1..n : r.net[i] % Unit(r, i) \in Nat
  BY <1>1, DivMod
<1>3. DOMAIN r.net = 1..n
  BY DEF Prefix, Grouped
<1>4. Lowest(r) = [i \in 1..n |-> r.net[i] - (r.net[i] % Unit(r, i))]
  BY <1>3 DEF Lowest
<1>5. Highest(r) = [i \in 1..n |-> Lowest(r)[i] + Unit(r, i) - 1]
  BY <1>3 DEF Highest
<1>6. \A i \in 1..n : r.net[i] - (r.net[i] % Unit(r, i)) \in Int
  BY <1>1, <1>2
<1> QED BY <1>1, <1>4, <1>5, <1>6 DEF Numbers

\* What the proofs use of an address in n groups.
Addr(a, n) == Grouped(a, n) /\ Numbers(a, n)

\* An address is in a range exactly when each of its groups lies between the
\* ends; the range and the address agree on where the blocks start.
LEMMA ContainsPointwise ==
  ASSUME NEW n \in Nat, NEW r, Prefix(r, n), NEW ip, Addr(ip, n)
  PROVE  /\ NetContains(r, ip) <=>
              \A i \in 1..n : Lowest(r)[i] <= ip[i] /\ ip[i] <= Highest(r)[i]
         /\ NetContains(r, ip) =>
              \A i \in 1..n : /\ Lowest(r)[i] = ip[i] - (ip[i] % Unit(r, i))
                              /\ Highest(r)[i] = ip[i] - (ip[i] % Unit(r, i)) + Unit(r, i) - 1
<1>1. \A i \in 1..n : Unit(r, i) \in Powers
  BY UnitFacts
<1>2. \A u \in Powers : u \in Nat /\ u > 0
  BY DEF Powers
<1>3. \A i \in 1..n : r.net[i] \in Nat /\ ip[i] \in Nat /\ Unit(r, i) \in Nat /\ Unit(r, i) > 0
  BY <1>1, <1>2 DEF Prefix, Addr, Grouped
<1>4. Len(r.net) = Len(ip) /\ DOMAIN ip = 1..n
  BY DEF Prefix, Addr, Grouped
<1>5. ASSUME NEW i \in 1..n
      PROVE  /\ ip[i] \div Unit(r, i) = r.net[i] \div Unit(r, i)
                  <=> Lowest(r)[i] <= ip[i] /\ ip[i] <= Highest(r)[i]
             /\ ip[i] \div Unit(r, i) = r.net[i] \div Unit(r, i)
                  => /\ Lowest(r)[i] = ip[i] - (ip[i] % Unit(r, i))
                     /\ Highest(r)[i] = ip[i] - (ip[i] % Unit(r, i)) + Unit(r, i) - 1
  <2>1. /\ Lowest(r)[i] = r.net[i] - (r.net[i] % Unit(r, i))
        /\ Highest(r)[i] = r.net[i] - (r.net[i] % Unit(r, i)) + Unit(r, i) - 1
    BY Ends
  <2>2. r.net[i] \in Nat /\ ip[i] \in Nat /\ Unit(r, i) \in Nat /\ Unit(r, i) > 0
    BY <1>3
  <2> DEFINE a == ip[i]
  <2> DEFINE b == r.net[i]
  <2> DEFINE u == Unit(r, i)
  <2>3. /\ a \div u = b \div u <=> b - (b % u) <= a /\ a <= b - (b % u) + u - 1
        /\ a \div u = b \div u => b - (b % u) = a - (a % u)
    <3>1. a \in Nat /\ b \in Nat /\ u \in Nat /\ u > 0
      BY <2>2
    <3> HIDE DEF a, b, u
    <3> QED BY <3>1, SameBlock
  <2> QED BY <2>1, <2>3
<1> QED BY <1>4, <1>5 DEF NetContains

\* An address between the ends of a range has each of its groups between them:
\* the groups before the mask ends are fixed and those after it are free.
LEMMA BetweenPointwise ==
  ASSUME NEW n \in Nat, NEW r, Prefix(r, n), NEW ip, Addr(ip, n), Between(r, ip)
  PROVE  \A i \in 1..n : Lowest(r)[i] <= ip[i] /\ ip[i] <= Highest(r)[i]
<1> DEFINE Out == {i \in 1..n : ~(Lowest(r)[i] <= ip[i] /\ ip[i] <= Highest(r)[i])}
<1> SUFFICES ASSUME Out # {} PROVE FALSE
  OBVIOUS
<1>1. PICK i \in Out : \A j \in Out : i <= j
  <2>1. Out \in SUBSET Nat
    OBVIOUS
  <2> HIDE DEF Out
  <2> QED BY <2>1, LeastElement
<1>2. i \in 1..n /\ \A j \in 1..(i - 1) : Lowest(r)[j] <= ip[j] /\ ip[j] <= Highest(r)[j]
  BY <1>1
<1>3. Numbers(Lowest(r), n) /\ Numbers(Highest(r), n) /\ Numbers(ip, n)
  BY Ends DEF Addr
<1>4. CASE r.ones <= 16 * (i - 1)
  <2>1. Unit(r, i) = 65536
    BY <1>2, <1>4, UnitFacts
  <2>2. r.net[i] \in Nat /\ r.net[i] <= 65535 /\ ip[i] \in Nat /\ ip[i] <= 65535
    BY <1>2 DEF Prefix, Addr, Grouped
  <2>3. r.net[i] % 65536 = r.net[i]
    BY <2>2
  <2>4. Lowest(r)[i] = 0 /\ Highest(r)[i] = 65535
    BY <1>2, <2>1, <2>2, <2>3, Ends
  <2> QED BY <1>1, <2>2, <2>4
<1>5. CASE ~(r.ones <= 16 * (i - 1))
  <2>1. ASSUME NEW j \in 1..(i - 1)
        PROVE  Lowest(r)[j] = ip[j] /\ ip[j] = Highest(r)[j]
    <3>1. j \in 1..n /\ 16 * j <= r.ones
      BY <1>2, <1>5 DEF Prefix
    <3>2. Unit(r, j) = 1
      BY <3>1, UnitFacts
    <3>3. Highest(r)[j] = Lowest(r)[j]
      BY <3>1, <3>2, <1>3, Ends DEF Numbers
    <3>4. Lowest(r)[j] <= ip[j] /\ ip[j] <= Highest(r)[j]
      BY <1>2
    <3>5. Lowest(r)[j] \in Int /\ ip[j] \in Int
      BY <3>1, <1>3 DEF Numbers
    <3> QED BY <3>3, <3>4, <3>5
  <2>2. Lowest(r)[i] <= ip[i]
    BY <1>2, <1>3, <2>1, AtMostNext DEF Between
  <2>3. ip[i] <= Highest(r)[i]
    BY <1>2, <1>3, <2>1, AtMostNext DEF Between
  <2> QED BY <1>1, <2>2, <2>3
<1> QED BY <1>4, <1>5

\* Masks and intervals contain the same addresses (NetContains, Between).
LEMMA ContainsIsBetween ==
  ASSUME NEW n \in Nat, NEW r, Prefix(r, n), NEW ip, Addr(ip, n)
  PROVE  NetContains(r, ip) <=> Between(r, ip)
<1>1. Numbers(Lowest(r), n) /\ Numbers(Highest(r), n) /\ Numbers(ip, n)
  BY Ends DEF Addr
<1>2. Len(r.net) = Len(ip)
  BY DEF Prefix, Addr, Grouped
<1>3. ASSUME NetContains(r, ip) PROVE Between(r, ip)
  <2>1. \A i \in 1..n : Lowest(r)[i] <= ip[i] /\ ip[i] <= Highest(r)[i]
    BY <1>3, ContainsPointwise
  <2>2. AtMost(Lowest(r), ip) /\ AtMost(ip, Highest(r))
    BY <1>1, <2>1, PointwiseAtMost
  <2> QED BY <1>2, <2>2 DEF Between
<1> QED BY <1>3, BetweenPointwise, ContainsPointwise

\* Of two ranges around an address the one with the longer mask lies inside
\* the other.
LEMMA LongerInside ==
  ASSUME NEW n \in Nat, NEW q, NEW r, Prefix(q, n), Prefix(r, n), q.ones <= r.ones,
         NEW ip, Addr(ip, n), NetContains(q, ip), NetContains(r, ip)
  PROVE  AtMost(Lowest(q), Lowest(r)) /\ AtMost(Highest(r), Highest(q))
<1>1. Numbers(Lowest(q), n) /\ Numbers(Highest(q), n)
  BY Ends
<1>2. Numbers(Lowest(r), n) /\ Numbers(Highest(r), n)
  BY Ends
<1>3. ASSUME NEW i \in 1..n
      PROVE  Lowest(q)[i] <= Lowest(r)[i] /\ Highest(r)[i] <= Highest(q)[i]
  <2> DEFINE a == ip[i]
  <2> DEFINE u == Unit(r, i)
  <2> DEFINE v == Unit(q, i)
  <2>1. a \in Nat /\ u \in Powers /\ v \in Powers /\ u <= v
    BY UnitFacts, LongerMask DEF Addr, Grouped
  <2>2. /\ Lowest(r)[i] = a - (a % u) /\ Highest(r)[i] = a - (a % u) + u - 1
        /\ Lowest(q)[i] = a - (a % v) /\ Highest(q)[i] = a - (a % v) + v - 1
    BY ContainsPointwise
  <2> HIDE DEF a, u, v
  <2>3. a - (a % v) <= a - (a % u) /\ a - (a % u) + u <= a - (a % v) + v
    BY <2>1, NestedBlocks
  <2>4. a % u \in Nat /\ a % v \in Nat /\ u \in Nat /\ v \in Nat
    <3>1. u \in Nat /\ u > 0 /\ v \in Nat /\ v > 0
      BY <2>1 DEF Powers
    <3> QED BY <2>1, <3>1, DivMod
  <2>5. a - (a % u) + u - 1 <= a - (a % v) + v - 1
    BY <2>1, <2>3, <2>4
  <2> QED BY <2>2, <2>3, <2>5
<1> QED BY <1>1, <1>2, <1>3, PointwiseAtMost

\* Ranges inside one another have masks of the same length.
LEMMA SameEnds ==
  ASSUME NEW n \in Nat, NEW q, NEW r, Prefix(q, n), Prefix(r, n),
         AtMost(Lowest(q), Lowest(r)), AtMost(Highest(r), Highest(q)),
         AtMost(Lowest(r), Lowest(q)), AtMost(Highest(q), Highest(r))
  PROVE  q.ones = r.ones
<1>1. Numbers(Lowest(q), n) /\ Numbers(Highest(q), n)
  BY Ends
<1>2. Numbers(Lowest(r), n) /\ Numbers(Highest(r), n)
  BY Ends
<1>3. \A i \in 1..n : Lowest(q)[i] = Lowest(r)[i] /\ Highest(q)[i] = Highest(r)[i]
  BY <1>1, <1>2, AtMostBothWays
<1>4. ASSUME NEW i \in 1..n PROVE Unit(q, i) = Unit(r, i)
  <2>1. Unit(q, i) \in Int /\ Unit(r, i) \in Int
    BY UnitFacts DEF Powers
  <2>2. /\ Highest(q)[i] = Lowest(q)[i] + Unit(q, i) - 1
        /\ Highest(r)[i] = Lowest(r)[i] + Unit(r, i) - 1
    BY Ends
  <2> QED BY <1>1, <1>2, <1>3, <2>1, <2>2 DEF Numbers
<1>5. \A i \in 1..n : Unit(q, i) \in Int /\ Unit(r, i) \in Int
  BY UnitFacts DEF Powers
<1>6. ~(q.ones < r.ones) /\ ~(r.ones < q.ones)
  BY <1>4, <1>5, LongerMask
<1> QED BY <1>6 DEF Prefix

-----------------------------------------------------------------------------
\* Every entry of the registries is a range over one of the two families.
LEMMA ListedPrefix ==
  ASSUME NEW r \in specialPurposeDiscoveryRanges
  PROVE  \/ r \in specialPurposeV4 /\ Prefix(r, 2)
         \/ r \in specialPurposeV6 /\ Prefix(r, 8)
  BY V4Prefixes, V6Prefixes DEF specialPurposeDiscoveryRanges

\* So is every standard category.
LEMMA CategoryPrefix ==
  ASSUME NEW c \in StandardCategories
  PROVE  Prefix(c, 2) \/ Prefix(c, 8)
<1>1. \A r \in StandardV4 : Len(r.net) = 2 /\ DOMAIN r.net = 1..2
  BY SMTT(30) DEF V4Range, V4, StandardV4
<1>2. \A r \in StandardV4 : r.ones \in Nat /\ r.ones <= 32
  BY SMTT(30) DEF V4Range, StandardV4
<1>3. \A r \in StandardV4 : r.net[1] \in Nat /\ r.net[1] <= 65535
  BY SMTT(30) DEF V4Range, V4, StandardV4
<1>4. \A r \in StandardV4 : r.net[2] \in Nat /\ r.net[2] <= 65535
  BY SMTT(30) DEF V4Range, V4, StandardV4
<1>5. \A r \in StandardV4 : Prefix(r, 2)
  BY <1>1, <1>2, <1>3, <1>4 DEF Prefix, Grouped
<1>6. \A r \in StandardV6 : Len(r.net) = 8 /\ DOMAIN r.net = 1..8
  BY SMTT(30) DEF V6Range, V6, StandardV6
<1>7. \A r \in StandardV6 : r.ones \in Nat /\ r.ones <= 128
  BY SMTT(30) DEF V6Range, StandardV6
<1>8. \A r \in StandardV6 : \A i \in 1..8 : r.net[i] \in Nat /\ r.net[i] <= 65535
  BY SMTT(60) DEF V6Range, V6, StandardV6
<1>9. \A r \in StandardV6 : Prefix(r, 8)
  BY <1>6, <1>7, <1>8 DEF Prefix, Grouped
<1> QED BY <1>5, <1>9 DEF StandardCategories

\* A range that contains or surrounds an address is of its family.
LEMMA SameFamily ==
  ASSUME NEW n \in {2, 8}, NEW r, Prefix(r, 2) \/ Prefix(r, 8), NEW ip, Addr(ip, n),
         Len(r.net) = Len(ip)
  PROVE  Prefix(r, n)
<1>1. CASE Prefix(r, 2)
  <2>1. n = 2
    BY <1>1 DEF Prefix, Addr, Grouped
  <2> QED BY <1>1, <2>1
<1>2. CASE Prefix(r, 8)
  <2>1. n = 8
    BY <1>2 DEF Prefix, Addr, Grouped
  <2> QED BY <1>2, <2>1
<1> QED BY <1>1, <1>2

\* Every address is one of the two families' (Address).
LEMMA AddressGroups ==
  ASSUME NEW n \in Nat, NEW ip \in [1..n -> Group]
  PROVE  Addr(ip, n)
<1>1. ip \in Seq(Group)
  BY SeqDef
<1>2. DOMAIN ip = 1..Len(ip) /\ Len(ip) \in Nat /\ DOMAIN ip = 1..n
  BY <1>1, LenProperties
<1>3. \A m, k \in Nat : 1..m = 1..k => m = k
  <2> SUFFICES ASSUME NEW m \in Nat, NEW k \in Nat, 1..m = 1..k, m < k PROVE FALSE
    OBVIOUS
  <2>1. k \in 1..k /\ k \notin 1..m
    OBVIOUS
  <2> QED BY <2>1
<1>4. Len(ip) = n
  BY <1>2, <1>3
<1>5. \A i \in 1..n : ip[i] \in Nat /\ ip[i] <= 65535
  <2>1. MaxGroup \in Nat
    BY DEF MaxGroup
  <2>2. \A g \in Group : g \in Nat /\ g <= MaxGroup
    BY <2>1 DEF Group
  <2> QED BY <2>2 DEF MaxGroup
<1>6. ip = [i \in 1..n |-> ip[i]]
  OBVIOUS
<1> QED BY <1>2, <1>4, <1>5, <1>6 DEF Addr, Grouped, Numbers

\* The ranges the mask test finds are the intervals around the address.
LEMMA HitsAround ==
  ASSUME NEW n \in {2, 8}, NEW ip, Addr(ip, n)
  PROVE  /\ Hits(ip) = Around(ip)
         /\ \A r \in Hits(ip) : Prefix(r, n) /\ NetContains(r, ip)
         /\ \A c \in StandardCategories : NetContains(c, ip) <=> Between(c, ip)
<1>1. ASSUME NEW r, Prefix(r, 2) \/ Prefix(r, 8)
      PROVE  /\ NetContains(r, ip) <=> Between(r, ip)
             /\ NetContains(r, ip) => Prefix(r, n)
  <2>1. NetContains(r, ip) \/ Between(r, ip) => Prefix(r, n)
    BY <1>1, SameFamily DEF NetContains, Between
  <2> QED BY <2>1, ContainsIsBetween
<1>2. \A r \in specialPurposeDiscoveryRanges : Prefix(r, 2) \/ Prefix(r, 8)
  BY ListedPrefix
<1>3. \A c \in StandardCategories : Prefix(c, 2) \/ Prefix(c, 8)
  BY CategoryPrefix
<1>4. /\ \A r \in specialPurposeDiscoveryRanges : NetContains(r, ip) <=> Between(r, ip)
      /\ \A r \in specialPurposeDiscoveryRanges : NetContains(r, ip) => Prefix(r, n)
      /\ \A c \in StandardCategories : NetContains(c, ip) <=> Between(c, ip)
  BY <1>1, <1>2, <1>3
<1> QED BY <1>4 DEF Hits, Around

\* The groups of an address before the end of a mask are those of the network.
LEMMA FixedGroups ==
  ASSUME NEW n \in Nat, NEW r, Prefix(r, n), NEW ip, Addr(ip, n), NetContains(r, ip),
         NEW i \in 1..n, 16 * i <= r.ones
  PROVE  ip[i] = r.net[i]
<1>1. Unit(r, i) = 1
  BY UnitFacts
<1>2. ip[i] \div 1 = r.net[i] \div 1
  BY <1>1 DEF NetContains, Addr, Grouped
<1>3. r.net[i] \in Nat /\ ip[i] \in Nat
  BY DEF Addr, Prefix, Grouped
<1> QED BY <1>2, <1>3

\* The table's word on a range can be read off any address in it.
LEMMA ReachableFromAddress ==
  ASSUME NEW n \in {2, 8}, NEW ip, Addr(ip, n), NEW r \in Hits(ip)
  PROVE  (r.reachable = TRUE /\ Open(r.ones, ip)) \/ (r.reachable = FALSE /\ ~Open(r.ones, ip))
<1>1. Prefix(r, n) /\ NetContains(r, ip) /\ r \in specialPurposeDiscoveryRanges
  BY HitsAround DEF Hits
<1>2. \A i \in 1..n : 16 * i <= r.ones => ip[i] = r.net[i]
  BY <1>1, FixedGroups
<1>3. CASE n = 2
  <2>1. r \in specialPurposeV4
    BY <1>1, <1>3, ListedPrefix DEF Prefix, Grouped
  <2>2. r.ones >= 16 => ip[1] = r.net[1]
    BY <1>2, <1>3, <1>1 DEF Prefix
  <2>3. r.ones >= 32 => ip[2] = r.net[2]
    BY <1>2, <1>3, <1>1 DEF Prefix
  <2>4. Open4(r.ones, ip) <=> Open4(r.ones, r.net)
    BY <2>2, <2>3 DEF Open4
  <2>5. Open(r.ones, ip) <=> Open4(r.ones, ip)
    BY <1>3 DEF Open, Addr, Grouped
  <2>6. \/ r.reachable = TRUE /\ Open4(r.ones, r.net)
        \/ r.reachable = FALSE /\ ~Open4(r.ones, r.net)
    BY <2>1, V4Reachable
  <2> QED BY <2>4, <2>5, <2>6
<1>4. CASE n = 8
  <2>1. r \in specialPurposeV6
    BY <1>1, <1>4, ListedPrefix DEF Prefix, Grouped
  <2>2. r.ones >= 16 => ip[1] = r.net[1]
    BY <1>2, <1>4, <1>1 DEF Prefix
  <2>3. r.ones >= 32 => ip[2] = r.net[2]
    BY <1>2, <1>4, <1>1 DEF Prefix
  <2>4. r.ones = 28 => ip[2] \div 16 = r.net[2] \div 16
    <3>1. r.ones = 28 => Unit(r, 2) = 16
      BY DEF Unit, Masked, PowersOfTwo
    <3> QED BY <3>1, <1>1, <1>4 DEF NetContains, Addr, Grouped
  <2>5. Open6(r.ones, ip) <=> Open6(r.ones, r.net)
    BY <2>2, <2>3, <2>4 DEF Open6
  <2>6. Open(r.ones, ip) <=> Open6(r.ones, ip)
    BY <1>4 DEF Open, Addr, Grouped
  <2>7. \/ r.reachable = TRUE /\ Open6(r.ones, r.net)
        \/ r.reachable = FALSE /\ ~Open6(r.ones, r.net)
    BY <2>1, V6Reachable
  <2> QED BY <2>5, <2>6, <2>7
<1> QED BY <1>3, <1>4

\* The longest prefix match decides as the narrowest interval does
\* (specialPurposeGloballyReachable).
LEMMA LongestIsNarrowest ==
  ASSUME NEW n \in {2, 8}, NEW ip, Addr(ip, n), Hits(ip) # {}
  PROVE  LET r == mostSpecificRange(ip)
         IN  /\ r \in Hits(ip) /\ Narrowest(r, Around(ip))
             /\ \A q \in Around(ip) : Narrowest(q, Around(ip)) => q.ones = r.ones
<1>1. \A r \in Hits(ip) : Prefix(r, n) /\ NetContains(r, ip)
  BY HitsAround
<1>2. \A r \in Hits(ip) : r.ones \in Nat /\ r.ones <= 128
  BY <1>1 DEF Prefix
<1>3. \E r \in Hits(ip) : \A q \in Hits(ip) : q.ones <= r.ones
  <2> DEFINE S == {128 - r.ones : r \in Hits(ip)}
  <2>1. S \in SUBSET Nat /\ S # {}
    BY <1>2
  <2>2. PICK x \in S : \A y \in S : x <= y
    <3> HIDE DEF S
    <3> QED BY <2>1, LeastElement
  <2>3. PICK r \in Hits(ip) : x = 128 - r.ones
    BY <2>2
  <2>4. ASSUME NEW q \in Hits(ip) PROVE q.ones <= r.ones
    <3>1. 128 - q.ones \in S
      OBVIOUS
    <3>2. 128 - r.ones <= 128 - q.ones
      BY <2>2, <2>3, <3>1
    <3> QED BY <3>2, <1>2
  <2> QED BY <2>4
<1> DEFINE r == mostSpecificRange(ip)
<1>4. r \in Hits(ip) /\ \A q \in Hits(ip) : q.ones <= r.ones
  BY <1>3 DEF mostSpecificRange
<1> HIDE DEF r
<1>5. Around(ip) = Hits(ip)
  BY HitsAround
<1>6. Narrowest(r, Around(ip))
  <2>1. ASSUME NEW q \in Hits(ip)
        PROVE  AtMost(Lowest(q), Lowest(r)) /\ AtMost(Highest(r), Highest(q))
    BY <1>1, <1>4, LongerInside
  <2> QED BY <1>5, <2>1 DEF Narrowest
<1>7. ASSUME NEW q \in Around(ip), Narrowest(q, Around(ip)) PROVE q.ones = r.ones
  <2>1. Prefix(q, n) /\ Prefix(r, n)
    BY <1>1, <1>4, <1>5
  <2>2. AtMost(Lowest(q), Lowest(r)) /\ AtMost(Highest(r), Highest(q))
    BY <1>6, <1>7 DEF Narrowest
  <2>3. AtMost(Lowest(r), Lowest(q)) /\ AtMost(Highest(q), Highest(r))
    BY <1>4, <1>5, <1>7 DEF Narrowest
  <2> QED BY <2>1, <2>2, <2>3, SameEnds
<1> QED BY <1>4, <1>6, <1>7 DEF r

\* Apart from NAT64 and the mapped addresses the code refuses what the policy
\* calls non-public (isDisallowedDiscoveryTarget).
LEMMA DirectlyAgrees ==
  ASSUME NEW n \in {2, 8}, NEW ip, Addr(ip, n)
  PROVE  isDisallowedDirectly(ip) <=> ~PublicDirectly(ip)
<1>1. Hits(ip) = Around(ip)
  BY HitsAround
<1>2. CASE Hits(ip) = {}
  <2>1. mostSpecificRange(ip) = NoRange
    BY <1>2 DEF mostSpecificRange
  <2>2. isDisallowedDirectly(ip) <=> \E c \in StandardCategories : NetContains(c, ip)
    BY <2>1 DEF isDisallowedDirectly
  <2>3. PublicDirectly(ip) <=> \A c \in StandardCategories : ~Between(c, ip)
    BY <1>1, <1>2 DEF PublicDirectly
  <2> QED BY <2>2, <2>3, HitsAround
<1>3. CASE Hits(ip) # {}
  <2> DEFINE r == mostSpecificRange(ip)
  <2>1. /\ r \in Hits(ip) /\ Narrowest(r, Around(ip))
        /\ \A q \in Around(ip) : Narrowest(q, Around(ip)) => q.ones = r.ones
    BY <1>3, LongestIsNarrowest
  <2>2. r # NoRange
    <3>1. r.ones \in Nat
      BY <2>1, HitsAround DEF Prefix
    <3>2. NoRange.ones = -1
      BY DEF NoRange
    <3> QED BY <3>1, <3>2
  <2>3. isDisallowedDirectly(ip) <=> ~r.reachable
    BY <2>2 DEF isDisallowedDirectly
  <2> HIDE DEF r
  <2>4. PublicDirectly(ip) <=> \E q \in Around(ip) : Narrowest(q, Around(ip)) /\ q.reachable
    BY <1>1, <1>3 DEF PublicDirectly
  <2>5. ASSUME NEW q \in Around(ip), Narrowest(q, Around(ip))
        PROVE  q.reachable = r.reachable
    <3>1. q.ones = r.ones /\ q \in Hits(ip)
      BY <2>1, <2>5, <1>1
    <3>2. (q.reachable = TRUE /\ Open(q.ones, ip)) \/ (q.reachable = FALSE /\ ~Open(q.ones, ip))
      BY <3>1, ReachableFromAddress
    <3>3. r \in Hits(ip)
      BY <2>1
    <3>4. (r.reachable = TRUE /\ Open(r.ones, ip)) \/ (r.reachable = FALSE /\ ~Open(r.ones, ip))
      BY <3>3, ReachableFromAddress
    <3>5. CASE Open(r.ones, ip)
      <4>1. Open(q.ones, ip)
        BY <3>1, <3>5
      <4>2. q.reachable = TRUE
        BY <4>1, <3>2
      <4>3. r.reachable = TRUE
        BY <3>4, <3>5
      <4> QED BY <4>2, <4>3
    <3>6. CASE ~Open(r.ones, ip)
      BY <3>1, <3>2, <3>4, <3>6
    <3> QED BY <3>5, <3>6
  <2> QED BY <1>1, <2>1, <2>3, <2>4, <2>5
<1> QED BY <1>2, <1>3

\* The two ranges the code names are in the IPv6 registry.
LEMMA NamedRanges ==
  /\ wellKnownNAT64Prefix \in specialPurposeV6 /\ MappedRange \in specialPurposeV6
  /\ wellKnownNAT64Prefix.net[1] = 100 /\ wellKnownNAT64Prefix.ones = 96
  /\ MappedRange.net[1] = 0 /\ MappedRange.net[2] = 0 /\ MappedRange.ones = 96
<1>1. wellKnownNAT64Prefix \in specialPurposeV6 /\ MappedRange \in specialPurposeV6
  BY DEF wellKnownNAT64Prefix, MappedRange, specialPurposeV6
<1>2. wellKnownNAT64Prefix.net[1] = 100 /\ wellKnownNAT64Prefix.ones = 96
  BY DEF wellKnownNAT64Prefix, V6Range, V6
<1>3. MappedRange.net[1] = 0 /\ MappedRange.net[2] = 0 /\ MappedRange.ones = 96
  BY DEF MappedRange, V6Range, V6
<1> QED BY <1>1, <1>2, <1>3

\* An IPv4-mapped address is non-public without its own rule as well.
LEMMA MappedRefused ==
  ASSUME NEW ip, Addr(ip, 8), Is4In6(ip)
  PROVE  isDisallowedDirectly(ip) /\ ~NetContains(wellKnownNAT64Prefix, ip)
<1>1. MappedRange \in Hits(ip) /\ NetContains(MappedRange, ip)
  BY NamedRanges DEF Is4In6, Hits, specialPurposeDiscoveryRanges
<1>2. Prefix(MappedRange, 8) /\ Prefix(wellKnownNAT64Prefix, 8)
  BY NamedRanges, V6Prefixes
<1>3. ip[1] = 0 /\ ip[2] = 0
  BY <1>1, <1>2, NamedRanges, FixedGroups
<1>4. ~NetContains(wellKnownNAT64Prefix, ip)
  BY <1>2, <1>3, NamedRanges, FixedGroups
<1> DEFINE r == mostSpecificRange(ip)
<1>5. r \in Hits(ip)
  BY <1>1, LongestIsNarrowest
<1>6. ~Open(r.ones, ip)
  <2>1. Len(ip) = 8
    BY DEF Addr, Grouped
  <2>2. ~(0 \div 16 \in {2, 3})
    OBVIOUS
  <2> QED BY <1>3, <2>1, <2>2 DEF Open, Open6
<1>7. r.reachable = FALSE
  <2> HIDE DEF r
  <2> QED BY <1>5, <1>6, ReachableFromAddress
<1>8. r # NoRange
  <2>1. r.ones \in Nat
    BY <1>5, HitsAround DEF Prefix
  <2>2. NoRange.ones = -1
    BY DEF NoRange
  <2> QED BY <2>1, <2>2
<1> QED BY <1>4, <1>7, <1>8 DEF isDisallowedDirectly

\* The dial hook refuses exactly the addresses that the documented policy calls
\* non-public, for every IPv4 and IPv6 address (blockDiscoveryDial).
LEMMA PolicyAgrees ==
  ASSUME NEW ip \in Address
  PROVE  blockDiscoveryDial(ip) <=> ~Public(ip)
<1>0. Prefix(MappedRange, 8) /\ Prefix(wellKnownNAT64Prefix, 8)
  BY NamedRanges, V6Prefixes
<1>1. CASE ip \in [1..2 -> Group]
  <2>1. Addr(ip, 2)
    BY <1>1, AddressGroups
  <2>2. ~Is4In6(ip) /\ ~NetContains(wellKnownNAT64Prefix, ip) /\ ~Between(wellKnownNAT64Prefix, ip)
    BY <1>0, <2>1 DEF Is4In6, NetContains, Between, Prefix, Addr, Grouped
  <2>3. isDisallowedDirectly(ip) <=> ~PublicDirectly(ip)
    BY <2>1, DirectlyAgrees
  <2> QED BY <2>2, <2>3 DEF blockDiscoveryDial, isDisallowedDiscoveryTarget, Public
<1>2. CASE ip \in [1..8 -> Group]
  <2>1. Addr(ip, 8)
    BY <1>2, AddressGroups
  <2>2. NetContains(wellKnownNAT64Prefix, ip) <=> Between(wellKnownNAT64Prefix, ip)
    BY <1>0, <2>1, ContainsIsBetween
  <2>3. CASE NetContains(wellKnownNAT64Prefix, ip)
    <3>1. ~Is4In6(ip)
      BY <2>1, <2>3, MappedRefused
    <3>2. <<ip[7], ip[8]>> \in [1..2 -> Group]
      BY <1>2
    <3>3. Addr(<<ip[7], ip[8]>>, 2)
      BY <3>2, AddressGroups
    <3>4. isDisallowedDirectly(<<ip[7], ip[8]>>) <=> ~PublicDirectly(<<ip[7], ip[8]>>)
      BY <3>3, DirectlyAgrees
    <3> QED BY <2>2, <2>3, <3>1, <3>4
            DEF blockDiscoveryDial, isDisallowedDiscoveryTarget, Public
  <2>4. CASE ~NetContains(wellKnownNAT64Prefix, ip)
    <3>1. isDisallowedDirectly(ip) <=> ~PublicDirectly(ip)
      BY <2>1, DirectlyAgrees
    <3>2. Is4In6(ip) => isDisallowedDirectly(ip)
      BY <2>1, MappedRefused
    <3> QED BY <2>2, <2>4, <3>1, <3>2
            DEF blockDiscoveryDial, isDisallowedDiscoveryTarget, Public
  <2> QED BY <2>3, <2>4
<1> QED BY <1>1, <1>2 DEF Address

-----------------------------------------------------------------------------
\* Cutting a trailing slash off an issuer gives an issuer (TrimSuffix).
LEMMA TrimSuffixType ==
  ASSUME NEW i \in Issuer
  PROVE  TrimSuffix(i) \in Issuer
  BY DEF TrimSuffix, Issuer

\* Only https key URLs are ever accepted (discoverJWKSURL).
LEMMA DiscoverType ==
  ASSUME NEW r
  PROVE  discoverJWKSURL(r) \in HttpsURIs \cup {None}
  BY DEF discoverJWKSURL

\* What a call leaves behind when it returns is well-typed (Return).
LEMMA ReturnType ==
  ASSUME TypeOK, NEW uri \in HttpsURIs \cup {None}, Return(uri)
  PROVE  /\ pc' = "idle" /\ todo' = {} /\ issuer' = issuer /\ refused' = refused
         /\ cache' \in [Issuers -> HttpsURIs \cup {None}]
         /\ result' \in Outcomes /\ succeeded' \subseteq Issuers
  BY DEF TypeOK, Return, cacheDiscovery, cachedDiscovery, Outcomes

\* A discovered issuer is cached, under a URL that its own endpoint published,
\* and so is every URL a call returned; while a call is under way nothing has
\* been returned yet (cacheDiscovery, cachedDiscovery).
CacheIsPublished ==
  /\ \A i \in Issuers : cache[i] # None => <<TrimSuffix(i), cache[i]>> \in published
  /\ \A i \in succeeded : cache[i] # None

\* The inductive invariant.
IInv == TypeOK /\ CacheIsPublished /\ KeysOfTheIssuer /\ OnlyFirstDiscoveryFails

\* The addresses of a lookup are addresses (Lookup).
LEMMA AnswersAreAddresses ==
  ASSUME TypeOK, NEW ans \in Answers[host]
  PROVE  ans \subseteq Addresses
<1>1. host \in Hosts
  BY DiscoveryAssumption DEF host, TypeOK, Issuer
<1> QED
  BY <1>1 DEF Addresses

\* A fresh process satisfies the invariant (Init).
LEMMA InitIInv == Init => IInv
<1> SUFFICES ASSUME Init PROVE IInv
  OBVIOUS
<1>1. TypeOK
  BY DEF Init, TypeOK, Outcomes
<1>2. CacheIsPublished
  BY DEF Init, CacheIsPublished
<1>3. KeysOfTheIssuer /\ OnlyFirstDiscoveryFails
  BY DiscoveryAssumption DEF Init, KeysOfTheIssuer, OnlyFirstDiscoveryFails
<1> QED
  BY <1>1, <1>2, <1>3 DEF IInv

\* The end of a call keeps the invariant when a URL it hands out has been
\* published by the issuer's endpoint (resolveJWKSURL).
LEMMA ReturnIInv ==
  ASSUME IInv, NEW uri \in HttpsURIs \cup {None}, Return(uri),
         published \subseteq published',
         uri # None => <<TrimSuffix(issuer), uri>> \in published'
  PROVE  CacheIsPublished' /\ KeysOfTheIssuer' /\ OnlyFirstDiscoveryFails'
<1>1. issuer \in Issuers /\ cache \in [Issuers -> HttpsURIs \cup {None}]
  BY DEF IInv, TypeOK
<1>2. issuer' = issuer
  BY DEF Return
<1>3. CASE uri = None
  <2>1. cache' = cache /\ succeeded' = succeeded
    BY <1>3 DEF Return, cacheDiscovery
  <2>2. CacheIsPublished'
    BY <2>1 DEF IInv, CacheIsPublished
  <2>3. result' = IF cache[issuer] # None THEN cache[issuer] ELSE "failed"
    BY <1>3 DEF Return, cachedDiscovery
  <2>4. OnlyFirstDiscoveryFails'
    <3>1. CASE cache[issuer] # None
      BY <3>1, <2>3, <1>1, <2>1, <1>2, DiscoveryAssumption DEF OnlyFirstDiscoveryFails
    <3>2. CASE cache[issuer] = None
      BY <3>2, <2>1, <1>2 DEF OnlyFirstDiscoveryFails, IInv, CacheIsPublished
    <3> QED
      BY <3>1, <3>2
  <2>5. KeysOfTheIssuer'
    BY <2>3, <1>1, <1>2, <2>1, <2>2, DiscoveryAssumption DEF KeysOfTheIssuer, CacheIsPublished
  <2> QED
    BY <2>2, <2>4, <2>5
<1>4. CASE uri # None
  <2>1. cache' = [cache EXCEPT ![issuer] = uri]
    BY <1>4 DEF Return, cacheDiscovery
  <2>2. result' = uri /\ succeeded' = succeeded \cup {issuer}
    BY <1>4 DEF Return
  <2>3. CacheIsPublished'
    BY <2>1, <2>2, <1>1, <1>4 DEF IInv, TypeOK, CacheIsPublished
  <2>4. KeysOfTheIssuer' /\ OnlyFirstDiscoveryFails'
    BY <2>2, <1>2, <1>4, DiscoveryAssumption DEF KeysOfTheIssuer, OnlyFirstDiscoveryFails
  <2> QED
    BY <2>3, <2>4
<1> QED
  BY <1>3, <1>4

\* Every step keeps the invariant, one action at a time.
LEMMA NextIInv == IInv /\ [Next]_vars => IInv'
<1> SUFFICES ASSUME IInv, [Next]_vars PROVE IInv'
  OBVIOUS
<1> USE DEF IInv
<1>1. CASE CallNotNeeded
  <2>1. TypeOK'
    BY <1>1 DEF CallNotNeeded, TypeOK, Outcomes
  <2>2. CacheIsPublished'
    BY <1>1 DEF CallNotNeeded, CacheIsPublished
  <2>3. KeysOfTheIssuer' /\ OnlyFirstDiscoveryFails'
    BY <1>1, DiscoveryAssumption DEF CallNotNeeded, KeysOfTheIssuer, OnlyFirstDiscoveryFails
  <2> QED
    BY <2>1, <2>2, <2>3
<1>2. ASSUME NEW i \in Issuers, Call(i) PROVE IInv'
  <2>1. TypeOK'
    BY <1>2 DEF Call, TypeOK, Outcomes
  <2>2. CacheIsPublished'
    BY <1>2 DEF Call, CacheIsPublished
  <2>3. KeysOfTheIssuer' /\ OnlyFirstDiscoveryFails'
    BY <1>2 DEF Call, KeysOfTheIssuer, OnlyFirstDiscoveryFails
  <2> QED
    BY <2>1, <2>2, <2>3
<1>3. CASE Reuse
  <2>1. TypeOK'
    BY <1>3 DEF Reuse, TypeOK
  <2>2. CacheIsPublished' /\ KeysOfTheIssuer' /\ OnlyFirstDiscoveryFails'
    BY <1>3 DEF Reuse, CacheIsPublished, KeysOfTheIssuer, OnlyFirstDiscoveryFails
  <2> QED
    BY <2>1, <2>2
<1>4. ASSUME NEW h \in Hosts, ConnectionLost(h) PROVE IInv'
  <2>1. TypeOK'
    BY <1>4 DEF ConnectionLost, TypeOK
  <2>2. CacheIsPublished' /\ KeysOfTheIssuer' /\ OnlyFirstDiscoveryFails'
    BY <1>4 DEF ConnectionLost, CacheIsPublished, KeysOfTheIssuer, OnlyFirstDiscoveryFails
  <2> QED
    BY <2>1, <2>2
<1>5. CASE Lookup
  <2>1. TypeOK'
    <3>1. todo' \subseteq Addresses
      BY <1>5, AnswersAreAddresses DEF Lookup
    <3> QED
      BY <1>5, <3>1 DEF Lookup, TypeOK
  <2>2. CacheIsPublished' /\ KeysOfTheIssuer' /\ OnlyFirstDiscoveryFails'
    BY <1>5 DEF Lookup, CacheIsPublished, KeysOfTheIssuer, OnlyFirstDiscoveryFails
  <2> QED
    BY <2>1, <2>2
<1>6. ASSUME NEW a \in todo, DialRefused(a) \/ DialFails(a) \/ DialConnects(a) PROVE IInv'
  <2>1. a \in Addresses /\ host \in Hosts
    BY DiscoveryAssumption DEF TypeOK, host, Issuer
  <2>2. TypeOK'
    BY <1>6, <2>1 DEF DialRefused, DialFails, DialConnects, TypeOK
  <2>3. CacheIsPublished' /\ KeysOfTheIssuer' /\ OnlyFirstDiscoveryFails'
    BY <1>6 DEF DialRefused, DialFails, DialConnects,
                CacheIsPublished, KeysOfTheIssuer, OnlyFirstDiscoveryFails
  <2> QED
    BY <2>2, <2>3
<1>7. CASE RequestFails
  <2>1. Return(None) /\ published' = published
    BY <1>7 DEF RequestFails
  <2>2. conn' \in [Hosts -> Addresses \cup {<<>>}]
    BY <1>7 DEF RequestFails, TypeOK
  <2>3. TypeOK'
    BY <2>1, <2>2, ReturnType DEF TypeOK
  <2> QED
    BY <2>1, <2>3, ReturnIInv
<1>8. ASSUME NEW r \in Response, Fetch(r) PROVE IInv'
  <2> DEFINE uri == discoverJWKSURL(r)
  <2>1. uri \in HttpsURIs \cup {None} /\ Return(uri)
    BY <1>8, DiscoverType DEF Fetch
  <2>2. TrimSuffix(issuer) \in Issuer
    BY TrimSuffixType, DiscoveryAssumption DEF TypeOK
  <2>3. published \subseteq published' /\ published' \subseteq Issuer \X HttpsURIs
    BY <1>8, <2>2 DEF Fetch, TypeOK
  <2>4. conn' \in [Hosts -> Addresses \cup {<<>>}]
    BY <1>8 DEF Fetch, TypeOK
  <2>5. TypeOK'
    <3> HIDE DEF uri
    <3> QED
      BY <2>1, <2>3, <2>4, ReturnType DEF TypeOK
  <2>6. uri # None => <<TrimSuffix(issuer), uri>> \in published'
    BY <1>8 DEF Fetch, discoverJWKSURL, fetched
  <2> HIDE DEF uri
  <2> QED
    BY <2>1, <2>3, <2>5, <2>6, ReturnIInv
<1>9. CASE Crash
  <2>1. TypeOK'
    BY <1>9 DEF Crash, TypeOK, Outcomes
  <2>2. CacheIsPublished'
    BY <1>9 DEF Crash, CacheIsPublished
  <2>3. KeysOfTheIssuer' /\ OnlyFirstDiscoveryFails'
    BY <1>9, DiscoveryAssumption DEF Crash, KeysOfTheIssuer, OnlyFirstDiscoveryFails
  <2> QED
    BY <2>1, <2>2, <2>3
<1>10. CASE UNCHANGED vars
  BY <1>10 DEF vars, TypeOK, CacheIsPublished, KeysOfTheIssuer, OnlyFirstDiscoveryFails
<1> QED
  BY <1>1, <1>2, <1>3, <1>4, <1>5, <1>6, <1>7, <1>8, <1>9, <1>10 DEF Next

\* In every reachable state the variables have their types, for every set of
\* hosts, issuers and answers (the whole of discovery).
THEOREM DiscoveryTypeCorrect == Spec => []TypeOK
<1>1. IInv => TypeOK
  BY DEF IInv
<1> QED
  BY <1>1, InitIInv, NextIInv, PTL DEF Spec

\* A key URL that resolveJWKSURL returns, fresh or cached, was published by the
\* endpoint of the issuer it was asked for, for every set of issuers and
\* whatever the servers answer (resolveJWKSURL, discoverJWKSURL).
THEOREM KeysAreTheIssuers == Spec => []KeysOfTheIssuer
<1>1. IInv => KeysOfTheIssuer
  BY DEF IInv
<1> QED
  BY <1>1, InitIInv, NextIInv, PTL DEF Spec

\* Once an issuer has been discovered, no later call for it fails while the
\* process lives (resolveJWKSURL).
THEOREM LaterDiscoveriesSucceed == Spec => []OnlyFirstDiscoveryFails
<1>1. IInv => OnlyFirstDiscoveryFails
  BY DEF IInv
<1> QED
  BY <1>1, InitIInv, NextIInv, PTL DEF Spec

-----------------------------------------------------------------------------
\* What the dial hook turns down is what the policy calls non-public.
LEMMA BlockedIsPrivate == Blocked = Addresses \ PublicAddresses
<1>1. Addresses \subseteq Address
  <2>1. \A h \in Hosts : Answers[h] \in SUBSET SUBSET Address
    BY DiscoveryAssumption
  <2> QED BY <2>1 DEF Addresses
<1>2. \A a \in Addresses : blockDiscoveryDial(a) <=> ~Public(a)
  BY <1>1, PolicyAgrees
<1> QED BY <1>2 DEF Blocked, PublicAddresses

\* Connections are public and refusals private from one step to the next.
LEMMA DialsStayRight ==
  ASSUME IInv, OnlyPublicConnections, OnlyPrivateRefused, [Next]_vars
  PROVE  OnlyPublicConnections' /\ OnlyPrivateRefused'
<1> USE BlockedIsPrivate
<1>0. TypeOK /\ conn \in [Hosts -> Addresses \cup {<<>>}]
  BY DEF IInv, TypeOK
<1>1. ASSUME UNCHANGED conn PROVE OnlyPublicConnections'
  BY <1>1 DEF OnlyPublicConnections, PublicAddresses
<1>2. ASSUME UNCHANGED refused \/ refused' = {} PROVE OnlyPrivateRefused'
  BY <1>2 DEF OnlyPrivateRefused, PublicAddresses
<1>3. ASSUME NEW h \in Hosts, conn' = [conn EXCEPT ![h] = <<>>] PROVE OnlyPublicConnections'
  BY <1>0, <1>3 DEF OnlyPublicConnections, PublicAddresses
<1>4. host \in Hosts
  BY <1>0, DiscoveryAssumption DEF TypeOK, host, Issuer
<1>5. CASE CallNotNeeded
  BY <1>1, <1>2, <1>5 DEF CallNotNeeded
<1>6. ASSUME NEW i \in Issuers, Call(i) PROVE OnlyPublicConnections' /\ OnlyPrivateRefused'
  BY <1>1, <1>2, <1>6 DEF Call
<1>7. CASE Reuse
  BY <1>1, <1>2, <1>7 DEF Reuse
<1>8. ASSUME NEW h \in Hosts, ConnectionLost(h)
      PROVE  OnlyPublicConnections' /\ OnlyPrivateRefused'
  BY <1>2, <1>3, <1>8 DEF ConnectionLost
<1>9. CASE Lookup
  BY <1>1, <1>2, <1>9 DEF Lookup
<1>10. ASSUME NEW a \in todo, DialRefused(a)
       PROVE  OnlyPublicConnections' /\ OnlyPrivateRefused'
  <2>1. refused' = refused \cup {a} /\ a \notin PublicAddresses
    BY <1>10 DEF DialRefused
  <2>2. OnlyPrivateRefused'
    BY <2>1 DEF OnlyPrivateRefused, PublicAddresses
  <2> QED BY <1>1, <1>10, <2>2 DEF DialRefused
<1>11. ASSUME NEW a \in todo, DialFails(a)
       PROVE  OnlyPublicConnections' /\ OnlyPrivateRefused'
  BY <1>1, <1>2, <1>11 DEF DialFails
<1>12. ASSUME NEW a \in todo, DialConnects(a)
       PROVE  OnlyPublicConnections' /\ OnlyPrivateRefused'
  <2>1. a \in PublicAddresses
    BY <1>0, <1>12 DEF DialConnects, TypeOK
  <2>2. conn' = [conn EXCEPT ![host] = a] /\ refused' = refused
    BY <1>12 DEF DialConnects
  <2>3. OnlyPublicConnections'
    BY <1>0, <1>4, <2>1, <2>2 DEF OnlyPublicConnections, PublicAddresses
  <2> QED BY <1>2, <2>2, <2>3
<1>13. CASE RequestFails
  BY <1>1, <1>2, <1>3, <1>4, <1>13 DEF RequestFails, Return
<1>14. ASSUME NEW r \in Response, Fetch(r) PROVE OnlyPublicConnections' /\ OnlyPrivateRefused'
  BY <1>1, <1>2, <1>3, <1>4, <1>14 DEF Fetch, Return
<1>15. CASE Crash
  <2>1. OnlyPublicConnections'
    BY <1>15 DEF Crash, OnlyPublicConnections
  <2> QED BY <1>2, <1>15, <2>1 DEF Crash
<1>16. CASE UNCHANGED vars
  BY <1>1, <1>2, <1>16 DEF vars
<1> QED
  BY <1>5, <1>6, <1>7, <1>8, <1>9, <1>10, <1>11, <1>12, <1>13, <1>14, <1>15, <1>16 DEF Next

\* A fresh process has neither connections nor refusals (Init).
LEMMA InitDials == Init => OnlyPublicConnections /\ OnlyPrivateRefused
  BY DEF Init, OnlyPublicConnections, OnlyPrivateRefused

\* Whatever DNS answers, and whenever it changes its answer, no connection of
\* discovery leads to an address the documented policy calls non-public, for
\* every IPv4 and IPv6 address (blockDiscoveryDial).
THEOREM ConnectionsArePublic == Spec => []OnlyPublicConnections
  BY InitIInv, NextIInv, InitDials, DialsStayRight, PTL DEF Spec

\* No public address is ever turned down, for every IPv4 and IPv6 address
\* (blockDiscoveryDial).
THEOREM RefusalsArePrivate == Spec => []OnlyPrivateRefused
  BY InitIInv, NextIInv, InitDials, DialsStayRight, PTL DEF Spec
=============================================================================
