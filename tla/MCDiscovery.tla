----------------------------- MODULE MCDiscovery -----------------------------
(***************************************************************************)
(* An instance of Discovery whose addresses stand for all addresses: the   *)
(* policy changes its mind only at the ends of a range, so the ends and    *)
(* their neighbours are tried, of IPv4 ranges also under the NAT64 prefix  *)
(* and IPv4-mapped.                                                        *)
(***************************************************************************)
EXTENDS Discovery

Bumped(a, from, to, by) ==
  LET k == CHOOSE k \in DOMAIN a : a[k] # from /\ \A j \in (k + 1)..Len(a) : a[j] = from
  IN  [i \in DOMAIN a |-> IF i < k THEN a[i] ELSE IF i = k THEN a[i] + by ELSE to]

\* The next and the previous address, if there is one.
After(a)  == IF \A i \in DOMAIN a : a[i] = 65535 THEN a ELSE Bumped(a, 65535, 0, 1)
Before(a) == IF \A i \in DOMAIN a : a[i] = 0 THEN a ELSE Bumped(a, 0, 65535, -1)

Ranges == specialPurposeDiscoveryRanges \cup StandardCategories

Edges == UNION {{Lowest(r), Highest(r), Before(Lowest(r)), After(Highest(r))} : r \in Ranges}
Translated == {V6(<<\h64, \hFF9B, 0, 0, 0, 0, a[1], a[2]>>) : a \in {e \in Edges : Len(e) = 2}}
Mapped == {V6(<<0, 0, 0, 0, 0, \hFFFF, a[1], a[2]>>) : a \in {e \in Edges : Len(e) = 2}}

PublicOne == V4(8, 8, 8, 8)

\* One host may resolve to any of the addresses, alone or beside a private
\* one; the other always to the same public one.
MCAnswers ==
  [h \in Hosts |->
     IF h = "idp"
     THEN {{a} : a \in Edges \cup Translated \cup Mapped}
            \cup {{PublicOne, V4(10, 0, 0, 0)}}
     ELSE {{PublicOne}}]

MCIssuers == {[host |-> "idp", slashes |-> 0], [host |-> "idp", slashes |-> 1],
              [host |-> "other", slashes |-> 0]}
=============================================================================
