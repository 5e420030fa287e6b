------------------------------ MODULE Discovery ------------------------------
(***************************************************************************)
(* OIDC discovery (hyperfleetconfig_rollout.go): resolveJWKSURL with its   *)
(* cache, discoverJWKSURL with the checks on the response, and the HTTP    *)
(* client that resolves, dials and keeps connections open.  DNS and the    *)
(* servers are memoryless: every lookup may give another answer and every  *)
(* request another response.                                               *)
(*                                                                         *)
(* An issuer string is a base URL (one per host) followed by a number of   *)
(* slashes.                                                                *)
(***************************************************************************)
EXTENDS AddressPolicy

CONSTANTS
  Hosts,
  Issuers,    \* the issuers a HyperFleetConfig may name
  HttpsURIs,  \* jwks_uri values that are https URLs with a host
  BadURIs,    \* jwks_uri values that are empty, malformed or not https
  Answers     \* the sets of addresses a lookup of each host may return

None == "none"

Issuer == [host : Hosts, slashes : 0..2]

ASSUME DiscoveryAssumption ==
  /\ Issuers \subseteq Issuer
  /\ {None, "failed", "not needed"} \cap HttpsURIs = {}
  /\ HttpsURIs \cap BadURIs = {}
  /\ Answers \in [Hosts -> SUBSET SUBSET Address]

Addresses == UNION UNION {Answers[h] : h \in Hosts}

VARIABLES
  pc,         \* where the call of resolveJWKSURL stands
  issuer,     \* the issuer of the last call
  todo,       \* addresses of the last lookup not yet dialled
  refused,    \* addresses of this call that blockDiscoveryDial turned down
  conn,       \* the connection kept open to each host, by its address
  cache,      \* discoveryCache
  result,     \* what the last call returned
  published,  \* history: the endpoints and https key URLs they published
  succeeded   \* history: issuers discovered since the process started

vars == <<pc, issuer, todo, refused, conn, cache, result, published, succeeded>>

Outcomes == HttpsURIs \cup {None, "failed", "not needed"}

\* Every variable has its type.
TypeOK ==
  /\ pc \in {"idle", "connect", "dial", "fetch"}
  /\ issuer \in Issuers
  /\ todo \in SUBSET Addresses /\ refused \in SUBSET Addresses
  /\ conn \in [Hosts -> Addresses \cup {<<>>}]
  /\ cache \in [Issuers -> HttpsURIs \cup {None}]
  /\ result \in Outcomes
  /\ published \subseteq Issuer \X HttpsURIs
  /\ succeeded \subseteq Issuers

Init ==
  /\ pc = "idle"
  /\ issuer \in Issuers
  /\ todo = {} /\ refused = {}
  /\ conn = [h \in Hosts |-> <<>>]
  /\ cache = [i \in Issuers |-> None]
  /\ result = None
  /\ published = {} /\ succeeded = {}

\* Mutant: the last character is cut off, slash or not.
TrimAlways(i) == [i EXCEPT !.slashes = @ - 1]

\* strings.TrimSuffix(issuer, "/"), which is also the base of the discovery URL.
TrimSuffix(i) == [i EXCEPT !.slashes = IF @ = 0 THEN 0 ELSE @ - 1]

-----------------------------------------------------------------------------
(***************************************************************************)
(* resolveJWKSURL.                                                         *)
(***************************************************************************)

\* Authentication is off, or a Secret holds the keys: no discovery.
CallNotNeeded ==
  /\ pc = "idle"
  /\ result' = "not needed" /\ refused' = {}
  /\ UNCHANGED <<pc, issuer, todo, conn, cache, published, succeeded>>

Call(i) ==
  /\ pc = "idle"
  /\ pc' = "connect" /\ issuer' = i
  /\ result' = None /\ refused' = {}
  /\ UNCHANGED <<todo, conn, cache, published, succeeded>>

\* Mutant: any discovered URL bridges the failure.
cachedForAnyone(i) ==
  IF \E j \in Issuers : cache[j] # None
  THEN cache[CHOOSE j \in Issuers : cache[j] # None] ELSE None

\* cachedDiscovery.
cachedDiscovery(i) == cache[i]

\* Mutant: a failure drops what was cached.
cacheLatest(i, uri) == cache' = [cache EXCEPT ![i] = uri]

\* cacheDiscovery: only a success is recorded.
cacheDiscovery(i, uri) == cache' = IF uri = None THEN cache ELSE [cache EXCEPT ![i] = uri]

\* The call ends: discoverJWKSURL returned uri, or an error (None).
Return(uri) ==
  /\ pc' = "idle" /\ todo' = {}
  /\ cacheDiscovery(issuer, uri)
  /\ result' = IF uri # None THEN uri
               ELSE IF cachedDiscovery(issuer) # None THEN cachedDiscovery(issuer)
               ELSE "failed"
  /\ succeeded' = IF uri = None THEN succeeded ELSE succeeded \cup {issuer}
  /\ UNCHANGED <<issuer, refused>>

-----------------------------------------------------------------------------
(***************************************************************************)
(* The HTTP client.                                                        *)
(***************************************************************************)

host == issuer.host

\* A connection kept from an earlier call is used again.
Reuse ==
  /\ pc = "connect" /\ conn[host] # <<>>
  /\ pc' = "fetch"
  /\ UNCHANGED <<issuer, todo, refused, conn, cache, result, published, succeeded>>

\* The server, or the idle timeout, closes a kept connection.
ConnectionLost(h) ==
  /\ conn[h] # <<>>
  /\ pc = "fetch" => h # host
  /\ conn' = [conn EXCEPT ![h] = <<>>]
  /\ UNCHANGED <<pc, issuer, todo, refused, cache, result, published, succeeded>>

Lookup ==
  /\ pc = "connect" /\ conn[host] = <<>>
  /\ pc' = "dial"
  /\ todo' \in Answers[host]
  /\ UNCHANGED <<issuer, refused, conn, cache, result, published, succeeded>>

\* The dialer takes the addresses one by one, whichever family comes first,
\* and Control sees each before it is connected.
Blocked == {a \in Addresses : blockDiscoveryDial(a)}

DialRefused(a) ==
  /\ pc = "dial" /\ a \in Blocked
  /\ todo' = todo \ {a} /\ refused' = refused \cup {a}
  /\ UNCHANGED <<pc, issuer, conn, cache, result, published, succeeded>>

DialFails(a) ==
  /\ pc = "dial" /\ a \notin Blocked
  /\ todo' = todo \ {a}
  /\ UNCHANGED <<pc, issuer, refused, conn, cache, result, published, succeeded>>

DialConnects(a) ==
  /\ pc = "dial" /\ a \notin Blocked
  /\ pc' = "fetch" /\ todo' = {}
  /\ conn' = [conn EXCEPT ![host] = a]
  /\ UNCHANGED <<issuer, refused, cache, result, published, succeeded>>

\* No address is left, a name does not resolve, the handshake fails, the
\* request times out or its context ends.
RequestFails ==
  /\ pc # "idle"
  /\ conn' = IF pc = "fetch" THEN [conn EXCEPT ![host] = <<>>] ELSE conn
  /\ Return(None)
  /\ UNCHANGED published

\* What a server may answer: the document at the URL asked for, a redirect to
\* another document, another status, or a body that cannot be read or parsed.
Document == [issuer : Issuers, uri : HttpsURIs \cup BadURIs]
NoDocument == [issuer |-> None, uri |-> None]
Response == [kind : {"ok", "redirect"}, doc : Document]
              \cup [kind : {"status", "garbage"}, doc : {NoDocument}]

\* client.Do without redirects, the status check and json.Unmarshal.
fetched(r) == r.kind = "ok"

\* discoverJWKSURL after the request: the checks on the document.
discoverJWKSURL(r) ==
  IF /\ fetched(r)
     /\ TrimSuffix(r.doc.issuer) = TrimSuffix(issuer)
     /\ r.doc.uri \in HttpsURIs
  THEN r.doc.uri ELSE None

\* The server answers and its connection is kept or closed.
Fetch(r) ==
  /\ pc = "fetch"
  /\ conn' \in {conn, [conn EXCEPT ![host] = <<>>]}
  /\ published' = published \cup
       IF r.kind = "ok" THEN {<<TrimSuffix(r.doc.issuer), r.doc.uri>>}
                               \cap ({TrimSuffix(issuer)} \X HttpsURIs)
                        ELSE {}
  /\ Return(discoverJWKSURL(r))

\* The operator process ends; cache and connections go with it.
Crash ==
  /\ pc' = "idle" /\ todo' = {} /\ refused' = {}
  /\ conn' = [h \in Hosts |-> <<>>]
  /\ cache' = [i \in Issuers |-> None]
  /\ result' = None /\ succeeded' = {}
  /\ UNCHANGED <<issuer, published>>

Next ==
  \/ CallNotNeeded
  \/ \E i \in Issuers : Call(i)
  \/ Reuse
  \/ \E h \in Hosts : ConnectionLost(h)
  \/ Lookup
  \/ \E a \in todo : DialRefused(a) \/ DialFails(a) \/ DialConnects(a)
  \/ RequestFails
  \/ \E r \in Response : Fetch(r)
  \/ Crash

Spec == Init /\ [][Next]_vars

-----------------------------------------------------------------------------
PublicAddresses == {a \in Addresses : Public(a)}

\* "Discovery connections are limited to public destinations": whatever DNS
\* answers, and however often it changes its answer between calls, no
\* connection, kept or new, leads to an address the documented policy calls
\* non-public, also not through the NAT64 prefix
\* (docs/hyperfleetconfig-reference.md, blockDiscoveryDial).
OnlyPublicConnections == \A h \in Hosts : conn[h] = <<>> \/ conn[h] \in PublicAddresses

\* The policy never costs a public issuer its discovery: an address that
\* blockDiscoveryDial turns down is non-public, the globally reachable
\* exceptions inside blocked ranges included.
OnlyPrivateRefused == refused \cap PublicAddresses = {}

\* The key URL a call returns, fresh or out of the cache, is one that the
\* endpoint of the issuer asked for has itself published, directly and under
\* its own name (resolveJWKSURL, discoverJWKSURL).
KeysOfTheIssuer ==
  pc = "idle" /\ result \in HttpsURIs => <<TrimSuffix(issuer), result>> \in published

\* "Only the very first discovery for an issuer can still fail the reconcile":
\* after one success in the life of the process no outage, refusal or bad
\* document makes a call fail (resolveJWKSURL).
OnlyFirstDiscoveryFails == pc = "idle" /\ result = "failed" => issuer \notin succeeded
=============================================================================
